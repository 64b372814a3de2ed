----------------------------- MODULE ChatProofs -----------------------------
(* Proofs about Chat, for every set of contacts, any number of messages    *)
(* and operations, and any number of crashes, failing writes and failing   *)
(* reads.                                                                  *)
EXTENDS Chat, ListsProofs, SequenceTheorems

Lines == [id : Int, ts : Int]
Wire == [from : Contacts, ts : Int]

TypeInv ==
    /\ contacts \in [Contacts -> Contact \cup {None}]
    /\ conv \in [Contacts -> Seq(Lines)]
    /\ ratchet \in [Contacts -> SUBSET Int] /\ sent \in [Contacts -> SUBSET Int]
    /\ gone \in [Contacts -> SUBSET Int] /\ forgotten \in [Contacts -> SUBSET Int]
    /\ fresh \in [Contacts -> Nat]
    /\ task \in Task \cup {None} /\ open \in Contacts \cup {None}
    /\ wires \in Seq(Wire) /\ now \in Nat /\ composed \in Nat /\ faults \in Nat

\* What is left of a task that receives, of one that sends to a contact with
\* keys (p) or without (u).
r1 == <<"store", "touch", "ratchet">>
r2 == <<"touch", "ratchet">>
r3 == <<"ratchet">>
p1 == <<"own", "touch", "publish", "show">>
p2 == <<"touch", "publish", "show">>
p3 == <<"publish", "show">>
u1 == <<"own", "touch", "show">>
u2 == <<"touch", "show">>

\* The steps that bring lines into a log, count them or use up their keys.
Filing == {"store", "touch", "ratchet", "own", "publish"}

\* A list of steps none of which does.
Plain(todo) == todo # <<>> /\ \A k \in 1..Len(todo) : todo[k] \notin Filing

\* Where a task t may stand, with the contacts cs and the logs logs: what it
\* files has an own number if sent and a wire's if received, and is in the log
\* before it is published or its key is used up.
Standing(t, cs, logs) ==
    \/ Plain(t.todo)
    \/ /\ t.did \in Contacts /\ t.id > 0 /\ cs[t.did] # None
       /\ t.todo = r1 \/ (t.todo \in {r2, r3} /\ t.id \in Ids(logs[t.did]))
    \/ /\ t.did \in Contacts /\ t.id < 0
       /\ t.todo \in {p1, u1, u2} \/ (t.todo \in {p2, p3} /\ t.id \in Ids(logs[t.did]))

TaskInv == task # None => Standing(task, contacts, conv)

\* Lines of d that are in the log and that the badge does not count yet.
Due(t, d) == IF t # None /\ t.did = d /\ t.todo = r2 THEN 1 ELSE 0

\* The badge of contact c, with n lines received and k of them still to be
\* counted, after m faults.
Counted(c, n, k, m) ==
    /\ c = None => n = 0
    /\ c # None => c.unread + k <= n /\ (m = 0 => c.unread + k = n)

UnreadInv == \A d \in Contacts : Counted(contacts[d], fresh[d], Due(task, d), faults)

ChatInv == TypeInv /\ TaskInv /\ LinesKept /\ UnreadInv

-----------------------------------------------------------------------------
(* Lists of steps.                                                         *)

LEMMA StepLists ==
    /\ Head(r1) = "store" /\ Len(r1) = 3 /\ Tail(r1) = r2 /\ Tail(Tail(r1)) = r3
    /\ Head(r2) = "touch" /\ Len(r2) = 2 /\ Tail(r2) = r3
    /\ Head(r3) = "ratchet" /\ Len(r3) = 1
    /\ Head(p1) = "own" /\ Len(p1) = 4 /\ Tail(p1) = p2
    /\ Head(p2) = "touch" /\ Len(p2) = 3 /\ Tail(p2) = p3
    /\ Head(p3) = "publish" /\ Len(p3) = 2 /\ Tail(p3) = <<"show">>
    /\ Head(u1) = "own" /\ Len(u1) = 3 /\ Tail(u1) = u2
    /\ Head(u2) = "touch" /\ Len(u2) = 2 /\ Tail(u2) = <<"show">>
<1>1. /\ Head(r1) = "store" /\ Len(r1) = 3 /\ Tail(r1) = r2 /\ Tail(Tail(r1)) = r3
      /\ Head(r2) = "touch" /\ Len(r2) = 2 /\ Tail(r2) = r3
      /\ Head(r3) = "ratchet" /\ Len(r3) = 1
    BY DEF r1, r2, r3
<1>2. /\ Head(p1) = "own" /\ Len(p1) = 4 /\ Tail(p1) = p2
      /\ Head(p2) = "touch" /\ Len(p2) = 3 /\ Tail(p2) = p3
    BY DEF p1, p2, p3
<1>3. Head(p3) = "publish" /\ Len(p3) = 2 /\ Tail(p3) = <<"show">>
    BY DEF p3
<1>4. /\ Head(u1) = "own" /\ Len(u1) = 3 /\ Tail(u1) = u2
      /\ Head(u2) = "touch" /\ Len(u2) = 2 /\ Tail(u2) = <<"show">>
    BY DEF u1, u2
<1> QED
    BY <1>1, <1>2, <1>3, <1>4

LEMMA Words ==
    /\ "store" \in Steps /\ "touch" \in Steps /\ "ratchet" \in Steps /\ "own" \in Steps
    /\ "publish" \in Steps /\ "show" \in Steps /\ "mark" \in Steps /\ "prune" \in Steps
    /\ "expiry" \in Steps /\ "unlist" \in Steps /\ "log" \in Steps /\ "keys" \in Steps
    /\ "wipe_logs" \in Steps /\ "wipe_contacts" \in Steps /\ "wipe_expiry" \in Steps
    BY DEF Steps

LEMMA Short ==
    ASSUME NEW S, NEW a \in S, NEW b \in S, NEW c \in S, NEW d \in S
    PROVE  <<a>> \in Seq(S) /\ <<a, b>> \in Seq(S) /\ <<a, b, c>> \in Seq(S) /\ <<a, b, c, d>> \in Seq(S)
<1>1. <<a>> \in Seq(S)
    OBVIOUS
<1>2. <<a, b>> \in Seq(S)
    OBVIOUS
<1>3. <<a, b, c>> \in Seq(S)
    OBVIOUS
<1>4. <<a, b, c, d>> \in Seq(S)
    OBVIOUS
<1> QED
    BY <1>1, <1>2, <1>3, <1>4

\* Lists of steps put together.
LEMMA JoinThree ==
    ASSUME NEW a, NEW b, NEW c
    PROVE  <<a>> \o <<b, c>> = <<a, b, c>> /\ <<a, b>> \o <<c>> = <<a, b, c>>
<1> DEFINE S == {a, b, c}
<1>1. a \in S /\ b \in S /\ c \in S
    OBVIOUS
<1> HIDE DEF S
<1>2. /\ <<a>> \in Seq(S) /\ <<c>> \in Seq(S) /\ <<a, b>> \in Seq(S) /\ <<b, c>> \in Seq(S)
      /\ <<a, b, c>> \in Seq(S)
    BY <1>1, Short
<1>3. ASSUME NEW t, t = <<a>> \o <<b, c>> \/ t = <<a, b>> \o <<c>>
      PROVE  t = <<a, b, c>>
  <2>1. t \in Seq(S) /\ Len(t) = 3 /\ t[1] = a /\ t[2] = b /\ t[3] = c
    <3>1. CASE t = <<a>> \o <<b, c>>
        BY <1>2, <3>1, ConcatProperties
    <3>2. CASE t = <<a, b>> \o <<c>>
        BY <1>2, <3>2, ConcatProperties
    <3> QED
        BY <1>3, <3>1, <3>2
  <2> QED
      BY <1>2, <2>1, SeqEqual
<1> QED
    BY <1>3

LEMMA JoinFour ==
    ASSUME NEW a, NEW b, NEW c, NEW d
    PROVE  <<a, b, c>> \o <<d>> = <<a, b, c, d>>
<1> DEFINE S == {a, b, c, d}
           t == <<a, b, c>> \o <<d>>
<1>1. a \in S /\ b \in S /\ c \in S /\ d \in S
    OBVIOUS
<1> HIDE DEF S
<1>2. <<a, b, c>> \in Seq(S) /\ <<d>> \in Seq(S) /\ <<a, b, c, d>> \in Seq(S)
    BY <1>1, Short
<1>3. t \in Seq(S) /\ Len(t) = 4 /\ t[1] = a /\ t[2] = b /\ t[3] = c /\ t[4] = d
    BY <1>2, ConcatProperties
<1> HIDE DEF t
<1>4. t = <<a, b, c, d>>
    BY <1>2, <1>3, SeqEqual
<1> QED
    BY <1>4 DEF t

LEMMA JoinNone ==
    ASSUME NEW a, NEW b
    PROVE  <<a, b>> \o <<>> = <<a, b>> /\ <<>> \o <<a, b>> = <<a, b>>
<1> DEFINE S == {a, b}
<1>1. a \in S /\ b \in S
    OBVIOUS
<1> HIDE DEF S
<1>2. <<a, b>> \in Seq(S)
    BY <1>1, Short
<1> QED
    BY <1>2, ConcatEmptySeq

LEMMA JoinedSteps ==
    /\ <<"own", "touch">> \o <<"publish">> \o <<"show">> = p1
    /\ <<"own", "touch">> \o <<>> \o <<"show">> = u1
    /\ <<"prune">> \o <<"show", "mark">> = <<"prune", "show", "mark">>
    /\ <<>> \o <<"show", "mark">> = <<"show", "mark">>
<1>1. <<"own", "touch">> \o <<"publish">> \o <<"show">> = p1
  <2>1. <<"own", "touch">> \o <<"publish">> = <<"own", "touch", "publish">>
      BY JoinThree, Zenon
  <2>2. <<"own", "touch", "publish">> \o <<"show">> = <<"own", "touch", "publish", "show">>
      BY JoinFour, Zenon
  <2> QED
      BY <2>1, <2>2, Zenon DEF p1
<1>2. <<"own", "touch">> \o <<>> \o <<"show">> = u1
  <2>1. <<"own", "touch">> \o <<>> = <<"own", "touch">>
      BY JoinNone, Zenon
  <2>2. <<"own", "touch">> \o <<"show">> = <<"own", "touch", "show">>
      BY JoinThree, Zenon
  <2> QED
      BY <2>1, <2>2, Zenon DEF u1
<1>3. <<"prune">> \o <<"show", "mark">> = <<"prune", "show", "mark">>
    BY JoinThree, Zenon
<1>4. <<>> \o <<"show", "mark">> = <<"show", "mark">>
    BY JoinNone, Zenon
<1> QED
    BY <1>1, <1>2, <1>3, <1>4

LEMMA ListTypes ==
    /\ r1 \in Seq(Steps) /\ r2 \in Seq(Steps) /\ r3 \in Seq(Steps)
    /\ p1 \in Seq(Steps) /\ p2 \in Seq(Steps) /\ p3 \in Seq(Steps)
    /\ u1 \in Seq(Steps) /\ u2 \in Seq(Steps)
<1>2. r1 \in Seq(Steps) /\ r2 \in Seq(Steps) /\ r3 \in Seq(Steps)
    BY Words, Short, Zenon DEF r1, r2, r3
<1>3. p1 \in Seq(Steps) /\ p2 \in Seq(Steps) /\ p3 \in Seq(Steps)
    BY Words, Short, Zenon DEF p1, p2, p3
<1>4. u1 \in Seq(Steps) /\ u2 \in Seq(Steps)
    BY Words, Short, Zenon DEF u1, u2
<1> QED
    BY <1>2, <1>3, <1>4

LEMMA TouchesDiffer == r2 # p2 /\ r2 # u2
<1>1. r2[2] = "ratchet" /\ p2[2] = "publish" /\ u2[2] = "show"
    BY DEF r2, p2, u2
<1> QED
    BY <1>1

\* None of them is plain, nor the same as another.
LEMMA NotPlain ==
    /\ ~Plain(r1) /\ ~Plain(r2) /\ ~Plain(r3) /\ ~Plain(p1) /\ ~Plain(p2) /\ ~Plain(p3)
    /\ ~Plain(u1) /\ ~Plain(u2)
<1>1. ~Plain(r1)
    <2>1. 1 \in 1..Len(r1) /\ r1[1] = "store"
        BY DEF r1
    <2> QED
        BY <2>1, Zenon DEF Plain, Filing
<1>2. ~Plain(r2)
    <2>1. 1 \in 1..Len(r2) /\ r2[1] = "touch"
        BY DEF r2
    <2> QED
        BY <2>1, Zenon DEF Plain, Filing
<1>3. ~Plain(r3)
    <2>1. 1 \in 1..Len(r3) /\ r3[1] = "ratchet"
        BY DEF r3
    <2> QED
        BY <2>1, Zenon DEF Plain, Filing
<1>4. ~Plain(p1)
    <2>1. 1 \in 1..Len(p1) /\ p1[1] = "own"
        BY DEF p1
    <2> QED
        BY <2>1, Zenon DEF Plain, Filing
<1>5. ~Plain(p2)
    <2>1. 1 \in 1..Len(p2) /\ p2[1] = "touch"
        BY DEF p2
    <2> QED
        BY <2>1, Zenon DEF Plain, Filing
<1>6. ~Plain(p3)
    <2>1. 1 \in 1..Len(p3) /\ p3[1] = "publish"
        BY DEF p3
    <2> QED
        BY <2>1, Zenon DEF Plain, Filing
<1>7. ~Plain(u1)
    <2>1. 1 \in 1..Len(u1) /\ u1[1] = "own"
        BY DEF u1
    <2> QED
        BY <2>1, Zenon DEF Plain, Filing
<1>8. ~Plain(u2)
    <2>1. 1 \in 1..Len(u2) /\ u2[1] = "touch"
        BY DEF u2
    <2> QED
        BY <2>1, Zenon DEF Plain, Filing
<1> QED
    BY <1>1, <1>2, <1>3, <1>4, <1>5, <1>6, <1>7, <1>8

LEMMA PlainHead ==
    ASSUME NEW S, NEW t \in Seq(S), Plain(t)
    PROVE  Len(t) \in Nat /\ Len(t) > 0 /\ Head(t) \notin Filing
    BY DEF Plain

LEMMA PlainTail ==
    ASSUME NEW S, NEW t \in Seq(S), Plain(t), Len(t) # 1
    PROVE  Tail(t) \in Seq(S) /\ Plain(Tail(t))
<1>1. Len(t) \in Nat /\ Len(t) > 1 /\ t # <<>>
    <2>1. Len(t) \in Nat /\ Len(t) > 0
        BY PlainHead
    <2>2. t # <<>>
        BY DEF Plain
    <2>3. \A n \in Nat : n > 0 /\ n # 1 => n > 1
        OBVIOUS
    <2> QED
        BY <2>1, <2>2, <2>3, Zenon
<1>2. /\ Tail(t) \in Seq(S) /\ Len(Tail(t)) = Len(t) - 1
      /\ \A k \in 1..Len(t) - 1 : Tail(t)[k] = t[k + 1]
    BY <1>1
<1>3. Tail(t) # <<>>
    BY <1>1, <1>2
<1> QED
    BY <1>1, <1>2, <1>3 DEF Plain

-----------------------------------------------------------------------------

(* Tasks.                                                                  *)

LEMMA BegunTask ==
    ASSUME NEW d \in Contacts \cup {None}, NEW id \in Int, NEW ts \in Int, NEW todo \in Seq(Steps),
           Begin(d, id, ts, todo)
    PROVE  /\ task = None /\ task' \in Task /\ task' # None
           /\ task'.did = d /\ task'.id = id /\ task'.todo = todo
<1>1. task = None /\ task' = [did |-> d, id |-> id, ts |-> ts, todo |-> todo]
    BY DEF Begin
<1>2. task' \in Task
    BY <1>1 DEF Task
<1>3. task' # None
    BY <1>2, ChatConstants
<1> QED
    BY <1>1, <1>2, <1>3

\* The task after one of its steps.
LEMMA NextTask ==
    ASSUME TypeInv, task # None, Len(task.todo) # 1 => Tail(task.todo) \in Seq(Steps), Onward
    PROVE  /\ task' \in Task \cup {None}
           /\ Len(task.todo) = 1 => task' = None
           /\ Len(task.todo) # 1 => /\ task' # None /\ task'.did = task.did /\ task'.id = task.id
                                    /\ task'.todo = Tail(task.todo)
<1>1. task \in Task
    BY DEF TypeInv
<1>2. CASE Len(task.todo) = 1
    BY <1>2 DEF Onward
<1>3. CASE Len(task.todo) # 1
    <2>1. task' = [task EXCEPT !.todo = Tail(@)]
        BY <1>3 DEF Onward
    <2>2. task = [did |-> task.did, id |-> task.id, ts |-> task.ts, todo |-> task.todo]
        BY <1>1 DEF Task
    <2>3. task' = [did |-> task.did, id |-> task.id, ts |-> task.ts, todo |-> Tail(task.todo)]
        BY <2>1, <2>2
    <2>4. task' \in Task
        BY <1>1, <1>3, <2>3 DEF Task
    <2>5. task' # None
        BY <2>4, ChatConstants
    <2> QED
        BY <1>3, <2>3, <2>4, <2>5
<1> QED
    BY <1>2, <1>3

LEMMA PlainNext ==
    ASSUME TypeInv, task # None, Plain(task.todo), Onward
    PROVE  task' \in Task \cup {None} /\ (task' # None => Plain(task'.todo))
<1>1. task.todo \in Seq(Steps)
    BY DEF TypeInv, Task
<1>2. Len(task.todo) # 1 => Tail(task.todo) \in Seq(Steps) /\ Plain(Tail(task.todo))
    BY <1>1, PlainTail
<1> QED
    BY <1>2, NextTask

\* What a task at a step has left.
LEMMA AtPlain ==
    ASSUME TaskInv, NEW s, s \notin Filing, At(s)
    PROVE  Plain(task.todo)
<1>1. Head(task.todo) \notin Filing /\ Standing(task, contacts, conv)
    BY DEF At, TaskInv
<1>2. task.todo \notin {r1, r2, r3, p1, p2, p3, u1, u2}
    BY <1>1, StepLists DEF Filing
<1> QED
    BY <1>1, <1>2 DEF Standing

LEMMA AtFiling ==
    ASSUME TypeInv, TaskInv, task # None, Head(task.todo) \in Filing
    PROVE  /\ ~Plain(task.todo) /\ task.did \in Contacts /\ task.id \in Int
           /\ At("store") => task.id > 0 /\ contacts[task.did] # None /\ task.todo = r1
           /\ At("ratchet") => task.id > 0 /\ task.todo = r3 /\ task.id \in Ids(conv[task.did])
           /\ At("own") => task.id < 0 /\ task.todo \in {p1, u1}
           /\ At("publish") => task.id < 0 /\ task.todo = p3 /\ task.id \in Ids(conv[task.did])
           /\ At("touch") => \/ /\ task.id > 0 /\ contacts[task.did] # None /\ task.todo = r2
                                /\ task.id \in Ids(conv[task.did])
                             \/ task.id < 0 /\ task.todo = u2
                             \/ task.id < 0 /\ task.todo = p2 /\ task.id \in Ids(conv[task.did])
<1>1. Standing(task, contacts, conv) /\ task.todo \in Seq(Steps) /\ task.id \in Int
    BY DEF TaskInv, TypeInv, Task
<1>2. ~Plain(task.todo)
    BY <1>1, PlainHead
<1>3. CASE /\ task.did \in Contacts /\ task.id > 0 /\ contacts[task.did] # None
           /\ task.todo = r1 \/ (task.todo \in {r2, r3} /\ task.id \in Ids(conv[task.did]))
    <2>1. CASE task.todo = r1
        BY <1>1, <1>2, <1>3, <2>1, StepLists DEF At
    <2>2. CASE task.todo = r2
        BY <1>1, <1>2, <1>3, <2>2, StepLists, TouchesDiffer DEF At
    <2>3. CASE task.todo = r3
        BY <1>1, <1>2, <1>3, <2>3, StepLists DEF At
    <2> QED
        BY <1>3, <2>1, <2>2, <2>3
<1>4. CASE /\ task.did \in Contacts /\ task.id < 0
           /\ \/ task.todo \in {p1, u1, u2}
              \/ task.todo \in {p2, p3} /\ task.id \in Ids(conv[task.did])
    BY <1>1, <1>2, <1>4, StepLists DEF At
<1> QED
    BY <1>1, <1>2, <1>3, <1>4 DEF Standing

\* Only a task at r2 has a line to count.
LEMMA NotDue ==
    ASSUME NEW t, t = None \/ Plain(t.todo) \/ t.todo \in {r1, r3, p1, p2, p3, u1, u2}, NEW d
    PROVE  Due(t, d) = 0
<1>1. r2 \notin {r1, r3, p1, p2, p3, u1, u2}
    <2>1. r2 \notin {r1, r3, p1, p3, u1}
        BY StepLists
    <2> QED
        BY <2>1, TouchesDiffer
<1> QED
    BY <1>1, NotPlain DEF Due

-----------------------------------------------------------------------------

(* Logs.                                                                   *)

LEMMA IdsAppend ==
    ASSUME NEW log \in Seq(Lines), NEW id \in Int, NEW ts \in Int
    PROVE  /\ Append(log, Line(id, ts)) \in Seq(Lines)
           /\ Ids(Append(log, Line(id, ts))) = Ids(log) \cup {id}
<1> DEFINE l == Line(id, ts)
           app2 == Append(log, l)
<1>1. l \in Lines /\ l.id = id
    BY DEF Line, Lines
<1> HIDE DEF l
<1>2. /\ app2 \in Seq(Lines) /\ Len(app2) = Len(log) + 1 /\ Len(log) \in Nat
      /\ app2[Len(log) + 1] = l /\ \A i \in 1..Len(log) : app2[i] = log[i]
    BY <1>1
<1>3. DOMAIN log = 1..Len(log) /\ DOMAIN app2 = 1..Len(app2)
    BY <1>2
<1> HIDE DEF app2
<1>4. Ids(app2) \subseteq Ids(log) \cup {id}
  <2> SUFFICES ASSUME NEW i \in 1..Len(app2)
               PROVE  app2[i].id \in Ids(log) \cup {id}
      BY <1>3 DEF Ids
  <2>1. i \in 1..Len(log) \/ i = Len(log) + 1
      BY <1>2
  <2> QED
      BY <1>1, <1>2, <1>3, <2>1 DEF Ids
<1>5. Ids(log) \subseteq Ids(app2)
  <2> SUFFICES ASSUME NEW i \in 1..Len(log)
               PROVE  log[i].id \in Ids(app2)
      BY <1>3 DEF Ids
  <2>1. i \in 1..Len(app2) /\ app2[i] = log[i]
      BY <1>2
  <2> QED
      BY <1>3, <2>1 DEF Ids
<1>6. id \in Ids(app2)
  <2>1. Len(log) + 1 \in 1..Len(app2)
      BY <1>2
  <2> QED
      BY <1>1, <1>2, <1>3, <2>1 DEF Ids
<1> QED
    BY <1>2, <1>4, <1>5, <1>6 DEF app2, l

LEMMA IdsTypes ==
    ASSUME NEW log \in Seq(Lines)
    PROVE  Ids(log) \in SUBSET Int
<1>1. \A i \in DOMAIN log : log[i] \in Lines
    OBVIOUS
<1> QED
    BY <1>1 DEF Ids, Lines

LEMMA KeptLog ==
    ASSUME TypeInv, NEW d \in Contacts
    PROVE  Kept(d) \in Seq(Lines)
    BY RetainedList DEF TypeInv, Kept

-----------------------------------------------------------------------------
(* Steps that file nothing: they may begin, go on with or end a plain task, *)
(* remove lines or records, or reset a badge.                              *)

LEMMA CalmStep ==
    ASSUME ChatInv, TypeInv', forgotten' = forgotten,
           task' # None => Plain(task'.todo),
           faults' > 0 \/ (faults' = faults /\ \A d \in Contacts : Due(task, d) = 0),
           \A d \in Contacts : /\ ratchet'[d] \cup sent'[d] \subseteq ratchet[d] \cup sent[d]
                               /\ Ids(conv[d]) \cup gone[d] \subseteq Ids(conv'[d]) \cup gone'[d],
           \A d \in Contacts :
               \/ contacts'[d] = contacts[d] /\ fresh'[d] = fresh[d]
               \/ fresh'[d] = 0 /\ (contacts'[d] = None \/ contacts'[d].unread = 0)
    PROVE  ChatInv'
<1>1. TaskInv'
    BY DEF TaskInv, Standing
<1>2. LinesKept'
    BY DEF ChatInv, LinesKept
<1>3. ASSUME NEW d \in Contacts
      PROVE  Counted(contacts'[d], fresh'[d], Due(task', d), faults')
  <2>1. Due(task', d) = 0
      BY NotDue
  <2>2. Due(task, d) \in {0, 1}
      BY DEF Due
  <2>3. /\ fresh[d] \in Nat /\ contacts[d] \in Contact \cup {None} /\ faults \in Nat
        /\ Counted(contacts[d], fresh[d], Due(task, d), faults)
      BY DEF ChatInv, TypeInv, UnreadInv
  <2>4. contacts[d] # None => contacts[d].unread \in Nat
      BY <2>3 DEF Contact
  <2>5. CASE contacts'[d] = contacts[d] /\ fresh'[d] = fresh[d]
    <3>1. contacts[d] = None => fresh[d] = 0
        BY <2>3 DEF Counted
    <3>2. contacts[d] # None => contacts[d].unread + Due(task, d) <= fresh[d]
                                /\ (faults = 0 => contacts[d].unread + Due(task, d) = fresh[d])
        BY <2>3 DEF Counted
    <3>3. contacts[d] # None => contacts[d].unread + 0 <= fresh[d]
                                /\ (faults' = 0 => contacts[d].unread + 0 = fresh[d])
        BY <2>2, <2>3, <2>4, <3>2
    <3> QED
        BY <2>1, <2>5, <3>1, <3>3 DEF Counted
  <2>6. CASE fresh'[d] = 0 /\ (contacts'[d] = None \/ contacts'[d].unread = 0)
      BY <2>1, <2>6 DEF Counted
  <2> QED
      BY <2>5, <2>6
<1>4. UnreadInv'
    BY <1>3 DEF UnreadInv
<1> QED
    BY <1>1, <1>2, <1>4 DEF ChatInv

\* The files and counts are as they were.
Unfiled == UNCHANGED <<contacts, conv, ratchet, sent, gone, forgotten, fresh>>

LEMMA CalmUnfiled ==
    ASSUME ChatInv, TypeInv', Unfiled, task' # None => Plain(task'.todo),
           faults' > 0 \/ (faults' = faults /\ \A d \in Contacts : Due(task, d) = 0)
    PROVE  ChatInv'
<1>1. \A d \in Contacts : /\ ratchet'[d] \cup sent'[d] \subseteq ratchet[d] \cup sent[d]
                          /\ Ids(conv[d]) \cup gone[d] \subseteq Ids(conv'[d]) \cup gone'[d]
                          /\ contacts'[d] = contacts[d] /\ fresh'[d] = fresh[d]
    BY DEF Unfiled
<1>2. forgotten' = forgotten
    BY DEF Unfiled
<1> QED
    BY <1>1, <1>2, CalmStep

\* A task that begins.
LEMMA BegunUnfiled ==
    ASSUME ChatInv, TypeInv', Unfiled, faults' = faults \/ faults' > 0, task = None,
           task' # None => Standing(task', contacts, conv) /\ task'.todo # r2
    PROVE  ChatInv'
<1>1. TaskInv'
    BY DEF TaskInv, Unfiled, Standing
<1>2. LinesKept'
    BY DEF ChatInv, LinesKept, Unfiled
<1>3. \A d : Due(task, d) = 0 /\ Due(task', d) = 0
    BY DEF Due
<1>4. ASSUME NEW d \in Contacts
      PROVE  Counted(contacts'[d], fresh'[d], Due(task', d), faults')
  <2>1. Counted(contacts[d], fresh[d], 0, faults) /\ contacts'[d] = contacts[d] /\ fresh'[d] = fresh[d]
      BY <1>3 DEF ChatInv, UnreadInv, Unfiled
  <2> QED
      BY <1>3, <2>1 DEF Counted
<1>5. UnreadInv'
    BY <1>4 DEF UnreadInv
<1> QED
    BY <1>1, <1>2, <1>5 DEF ChatInv

LEMMA SameTask ==
    ASSUME ChatInv, TypeInv', Unfiled, faults' = faults, task' = task
    PROVE  ChatInv'
    BY DEF ChatInv, TaskInv, LinesKept, UnreadInv, Unfiled

-----------------------------------------------------------------------------

(* What a step may do to the files, with their types.                      *)

LEMMA TypesUnfiled ==
    ASSUME TypeInv, Unfiled, task' \in Task \cup {None}, open' \in Contacts \cup {None},
           wires' \in Seq(Wire), now' \in Nat, composed' \in Nat, faults' \in Nat
    PROVE  TypeInv'
    BY DEF TypeInv, Unfiled

\* Begins of plain tasks, and the page.
LEMMA BeginsPlain ==
    ASSUME ChatInv, Unfiled, UNCHANGED <<wires, now, composed, faults>>,
           open' \in Contacts \cup {None},
           NEW d \in Contacts \cup {None}, NEW id \in Int, NEW todo \in Seq(Steps), Plain(todo),
           Begin(d, id, 0, todo)
    PROVE  ChatInv'
<1>1. 0 \in Int
    OBVIOUS
<1>2. task = None /\ task' \in Task /\ task'.todo = todo
    BY <1>1, BegunTask
<1>3. TypeInv'
    BY <1>2, TypesUnfiled DEF ChatInv, TypeInv
<1>4. \A e : Due(task, e) = 0
    BY <1>2 DEF Due
<1> QED
    BY <1>2, <1>3, <1>4, CalmUnfiled

LEMMA PlainLists ==
    /\ <<"show">> \in Seq(Steps) /\ Plain(<<"show">>)
    /\ <<"show", "mark">> \in Seq(Steps) /\ Plain(<<"show", "mark">>)
    /\ <<"prune", "show", "mark">> \in Seq(Steps) /\ Plain(<<"prune", "show", "mark">>)
    /\ <<"expiry", "prune", "show">> \in Seq(Steps) /\ Plain(<<"expiry", "prune", "show">>)
    /\ <<"unlist", "keys">> \in Seq(Steps) /\ Plain(<<"unlist", "keys">>)
    /\ <<"unlist", "log", "keys", "expiry">> \in Seq(Steps)
    /\ Plain(<<"unlist", "log", "keys", "expiry">>)
    /\ <<"wipe_logs", "wipe_contacts", "wipe_expiry">> \in Seq(Steps)
    /\ Plain(<<"wipe_logs", "wipe_contacts", "wipe_expiry">>)
<1> DEFINE S == Steps
           F == Filing
<1>1. /\ "show" \in S /\ "mark" \in S /\ "prune" \in S /\ "expiry" \in S /\ "unlist" \in S
      /\ "log" \in S /\ "keys" \in S /\ "wipe_logs" \in S /\ "wipe_contacts" \in S
      /\ "wipe_expiry" \in S
    BY Words
<1>2. /\ "show" \notin F /\ "mark" \notin F /\ "prune" \notin F /\ "expiry" \notin F
      /\ "unlist" \notin F /\ "log" \notin F /\ "keys" \notin F /\ "wipe_logs" \notin F
      /\ "wipe_contacts" \notin F /\ "wipe_expiry" \notin F
    BY DEF Filing
<1>3. ASSUME NEW a \in S, NEW b \in S, NEW c \in S, NEW d \in S,
             a \notin F, b \notin F, c \notin F, d \notin F
      PROVE  /\ <<a>> \in Seq(S) /\ Plain(<<a>>)
             /\ <<a, b>> \in Seq(S) /\ Plain(<<a, b>>)
             /\ <<a, b, c>> \in Seq(S) /\ Plain(<<a, b, c>>)
             /\ <<a, b, c, d>> \in Seq(S) /\ Plain(<<a, b, c, d>>)
  <2> HIDE DEF S
  <2>1. /\ <<a>> \in Seq(S) /\ <<a, b>> \in Seq(S) /\ <<a, b, c>> \in Seq(S)
        /\ <<a, b, c, d>> \in Seq(S)
      BY Short
  <2> HIDE DEF F
  <2>2. \A t : Plain(t) <=> t # <<>> /\ \A k \in 1..Len(t) : t[k] \notin F
      BY DEF Plain, F
  <2>3. Plain(<<a>>) /\ Plain(<<a, b>>)
      BY <1>3, <2>2
  <2>4. Plain(<<a, b, c>>)
      BY <1>3, <2>2
  <2>5. Plain(<<a, b, c, d>>)
    <3> DEFINE t == <<a, b, c, d>>
    <3>1. t # <<>> /\ Len(t) = 4 /\ t[1] = a /\ t[2] = b /\ t[3] = c /\ t[4] = d
        OBVIOUS
    <3>2. \A k \in 1..4 : k = 1 \/ k = 2 \/ k = 3 \/ k = 4
        OBVIOUS
    <3> HIDE DEF t
    <3>3. Plain(t)
        BY <1>3, <2>2, <3>1, <3>2
    <3> QED
        BY <3>3 DEF t
  <2> QED
      BY <2>1, <2>3, <2>4, <2>5
<1> HIDE DEF S, F
<1>4. /\ <<"show">> \in Seq(S) /\ Plain(<<"show">>)
      /\ <<"show", "mark">> \in Seq(S) /\ Plain(<<"show", "mark">>)
      /\ <<"prune", "show", "mark">> \in Seq(S) /\ Plain(<<"prune", "show", "mark">>)
    BY <1>1, <1>2, <1>3, Zenon
<1>5. /\ <<"expiry", "prune", "show">> \in Seq(S) /\ Plain(<<"expiry", "prune", "show">>)
      /\ <<"unlist", "keys">> \in Seq(S) /\ Plain(<<"unlist", "keys">>)
    BY <1>1, <1>2, <1>3, Zenon
<1>6. /\ <<"unlist", "log", "keys", "expiry">> \in Seq(S)
      /\ Plain(<<"unlist", "log", "keys", "expiry">>)
      /\ <<"wipe_logs", "wipe_contacts", "wipe_expiry">> \in Seq(S)
      /\ Plain(<<"wipe_logs", "wipe_contacts", "wipe_expiry">>)
    BY <1>1, <1>2, <1>3, Zenon
<1> QED
    BY <1>4, <1>5, <1>6 DEF S

-----------------------------------------------------------------------------

(* Operations that begin.                                                  *)

LEMMA ReceiveBegins ==
    ASSUME ChatInv, NEW i \in DOMAIN wires, receive_ratchet_message(i)
    PROVE  ChatInv'
<1> DEFINE d == wires[i].from
           ts == wires[i].ts
<1>1. d \in Contacts /\ ts \in Int /\ i \in Int /\ i > 0
  <2>1. wires \in Seq(Wire) /\ i \in 1..Len(wires) /\ Len(wires) \in Nat
      BY DEF ChatInv, TypeInv
  <2>2. wires[i] \in Wire
      BY <2>1
  <2> QED
      BY <2>1, <2>2 DEF Wire
<1>2. contacts[d] # None /\ Begin(d, i, ts, r1) /\ UNCHANGED <<files, sent, world, page, gone, forgotten, fresh>>
    BY DEF receive_ratchet_message, ReceiveSteps, r1
<1> HIDE DEF d, ts
<1>3. /\ task = None /\ task' \in Task /\ task'.did = d /\ task'.id = i /\ task'.todo = r1
    BY <1>1, <1>2, ListTypes, BegunTask
<1>4. Unfiled /\ UNCHANGED <<open, wires, now, composed, faults>>
    BY <1>2 DEF Unfiled, files, world, page
<1>5. TypeInv'
    BY <1>3, <1>4, TypesUnfiled DEF ChatInv, TypeInv
<1>6. Standing(task', contacts, conv)
    BY <1>1, <1>2, <1>3 DEF Standing
<1>7. r1 # r2
    BY StepLists
<1> QED
    BY <1>3, <1>4, <1>5, <1>6, <1>7, BegunUnfiled

LEMMA SendBegins ==
    ASSUME ChatInv, send_message
    PROVE  ChatInv'
<1> DEFINE id == -composed'
           List(c) == <<"own", "touch">> \o (IF c # None /\ c.kind = "v2" THEN <<"publish">> ELSE <<>>)
                                         \o <<"show">>
<1>1. /\ task = None /\ open # None /\ composed' = composed + 1
      /\ UNCHANGED <<app, files, sent, now, wires, page, gone, forgotten, fresh>>
    BY DEF send_message
<1>2. open \in Contacts /\ now \in Int /\ id \in Int /\ id < 0 /\ composed' \in Nat /\ faults \in Nat
    BY <1>1 DEF ChatInv, TypeInv
\* What the send finds of the contact: its record, or none.
<1>3. PICK c \in {contacts[open], None} :
          /\ \/ c = contacts[open] /\ UNCHANGED faults
             \/ c # contacts[open] /\ faults < MaxFaults /\ faults' = faults + 1
          /\ IF c # None /\ c.kind = "pending" THEN UNCHANGED task ELSE Begin(open, id, now, List(c))
    BY DEF send_message
<1>4. /\ faults' \in Nat /\ (faults' = faults \/ faults' > 0)
      /\ c # None => faults' = faults
    BY <1>2, <1>3
<1>5. List(c) \in {p1, u1}
    BY JoinedSteps, Zenon
<1>6. \/ task' = task /\ faults' = faults
      \/ Begin(open, id, now, p1) \/ Begin(open, id, now, u1)
  <2>1. CASE c # None /\ c.kind = "pending"
      BY <1>3, <1>4, <2>1
  <2>2. CASE ~(c # None /\ c.kind = "pending")
    <3>1. Begin(open, id, now, List(c))
        BY <1>3, <2>2
    <3> HIDE DEF List, id
    <3> QED
        BY <1>5, <3>1
  <2> QED
      BY <2>1, <2>2
<1> HIDE DEF id, List
<1>7. Unfiled /\ UNCHANGED <<open, wires, now>>
    BY <1>1 DEF Unfiled, files, page
<1>8. CASE task' = task /\ faults' = faults
  <2>1. TypeInv'
      BY <1>2, <1>7, <1>8, TypesUnfiled DEF ChatInv, TypeInv
  <2> QED
      BY <1>7, <1>8, <2>1, SameTask
<1>9. ASSUME NEW todo \in {p1, u1}, Begin(open, id, now, todo)
      PROVE  ChatInv'
  <2>1. todo \in Seq(Steps) /\ todo # r2
      BY ListTypes, StepLists
  <2>2. task' \in Task /\ task'.did = open /\ task'.id = id /\ task'.todo = todo
      BY <1>2, <1>9, <2>1, BegunTask
  <2>3. TypeInv'
      BY <1>2, <1>4, <1>7, <2>2, TypesUnfiled DEF ChatInv, TypeInv
  <2>4. Standing(task', contacts, conv)
      BY <1>2, <2>2 DEF Standing
  <2> QED
      BY <1>1, <1>4, <1>7, <2>1, <2>2, <2>3, <2>4, BegunUnfiled
<1> QED
    BY <1>6, <1>8, <1>9

\* What is begun from a page or a list.
LEMMA OthersBegin ==
    ASSUME ChatInv,
           \/ do_wipe_identity \/ \E secs \in {0, TTL} : on_expiry_change(secs)
           \/ \E d \in Contacts : Open(d) \/ revoke_invite(d) \/ delete_conversation(d)
    PROVE  ChatInv'
<1> 0 \in Int /\ TTL \in Int /\ open \in Contacts \cup {None}
    BY ChatConstants DEF ChatInv, TypeInv
<1>1. CASE do_wipe_identity
  <2>1. /\ Begin(None, 0, 0, <<"wipe_logs", "wipe_contacts", "wipe_expiry">>)
        /\ UNCHANGED <<files, sent, world, page, gone, forgotten, fresh>>
      BY <1>1 DEF do_wipe_identity
  <2>2. Unfiled /\ UNCHANGED <<open, wires, now, composed, faults>>
      BY <2>1 DEF Unfiled, files, world, page
  <2> QED
      BY <2>1, <2>2, PlainLists, BeginsPlain
<1>2. ASSUME NEW secs \in {0, TTL}, on_expiry_change(secs)
      PROVE  ChatInv'
  <2>1. /\ Begin(open, secs, 0, <<"expiry", "prune", "show">>)
        /\ UNCHANGED <<files, sent, world, page, gone, forgotten, fresh>>
      BY <1>2 DEF on_expiry_change
  <2>2. Unfiled /\ UNCHANGED <<open, wires, now, composed, faults>>
      BY <2>1 DEF Unfiled, files, world, page
  <2>3. secs \in Int
      OBVIOUS
  <2> QED
      BY <2>1, <2>2, <2>3, PlainLists, BeginsPlain
<1>3. ASSUME NEW d \in Contacts, revoke_invite(d) \/ delete_conversation(d)
      PROVE  ChatInv'
  <2>1. /\ \/ Begin(d, 0, 0, <<"unlist", "keys">>)
           \/ Begin(d, 0, 0, <<"unlist", "log", "keys", "expiry">>)
        /\ UNCHANGED <<files, sent, world, page, gone, forgotten, fresh>>
      BY <1>3 DEF revoke_invite, delete_conversation
  <2>2. Unfiled /\ UNCHANGED <<open, wires, now, composed, faults>>
      BY <2>1 DEF Unfiled, files, world, page
  <2> QED
      BY <2>1, <2>2, PlainLists, BeginsPlain
<1>4. ASSUME NEW d \in Contacts, Open(d)
      PROVE  ChatInv'
  <2>1. /\ open' = d
        /\ Begin(d, 0, 0, (IF app = "social" THEN <<"prune">> ELSE <<>>) \o <<"show", "mark">>)
        /\ UNCHANGED <<files, sent, world, gone, forgotten, fresh>>
      BY <1>4 DEF Open
  <2>2. Unfiled /\ UNCHANGED <<wires, now, composed, faults>>
      BY <2>1 DEF Unfiled, files, world
  <2>3. (IF app = "social" THEN <<"prune">> ELSE <<>>) \o <<"show", "mark">>
            \in {<<"prune", "show", "mark">>, <<"show", "mark">>}
    <3>1. <<"prune">> \o <<"show", "mark">> = <<"prune", "show", "mark">>
        BY JoinedSteps
    <3>2. <<>> \o <<"show", "mark">> = <<"show", "mark">>
        BY JoinedSteps
    <3> QED
        BY <3>1, <3>2
  <2>4. \/ Begin(d, 0, 0, <<"prune", "show", "mark">>)
        \/ Begin(d, 0, 0, <<"show", "mark">>)
      BY <2>1, <2>3
  <2> QED
      BY <2>1, <2>2, <2>4, PlainLists, BeginsPlain
<1> QED
    BY <1>1, <1>2, <1>3, <1>4

-----------------------------------------------------------------------------

(* The steps that file a line.                                             *)

LEMMA LogGrows ==
    ASSUME conv \in [Contacts -> Seq(Lines)], NEW d \in Contacts, NEW log, NEW id,
           conv' = [conv EXCEPT ![d] = log], Ids(log) = Ids(conv[d]) \cup {id}
    PROVE  conv'[d] = log /\ \A e \in Contacts : Ids(conv[e]) \subseteq Ids(conv'[e])
<1>1. conv'[d] = log /\ \A e \in Contacts : e # d => conv'[e] = conv[e]
    OBVIOUS
<1> QED
    BY <1>1

LEMMA StoreStep ==
    ASSUME ChatInv, store_incoming_message
    PROVE  ChatInv'
<1> DEFINE d == task.did
           id == task.id
           ts == task.ts
           log == Append(conv[d], Line(id, ts))
<1>1. /\ At("store") /\ UNCHANGED <<contacts, expiry, ratchet, sent, world, page, gone, forgotten>>
      /\ IF id \in Ids(conv[d])
         THEN task' = [task EXCEPT !.todo = Tail(Tail(@))] /\ UNCHANGED <<conv, fresh>>
         ELSE /\ conv' = [conv EXCEPT ![d] = log] /\ fresh' = [fresh EXCEPT ![d] = @ + 1]
              /\ Onward
    BY DEF store_incoming_message, Redelivered, Untouched
<1>2. task # None /\ task \in Task /\ Head(task.todo) = "store" /\ "store" \in Filing
    BY <1>1 DEF At, ChatInv, TypeInv, Filing
<1>3. d \in Contacts /\ id \in Int /\ id > 0 /\ contacts[d] # None /\ task.todo = r1
    BY <1>1, <1>2, AtFiling DEF ChatInv
<1>4. ts \in Int
    BY <1>2 DEF Task
<1>5. UNCHANGED <<contacts, ratchet, sent, gone, forgotten, open, wires, now, composed, faults>>
    BY <1>1 DEF world, page
<1>6. \A e : Due(task, e) = 0
    BY <1>3, NotDue
<1>7. CASE id \in Ids(conv[d])
  <2>1. task' = [task EXCEPT !.todo = r3] /\ UNCHANGED <<conv, fresh>>
      BY <1>1, <1>3, <1>7, StepLists
  <2>2. task = [did |-> d, id |-> id, ts |-> ts, todo |-> task.todo]
      BY <1>2 DEF Task
  <2>3. task' = [did |-> d, id |-> id, ts |-> ts, todo |-> r3]
      BY <2>1, <2>2
  <2> HIDE DEF d, id, ts
  <2>4. task' \in Task /\ task'.did = d /\ task'.id = id /\ task'.todo = r3
      BY <1>3, <1>4, <2>3, ListTypes DEF Task
  <2>5. Unfiled
      BY <1>5, <2>1 DEF Unfiled
  <2>6. TypeInv'
      BY <1>5, <2>4, <2>5, TypesUnfiled DEF ChatInv, TypeInv
  <2>7. TaskInv'
      BY <1>3, <1>5, <1>7, <2>1, <2>4 DEF TaskInv, Standing
  <2>8. LinesKept' 
      BY <2>5 DEF ChatInv, LinesKept, Unfiled
  <2>9. \A e : Due(task', e) = 0
      BY <2>4, NotDue
  <2>10. UnreadInv'
      BY <1>5, <1>6, <2>5, <2>9 DEF ChatInv, UnreadInv, Unfiled
  <2> QED
      BY <2>6, <2>7, <2>8, <2>10 DEF ChatInv
<1>8. CASE id \notin Ids(conv[d])
  <2>1. conv' = [conv EXCEPT ![d] = log] /\ fresh' = [fresh EXCEPT ![d] = @ + 1] /\ Onward
      BY <1>1, <1>8
  <2>2. task' \in Task /\ task' # None /\ task'.did = d /\ task'.id = id /\ task'.todo = r2
    <3>1. Len(task.todo) # 1 /\ Tail(task.todo) = r2 /\ r2 \in Seq(Steps)
        BY <1>3, StepLists, ListTypes
    <3> QED
        BY <1>2, <2>1, <3>1, NextTask DEF ChatInv
  <2> HIDE DEF d, id, ts
  <2>3. conv[d] \in Seq(Lines) /\ conv \in [Contacts -> Seq(Lines)] /\ fresh \in [Contacts -> Nat]
      BY <1>3 DEF ChatInv, TypeInv
  <2>4. log \in Seq(Lines) /\ Ids(log) = Ids(conv[d]) \cup {id}
      BY <1>3, <1>4, <2>3, IdsAppend
  <2> HIDE DEF log
  <2>5. conv' \in [Contacts -> Seq(Lines)] /\ fresh' \in [Contacts -> Nat]
    <3>1. conv' \in [Contacts -> Seq(Lines)]
        BY <2>1, <2>3, <2>4
    <3>2. fresh' \in [Contacts -> Nat]
        BY <1>3, <2>1, <2>3
    <3> QED
        BY <3>1, <3>2
  <2>6. TypeInv'
      BY <1>5, <2>2, <2>5 DEF ChatInv, TypeInv
  <2>7. conv'[d] = log /\ \A e \in Contacts : Ids(conv[e]) \subseteq Ids(conv'[e])
      BY <1>3, <2>1, <2>3, <2>4, LogGrows
  <2>8. TaskInv'
      BY <1>3, <1>5, <2>2, <2>4, <2>7 DEF TaskInv, Standing
  <2>9. LinesKept'
      BY <1>5, <2>7 DEF ChatInv, LinesKept
  <2>10. ASSUME NEW e \in Contacts
         PROVE  Counted(contacts[e], fresh'[e], Due(task', e), faults)
    <3>1. Counted(contacts[e], fresh[e], 0, faults) /\ fresh[e] \in Nat
        BY <1>6, <2>3 DEF ChatInv, UnreadInv
    <3>2. CASE e = d
      <4>1. Due(task', e) = 1 /\ fresh'[e] = fresh[e] + 1 /\ contacts[e] # None
          BY <1>3, <2>1, <2>2, <2>3, <3>2 DEF Due
      <4>2. contacts[e] \in Contact
          BY <4>1 DEF ChatInv, TypeInv
      <4>3. contacts[e].unread \in Nat
          BY <4>2 DEF Contact
      <4> QED
          BY <3>1, <4>1, <4>3 DEF Counted
    <3>3. CASE e # d
      <4>1. Due(task', e) = 0 /\ fresh'[e] = fresh[e]
          BY <2>1, <2>2, <2>3, <3>3 DEF Due
      <4> QED
          BY <3>1, <4>1
    <3> QED
        BY <3>2, <3>3
  <2>11. UnreadInv'
      BY <1>5, <2>10 DEF UnreadInv
  <2> QED
      BY <2>6, <2>8, <2>9, <2>11 DEF ChatInv
<1> QED
    BY <1>7, <1>8

LEMMA OwnStep ==
    ASSUME ChatInv, write_own
    PROVE  ChatInv'
<1> DEFINE d == task.did
           id == task.id
           ts == task.ts
           log == Append(conv[d], Line(id, ts))
<1>1. /\ At("own") /\ UNCHANGED <<contacts, expiry, ratchet, sent, world, page, gone, forgotten, fresh>>
      /\ conv' = [conv EXCEPT ![d] = log] /\ Onward
    BY DEF write_own
<1>2. task # None /\ task \in Task /\ Head(task.todo) = "own" /\ "own" \in Filing
    BY <1>1 DEF At, ChatInv, TypeInv, Filing
<1>3. d \in Contacts /\ id \in Int /\ id < 0 /\ task.todo \in {p1, u1}
    BY <1>1, <1>2, AtFiling DEF ChatInv
<1>4. ts \in Int
    BY <1>2 DEF Task
<1>5. UNCHANGED <<contacts, ratchet, sent, gone, forgotten, fresh, open, wires, now, composed, faults>>
    BY <1>1 DEF world, page
<1>6. task' \in Task /\ task'.did = d /\ task'.id = id /\ task'.todo \in {p2, u2}
  <2>1. CASE task.todo = p1
    <3>1. Len(task.todo) # 1 /\ Tail(task.todo) = p2 /\ p2 \in Seq(Steps)
        BY <2>1, StepLists, ListTypes
    <3> QED
        BY <1>1, <1>2, <3>1, NextTask DEF ChatInv
  <2>2. CASE task.todo = u1
    <3>1. Len(task.todo) # 1 /\ Tail(task.todo) = u2 /\ u2 \in Seq(Steps)
        BY <2>2, StepLists, ListTypes
    <3> QED
        BY <1>1, <1>2, <3>1, NextTask DEF ChatInv
  <2> QED
      BY <1>3, <2>1, <2>2
<1>7. \A e : Due(task, e) = 0 /\ Due(task', e) = 0
    BY <1>3, <1>6, NotDue
<1> HIDE DEF d, id, ts
<1>8. conv[d] \in Seq(Lines) /\ conv \in [Contacts -> Seq(Lines)]
    BY <1>3 DEF ChatInv, TypeInv
<1>9. log \in Seq(Lines) /\ Ids(log) = Ids(conv[d]) \cup {id}
    BY <1>3, <1>4, <1>8, IdsAppend
<1> HIDE DEF log
<1>10. TypeInv'
  <2>1. conv' \in [Contacts -> Seq(Lines)]
      BY <1>1, <1>8, <1>9
  <2> QED
      BY <1>5, <1>6, <2>1 DEF ChatInv, TypeInv
<1>11. conv'[d] = log /\ \A e \in Contacts : Ids(conv[e]) \subseteq Ids(conv'[e])
    BY <1>1, <1>3, <1>8, <1>9, LogGrows
<1>12. TaskInv'
    BY <1>3, <1>6, <1>9, <1>11 DEF TaskInv, Standing
<1>13. LinesKept'
    BY <1>5, <1>11 DEF ChatInv, LinesKept
<1>14. UnreadInv'
    BY <1>5, <1>7 DEF ChatInv, UnreadInv
<1> QED
    BY <1>10, <1>12, <1>13, <1>14 DEF ChatInv

LEMMA RatchetStep ==
    ASSUME ChatInv, write_ratchet
    PROVE  ChatInv'
<1> DEFINE d == task.did
           id == task.id
<1>1. /\ At("ratchet") /\ UNCHANGED <<contacts, conv, expiry, sent, world, page, gone, forgotten, fresh>>
      /\ ratchet' = [ratchet EXCEPT ![d] = @ \cup {id}] /\ Onward
    BY DEF write_ratchet
<1>2. task # None /\ task \in Task /\ Head(task.todo) = "ratchet" /\ "ratchet" \in Filing
    BY <1>1 DEF At, ChatInv, TypeInv, Filing
<1>3. d \in Contacts /\ id \in Int /\ id \in Ids(conv[d]) /\ task.todo = r3
    BY <1>1, <1>2, AtFiling DEF ChatInv
<1>4. UNCHANGED <<contacts, conv, sent, gone, forgotten, fresh, open, wires, now, composed, faults>>
    BY <1>1 DEF world, page
<1>5. task' = None
    BY <1>1, <1>3, StepLists DEF Onward
<1>6. \A e : Due(task, e) = 0 /\ Due(task', e) = 0
    BY <1>3, <1>5, NotDue
<1> HIDE DEF d, id
<1>7. TypeInv'
  <2>1. ratchet' \in [Contacts -> SUBSET Int]
      BY <1>1, <1>3 DEF ChatInv, TypeInv
  <2> QED
      BY <1>4, <1>5, <2>1 DEF ChatInv, TypeInv
<1>8. LinesKept'
  <2>1. ratchet \in [Contacts -> SUBSET Int]
      BY DEF ChatInv, TypeInv
  <2>2. \A e \in Contacts : ratchet'[e] \subseteq ratchet[e] \cup Ids(conv[e])
      BY <1>1, <1>3, <2>1
  <2> QED
      BY <1>4, <2>2 DEF ChatInv, LinesKept
<1>9. UnreadInv' /\ TaskInv'
    BY <1>4, <1>5, <1>6 DEF ChatInv, UnreadInv, TaskInv
<1> QED
    BY <1>7, <1>8, <1>9 DEF ChatInv

LEMMA PublishStep ==
    ASSUME ChatInv, send_body_to_contact
    PROVE  ChatInv'
<1> DEFINE d == task.did
           id == task.id
<1>1. /\ At("publish") /\ UNCHANGED <<files, world, page, gone, forgotten, fresh>>
      /\ sent' = [sent EXCEPT ![d] = @ \cup {id}] /\ Onward
    BY DEF send_body_to_contact
<1>2. task # None /\ task \in Task /\ Head(task.todo) = "publish" /\ "publish" \in Filing
    BY <1>1 DEF At, ChatInv, TypeInv, Filing
<1>3. d \in Contacts /\ id \in Int /\ id \in Ids(conv[d]) /\ task.todo = p3
    BY <1>1, <1>2, AtFiling DEF ChatInv
<1>4. UNCHANGED <<contacts, conv, ratchet, gone, forgotten, fresh, open, wires, now, composed, faults>>
    BY <1>1 DEF files, world, page
<1>5. task' \in Task \cup {None} /\ (task' # None => Plain(task'.todo))
  <2>1. Len(task.todo) # 1 /\ Tail(task.todo) = <<"show">>
      BY <1>3, StepLists
  <2> QED
      BY <1>1, <1>2, <2>1, PlainLists, NextTask DEF ChatInv
<1>6. \A e : Due(task, e) = 0 /\ Due(task', e) = 0
    BY <1>3, <1>5, NotDue
<1> HIDE DEF d, id
<1>7. TypeInv'
  <2>1. sent' \in [Contacts -> SUBSET Int]
      BY <1>1, <1>3 DEF ChatInv, TypeInv
  <2> QED
      BY <1>4, <1>5, <2>1 DEF ChatInv, TypeInv
<1>8. LinesKept'
  <2>1. sent \in [Contacts -> SUBSET Int]
      BY DEF ChatInv, TypeInv
  <2>2. \A e \in Contacts : sent'[e] \subseteq sent[e] \cup Ids(conv[e])
      BY <1>1, <1>3, <2>1
  <2> QED
      BY <1>4, <2>2 DEF ChatInv, LinesKept
<1>9. UnreadInv' /\ TaskInv'
    BY <1>4, <1>5, <1>6 DEF ChatInv, UnreadInv, TaskInv, Standing
<1> QED
    BY <1>7, <1>8, <1>9 DEF ChatInv


LEMMA TouchTypes ==
    ASSUME TypeInv, NEW d \in Contacts, NEW inc \in {0, 1}, contacts' = Touched(d, inc)
    PROVE  /\ contacts' \in [Contacts -> Contact \cup {None}]
           /\ \A e \in Contacts : e # d => contacts'[e] = contacts[e]
           /\ contacts'[d] # None /\ contacts'[d].unread \in Nat
           /\ contacts[d] = None => contacts'[d].unread = inc
           /\ contacts[d] # None => /\ contacts[d].unread \in Nat
                                    /\ contacts'[d].unread = contacts[d].unread + inc
<1> DEFINE old == contacts[d]
           new == IF old = None THEN [kind |-> "legacy", unread |-> inc]
                  ELSE [old EXCEPT !.unread = old.unread + inc]
<1>1. contacts \in [Contacts -> Contact \cup {None}] /\ old \in Contact \cup {None}
    BY DEF TypeInv
<1>2. contacts' = [contacts EXCEPT ![d] = new]
    BY DEF Touched
<1>3. /\ new \in Contact
      /\ old = None => new.unread = inc
      /\ old # None => old.unread \in Nat /\ new.unread = old.unread + inc
  <2> HIDE DEF old
  <2>1. CASE old = None
    <3>1. new = [kind |-> "legacy", unread |-> inc]
        BY <2>1
    <3> HIDE DEF new
    <3> QED
        BY <2>1, <3>1 DEF Contact
  <2>2. CASE old # None
    <3>1. old.unread \in Nat /\ old.kind \in {"pending", "v2", "legacy"}
          /\ old = [kind |-> old.kind, unread |-> old.unread]
        BY <1>1, <2>2 DEF Contact
    <3>2. new = [kind |-> old.kind, unread |-> old.unread + inc]
      <4>1. new = [old EXCEPT !.unread = old.unread + inc]
          BY <2>2
      <4> QED
          BY <3>1, <4>1
    <3>3. old.unread + inc \in Nat
        BY <3>1
    <3> HIDE DEF new
    <3> QED
        BY <2>2, <3>1, <3>2, <3>3 DEF Contact
  <2> QED
      BY <2>1, <2>2
<1>4. new # None
    BY <1>3, ChatConstants
<1>5. new.unread \in Nat
    BY <1>3 DEF Contact
<1> HIDE DEF new
<1>6. contacts'[d] = new /\ \A e \in Contacts : e # d => contacts'[e] = contacts[e]
    BY <1>1, <1>2
<1>7. contacts' \in [Contacts -> Contact \cup {None}]
    BY <1>1, <1>2, <1>3
<1> QED
    BY <1>3, <1>4, <1>5, <1>6, <1>7

LEMMA TouchStep ==
    ASSUME ChatInv, touch_contact_message
    PROVE  ChatInv'
<1> DEFINE d == task.did
           id == task.id
           inc == IF id > 0 THEN 1 ELSE 0
<1>1. /\ At("touch") /\ UNCHANGED <<conv, expiry, ratchet, sent, world, page, gone, forgotten, fresh>>
      /\ contacts' = Touched(d, inc) /\ Onward
    BY DEF touch_contact_message
<1>2. task # None /\ task \in Task /\ Head(task.todo) = "touch" /\ "touch" \in Filing
    BY <1>1 DEF At, ChatInv, TypeInv, Filing
<1>3. /\ d \in Contacts /\ id \in Int
      /\ \/ id > 0 /\ contacts[d] # None /\ task.todo = r2 /\ id \in Ids(conv[d])
         \/ id < 0 /\ task.todo = u2
         \/ id < 0 /\ task.todo = p2 /\ id \in Ids(conv[d])
    BY <1>1, <1>2, AtFiling DEF ChatInv
<1>4. UNCHANGED <<conv, ratchet, sent, gone, forgotten, fresh, open, wires, now, composed, faults>>
    BY <1>1 DEF world, page
<1>5. inc \in {0, 1} /\ inc \in Nat
    OBVIOUS
<1>6. /\ contacts' \in [Contacts -> Contact \cup {None}]
      /\ \A e \in Contacts : e # d => contacts'[e] = contacts[e]
      /\ contacts'[d] # None /\ contacts'[d].unread \in Nat
      /\ contacts[d] = None => contacts'[d].unread = inc
      /\ contacts[d] # None => /\ contacts[d].unread \in Nat
                               /\ contacts'[d].unread = contacts[d].unread + inc
  <2> HIDE DEF inc, d
  <2> QED
      BY <1>1, <1>3, <1>5, TouchTypes DEF ChatInv
<1>7. /\ task' \in Task /\ task' # None
      /\ \/ task.todo = r2 /\ task'.todo = r3 /\ task'.did = d /\ task'.id = id
         \/ task.todo = p2 /\ task'.todo = p3 /\ task'.did = d /\ task'.id = id
         \/ task.todo = u2 /\ Plain(task'.todo)
  <2>1. CASE task.todo = r2
    <3>1. Len(task.todo) # 1 /\ Tail(task.todo) = r3 /\ r3 \in Seq(Steps)
        BY <2>1, StepLists, ListTypes
    <3> QED
        BY <1>1, <1>2, <2>1, <3>1, NextTask DEF ChatInv
  <2>2. CASE task.todo = p2
    <3>1. Len(task.todo) # 1 /\ Tail(task.todo) = p3 /\ p3 \in Seq(Steps)
        BY <2>2, StepLists, ListTypes
    <3> QED
        BY <1>1, <1>2, <2>2, <3>1, NextTask DEF ChatInv
  <2>3. CASE task.todo = u2
    <3>1. Len(task.todo) # 1 /\ Tail(task.todo) = <<"show">>
        BY <2>3, StepLists
    <3> QED
        BY <1>1, <1>2, <2>3, <3>1, PlainLists, NextTask DEF ChatInv
  <2> QED
      BY <1>3, <2>1, <2>2, <2>3
<1>8. TypeInv'
    BY <1>4, <1>6, <1>7 DEF ChatInv, TypeInv
<1>9. LinesKept'
    BY <1>4 DEF ChatInv, LinesKept
<1>10. Standing(task', contacts', conv)
  <2>1. CASE task.todo = r2
      BY <1>3, <1>6, <1>7, <2>1, TouchesDiffer DEF Standing
  <2>2. CASE task.todo = p2
    <3>1. p3 # r2 /\ id < 0 /\ task'.todo = p3 /\ task'.did = d /\ task'.id = id /\ id \in Ids(conv[d])
        BY <1>3, <1>7, <2>2, TouchesDiffer, StepLists
    <3> QED
        BY <1>3, <3>1 DEF Standing
  <2>3. CASE task.todo = u2
      BY <1>7, <2>3, TouchesDiffer, StepLists DEF Standing
  <2> QED
      BY <1>7, <2>1, <2>2, <2>3
<1>11. TaskInv'
    BY <1>4, <1>7, <1>10 DEF TaskInv
<1>12. \A e : Due(task', e) = 0
    BY <1>7, NotDue
<1>13. \A e \in Contacts : e # d => Due(task, e) = 0
    BY DEF Due
<1>14. Due(task, d) = inc
  <2>1. CASE task.todo = r2
    <3>1. inc = 1
        BY <1>3, <2>1, TouchesDiffer
    <3> QED
        BY <1>2, <2>1, <3>1 DEF Due
  <2>2. CASE task.todo \in {p2, u2}
    <3>1. inc = 0 /\ task.todo # r2
        BY <1>3, <2>2, TouchesDiffer
    <3> QED
        BY <3>1 DEF Due
  <2> QED
      BY <1>3, <2>1, <2>2
<1>15. contacts[d] = None => inc = 0
    BY <1>3
<1> HIDE DEF d, id, inc
<1>16. ASSUME NEW e \in Contacts
       PROVE  Counted(contacts'[e], fresh[e], Due(task', e), faults)
  <2>1. Counted(contacts[e], fresh[e], Due(task, e), faults) /\ fresh[e] \in Nat
      BY DEF ChatInv, UnreadInv, TypeInv
  <2>2. CASE e # d
      BY <1>6, <1>12, <1>13, <2>1, <2>2
  <2>3. CASE e = d /\ contacts[d] = None
    <3>1. fresh[d] = 0 /\ contacts'[d] # None /\ contacts'[d].unread = 0 /\ Due(task', d) = 0
        BY <1>6, <1>12, <1>15, <2>1, <2>3 DEF Counted
    <3> QED
        BY <2>3, <3>1 DEF Counted
  <2>4. CASE e = d /\ contacts[d] # None
    <3>1. /\ contacts'[d] # None /\ contacts'[d].unread = contacts[d].unread + inc
          /\ contacts[d].unread \in Nat /\ Due(task', d) = 0 /\ Due(task, d) = inc
        BY <1>6, <1>12, <1>14, <2>4
    <3> QED
        BY <1>5, <2>1, <2>4, <3>1 DEF Counted
  <2> QED
      BY <2>2, <2>3, <2>4
<1>17. UnreadInv'
    BY <1>4, <1>16 DEF UnreadInv
<1> QED
    BY <1>8, <1>9, <1>11, <1>17 DEF ChatInv

-----------------------------------------------------------------------------
(* The steps that file nothing.                                            *)

\* What such a step may do to the files: use up no key, lose no line from the
\* log without noting it as removed, and touch a badge only to reset it.
Calm ==
    /\ contacts' \in [Contacts -> Contact \cup {None}] /\ conv' \in [Contacts -> Seq(Lines)]
    /\ ratchet' \in [Contacts -> SUBSET Int] /\ sent' \in [Contacts -> SUBSET Int]
    /\ gone' \in [Contacts -> SUBSET Int] /\ fresh' \in [Contacts -> Nat] /\ forgotten' = forgotten
    /\ \A d \in Contacts : /\ ratchet'[d] \cup sent'[d] \subseteq ratchet[d] \cup sent[d]
                           /\ Ids(conv[d]) \cup gone[d] \subseteq Ids(conv'[d]) \cup gone'[d]
    /\ \A d \in Contacts :
           \/ contacts'[d] = contacts[d] /\ fresh'[d] = fresh[d]
           \/ fresh'[d] = 0 /\ (contacts'[d] = None \/ contacts'[d].unread = 0)

LEMMA UnfiledCalm == TypeInv /\ Unfiled => Calm
    BY DEF TypeInv, Unfiled, Calm

LEMMA CalmAt ==
    ASSUME ChatInv, NEW s, s \notin Filing, At(s), Onward, Calm,
           UNCHANGED <<wires, now, composed, faults>>, open' \in Contacts \cup {None}
    PROVE  ChatInv'
<1>1. Plain(task.todo) /\ task # None
    BY AtPlain DEF ChatInv, At
<1>2. task' \in Task \cup {None} /\ (task' # None => Plain(task'.todo))
    BY <1>1, PlainNext DEF ChatInv
<1>3. TypeInv'
    BY <1>2 DEF ChatInv, TypeInv, Calm
<1>4. \A d \in Contacts : Due(task, d) = 0
    BY <1>1, NotDue
<1> QED
    BY <1>2, <1>3, <1>4, CalmStep DEF Calm

LEMMA MarkStep ==
    ASSUME ChatInv, mark_read
    PROVE  ChatInv'
<1> DEFINE d == task.did
           new == IF contacts[d] = None THEN contacts[d] ELSE [contacts[d] EXCEPT !.unread = 0]
<1>1. /\ At("mark") /\ Onward
      /\ contacts' = [contacts EXCEPT ![d] = new]
      /\ fresh' = [fresh EXCEPT ![d] = 0]
      /\ UNCHANGED <<conv, expiry, ratchet, sent, world, page, gone, forgotten>>
    BY DEF mark_read
<1>2. UNCHANGED <<conv, ratchet, sent, gone, forgotten, open, wires, now, composed, faults>>
    BY <1>1 DEF world, page
<1>3. TypeInv
    BY DEF ChatInv
<1>4. d \in Contacts => new \in Contact \cup {None} /\ (new = None \/ new.unread = 0)
  <2> SUFFICES ASSUME d \in Contacts, contacts[d] # None
               PROVE  new \in Contact /\ new.unread = 0
      OBVIOUS
  <2>1. /\ contacts[d].kind \in {"pending", "v2", "legacy"}
        /\ contacts[d] = [kind |-> contacts[d].kind, unread |-> contacts[d].unread]
      BY <1>3 DEF TypeInv, Contact
  <2>2. new = [kind |-> contacts[d].kind, unread |-> 0]
      BY <2>1
  <2> HIDE DEF new
  <2> QED
      BY <2>1, <2>2 DEF Contact
<1> HIDE DEF d, new
<1>5. contacts' \in [Contacts -> Contact \cup {None}]
    BY <1>1, <1>3, <1>4 DEF TypeInv
<1>6. fresh' \in [Contacts -> Nat]
    BY <1>1, <1>3 DEF TypeInv
<1>7. ASSUME NEW e \in Contacts
      PROVE  \/ contacts'[e] = contacts[e] /\ fresh'[e] = fresh[e]
             \/ fresh'[e] = 0 /\ (contacts'[e] = None \/ contacts'[e].unread = 0)
  <2>1. CASE e = d
      BY <1>1, <1>3, <1>4, <2>1 DEF TypeInv
  <2>2. CASE e # d
      BY <1>1, <1>3, <2>2 DEF TypeInv
  <2> QED
      BY <2>1, <2>2
<1>8. Calm
    BY <1>2, <1>3, <1>5, <1>6, <1>7 DEF Calm, TypeInv
<1>9. open' \in Contacts \cup {None} /\ "mark" \notin Filing
    BY <1>2, <1>3 DEF TypeInv, Filing
<1> QED
    BY <1>1, <1>2, <1>8, <1>9, CalmAt

LEMMA UnlistStep ==
    ASSUME ChatInv, write_contacts
    PROVE  ChatInv'
<1> DEFINE d == task.did
<1>1. /\ At("unlist") /\ Onward
      /\ contacts' = [contacts EXCEPT ![d] = None]
      /\ fresh' = [fresh EXCEPT ![d] = 0]
      /\ UNCHANGED <<conv, expiry, ratchet, sent, world, page, gone, forgotten>>
    BY DEF write_contacts
<1>2. UNCHANGED <<conv, ratchet, sent, gone, forgotten, open, wires, now, composed, faults>>
    BY <1>1 DEF world, page
<1>3. TypeInv
    BY DEF ChatInv
<1> HIDE DEF d
<1>4. contacts' \in [Contacts -> Contact \cup {None}]
    BY <1>1, <1>3 DEF TypeInv
<1>5. fresh' \in [Contacts -> Nat]
    BY <1>1, <1>3 DEF TypeInv
<1>6. ASSUME NEW e \in Contacts
      PROVE  \/ contacts'[e] = contacts[e] /\ fresh'[e] = fresh[e]
             \/ fresh'[e] = 0 /\ contacts'[e] = None
  <2>1. CASE e = d
      BY <1>1, <1>3, <2>1 DEF TypeInv
  <2>2. CASE e # d
      BY <1>1, <1>3, <2>2 DEF TypeInv
  <2> QED
      BY <2>1, <2>2
<1>7. Calm
    BY <1>2, <1>3, <1>4, <1>5, <1>6 DEF Calm, TypeInv
<1>8. open' \in Contacts \cup {None} /\ "unlist" \notin Filing
    BY <1>2, <1>3 DEF TypeInv, Filing
<1> QED
    BY <1>1, <1>2, <1>7, <1>8, CalmAt

\* A log is replaced by a list of lines, and what falls out is noted.
LEMMA LogCut ==
    ASSUME TypeInv, NEW d, NEW log, d \in Contacts => log \in Seq(Lines),
           conv' = [conv EXCEPT ![d] = log], Removed(d, log),
           UNCHANGED <<contacts, ratchet, sent, forgotten, fresh>>
    PROVE  Calm
<1>1. conv' \in [Contacts -> Seq(Lines)]
    BY DEF TypeInv
<1>2. \A e \in Contacts : Ids(conv[e]) \in SUBSET Int
    BY IdsTypes DEF TypeInv
<1>3. gone' = [gone EXCEPT ![d] = gone[d] \cup (Ids(conv[d]) \ Ids(log))]
    BY DEF Removed
<1>4. gone' \in [Contacts -> SUBSET Int]
    BY <1>2, <1>3 DEF TypeInv
<1>5. ASSUME NEW e \in Contacts
      PROVE  Ids(conv[e]) \cup gone[e] \subseteq Ids(conv'[e]) \cup gone'[e]
  <2>1. CASE e = d
    <3>1. conv'[e] = log /\ gone'[e] = gone[e] \cup (Ids(conv[e]) \ Ids(log))
        BY <1>3, <2>1 DEF TypeInv
    <3> QED
        BY <3>1
  <2>2. CASE e # d
    <3>1. conv'[e] = conv[e] /\ gone'[e] = gone[e]
        BY <1>3, <2>2 DEF TypeInv
    <3> QED
        BY <3>1
  <2> QED
      BY <2>1, <2>2
<1> QED
    BY <1>1, <1>4, <1>5 DEF Calm, TypeInv

LEMMA PruneStep ==
    ASSUME ChatInv, prune_expired \/ remove_log
    PROVE  ChatInv'
<1> DEFINE d == task.did
<1>1. TypeInv /\ open \in Contacts \cup {None} /\ "prune" \notin Filing /\ "log" \notin Filing
    BY DEF ChatInv, TypeInv, Filing
<1>2. CASE prune_expired
  <2> DEFINE log == IF expiry[d] = 0 THEN conv[d] ELSE Kept(d)
  <2>1. /\ At("prune") /\ Onward /\ conv' = [conv EXCEPT ![d] = log] /\ Removed(d, log)
        /\ UNCHANGED <<contacts, expiry, ratchet, sent, world, page, forgotten, fresh>>
      BY <1>2 DEF prune_expired
  <2>2. UNCHANGED <<contacts, ratchet, sent, forgotten, fresh, open, wires, now, composed, faults>>
      BY <2>1 DEF world, page
  <2> HIDE DEF d
  <2>3. d \in Contacts => log \in Seq(Lines)
      BY <1>1, KeptLog DEF TypeInv
  <2> HIDE DEF log
  <2>4. Calm
      BY <1>1, <2>1, <2>2, <2>3, LogCut
  <2> QED
      BY <1>1, <2>1, <2>2, <2>4, CalmAt
<1>3. CASE remove_log
  <2>1. /\ At("log") /\ Onward /\ conv' = [conv EXCEPT ![d] = <<>>] /\ Removed(d, <<>>)
        /\ UNCHANGED <<contacts, expiry, ratchet, sent, world, page, forgotten, fresh>>
      BY <1>3 DEF remove_log
  <2>2. UNCHANGED <<contacts, ratchet, sent, forgotten, fresh, open, wires, now, composed, faults>>
      BY <2>1 DEF world, page
  <2> HIDE DEF d
  <2>3. <<>> \in Seq(Lines)
      OBVIOUS
  <2>4. Calm
      BY <1>1, <2>1, <2>2, <2>3, LogCut
  <2> QED
      BY <1>1, <2>1, <2>2, <2>4, CalmAt
<1> QED
    BY <1>2, <1>3

LEMMA KeysStep ==
    ASSUME ChatInv, remove_ratchet
    PROVE  ChatInv'
<1>1. /\ At("keys") /\ Onward /\ ratchet' = [ratchet EXCEPT ![task.did] = {}]
      /\ UNCHANGED <<contacts, conv, expiry, sent, world, page, gone, forgotten, fresh>>
    BY DEF remove_ratchet
<1>2. UNCHANGED <<contacts, conv, sent, gone, forgotten, fresh, open, wires, now, composed, faults>>
    BY <1>1 DEF world, page
<1>3. TypeInv /\ open \in Contacts \cup {None} /\ "keys" \notin Filing
    BY DEF ChatInv, TypeInv, Filing
<1>4. ratchet' \in [Contacts -> SUBSET Int] /\ \A d \in Contacts : ratchet'[d] \subseteq ratchet[d]
    BY <1>1, <1>3 DEF TypeInv
<1>5. Calm
    BY <1>2, <1>3, <1>4 DEF Calm, TypeInv
<1> QED
    BY <1>1, <1>2, <1>3, <1>5, CalmAt

LEMMA UnfiledSteps ==
    ASSUME ChatInv, set_expiry_secs \/ read_conversation
    PROVE  ChatInv'
<1>1. /\ At("expiry") \/ At("show")
      /\ Onward /\ Unfiled /\ UNCHANGED <<open, wires, now, composed, faults>>
    BY DEF set_expiry_secs, read_conversation, Unfiled, files, world, page
<1>2. TypeInv /\ open \in Contacts \cup {None} /\ "expiry" \notin Filing /\ "show" \notin Filing
    BY DEF ChatInv, TypeInv, Filing
<1>3. Calm
    BY <1>1, <1>2, UnfiledCalm
<1> QED
    BY <1>1, <1>2, <1>3, CalmAt

LEMMA WipeStep ==
    ASSUME ChatInv, wipe_dm_storage
    PROVE  ChatInv'
<1> DEFINE listed == {d \in Contacts : contacts[d] # None}
<1>1. Onward /\ UNCHANGED <<sent, forgotten, wires, now, composed, faults>>
    BY DEF wipe_dm_storage, world
<1>2. TypeInv /\ open \in Contacts \cup {None}
    BY DEF ChatInv, TypeInv
<1>3. /\ "wipe_logs" \notin Filing /\ "wipe_contacts" \notin Filing /\ "wipe_expiry" \notin Filing
    BY DEF Filing
<1>4. CASE /\ At("wipe_logs")
           /\ conv' = [d \in Contacts |-> IF d \in listed THEN <<>> ELSE conv[d]]
           /\ ratchet' = [d \in Contacts |-> IF d \in listed THEN {} ELSE ratchet[d]]
           /\ gone' = [d \in Contacts |-> gone[d] \cup IF d \in listed THEN Ids(conv[d]) ELSE {}]
           /\ UNCHANGED <<contacts, expiry, fresh, page>>
  <2> HIDE DEF listed
  <2>1. \A d \in Contacts : Ids(conv[d]) \in SUBSET Int
      BY <1>2, IdsTypes DEF TypeInv
  <2>2. conv' \in [Contacts -> Seq(Lines)]
      BY <1>2, <1>4 DEF TypeInv
  <2>3. ratchet' \in [Contacts -> SUBSET Int] /\ \A d \in Contacts : ratchet'[d] \subseteq ratchet[d]
      BY <1>2, <1>4 DEF TypeInv
  <2>4. gone' \in [Contacts -> SUBSET Int]
      BY <1>2, <1>4, <2>1 DEF TypeInv
  <2>5. \A d \in Contacts : Ids(conv[d]) \cup gone[d] \subseteq Ids(conv'[d]) \cup gone'[d]
      BY <1>4
  <2>6. UNCHANGED <<contacts, fresh, open>>
      BY <1>4 DEF page
  <2>7. Calm
      BY <1>1, <1>2, <2>2, <2>3, <2>4, <2>5, <2>6 DEF Calm, TypeInv
  <2> QED
      BY <1>1, <1>2, <1>3, <1>4, <2>6, <2>7, CalmAt
<1>5. CASE /\ At("wipe_contacts")
           /\ contacts' = [d \in Contacts |-> None]
           /\ fresh' = [d \in Contacts |-> 0]
           /\ UNCHANGED <<conv, ratchet, gone, expiry, page>>
  <2>1. open' = open
      BY <1>5 DEF page
  <2>2. Calm
      BY <1>1, <1>2, <1>5 DEF Calm, TypeInv
  <2> QED
      BY <1>1, <1>2, <1>3, <1>5, <2>1, <2>2, CalmAt
<1>6. CASE /\ At("wipe_expiry") /\ open' = None
           /\ UNCHANGED <<conv, ratchet, gone, contacts, fresh>>
  <2>1. Calm
      BY <1>1, <1>2, <1>6, UnfiledCalm DEF Unfiled
  <2> QED
      BY <1>1, <1>2, <1>3, <1>6, <2>1, CalmAt
<1> QED
    BY <1>4, <1>5, <1>6 DEF wipe_dm_storage

-----------------------------------------------------------------------------
(* Faults, the page and the world.                                         *)

LEMMA FailStep ==
    ASSUME ChatInv, WriteFails
    PROVE  ChatInv'
<1>1. /\ task # None /\ faults' = faults + 1 /\ faults \in Nat /\ TypeInv /\ TaskInv
      /\ UNCHANGED <<app, files, sent, now, wires, composed, page, gone, forgotten, fresh>>
    BY DEF WriteFails, ChatInv, TypeInv
<1>2. Unfiled /\ UNCHANGED <<open, now, wires, composed>> /\ faults' \in Nat /\ faults' > 0
    BY <1>1 DEF Unfiled, files, page
<1>3. task' \in Task \cup {None} /\ (task' # None => Plain(task'.todo))
  <2>1. CASE Head(task.todo) \in {"store", "touch", "ratchet", "own", "unlist"}
      BY <2>1 DEF WriteFails, Done
  <2>2. CASE Head(task.todo) = "publish"
    <3>1. "publish" \in Filing /\ At("publish")
        BY <1>1, <2>2 DEF Filing, At
    <3>2. task.todo = p3
        BY <1>1, <2>2, <3>1, AtFiling
    <3>3. Len(task.todo) # 1 /\ Tail(task.todo) = <<"show">>
        BY <3>2, StepLists
    <3>4. Onward
        BY <2>2 DEF WriteFails
    <3> QED
        BY <1>1, <3>3, <3>4, PlainLists, NextTask
  <2>3. CASE Head(task.todo) \notin {"store", "touch", "ratchet", "own", "unlist", "publish"}
    <3>1. At(Head(task.todo)) /\ Head(task.todo) \notin Filing
        BY <1>1, <2>3 DEF At, Filing
    <3>2. Plain(task.todo)
        BY <1>1, <3>1, AtPlain
    <3>3. Onward
        BY <2>3 DEF WriteFails
    <3> QED
        BY <1>1, <3>2, <3>3, PlainNext
  <2> QED
      BY <2>1, <2>2, <2>3
<1>4. TypeInv'
    BY <1>1, <1>2, <1>3, TypesUnfiled DEF TypeInv
<1> QED
    BY <1>2, <1>3, <1>4, CalmUnfiled

\* A log of one line.
LEMMA IdsOne ==
    ASSUME NEW id \in Int, NEW ts \in Int
    PROVE  <<Line(id, ts)>> \in Seq(Lines) /\ Ids(<<Line(id, ts)>>) = {id}
<1>1. Line(id, ts) \in Lines /\ Line(id, ts).id = id
    BY DEF Line, Lines
<1> DEFINE l == Line(id, ts)
<1> HIDE DEF l
<1>2. <<l>> \in Seq(Lines) /\ DOMAIN <<l>> = {1} /\ <<l>>[1] = l
    BY <1>1 DEF l
<1> QED
    BY <1>1, <1>2 DEF Ids, l

\* The read of a log fails before a line is stored in it: the line is all that
\* is left, and the others are forgotten.
LEMMA LogForgotten ==
    ASSUME TypeInv, LinesKept, task \in Task, task.did \in Contacts,
           conv' = [conv EXCEPT ![task.did] = <<Line(task.id, task.ts)>>],
           forgotten' = [forgotten EXCEPT ![task.did] = @ \cup (Ids(conv[task.did]) \ {task.id})],
           UNCHANGED <<ratchet, sent, gone>>
    PROVE  /\ conv' \in [Contacts -> Seq(Lines)] /\ forgotten' \in [Contacts -> SUBSET Int]
           /\ task.id \in Ids(conv'[task.did]) /\ LinesKept'
<1> DEFINE d == task.did
           log == <<Line(task.id, task.ts)>>
           old == Ids(conv[d]) \ {task.id}
<1>1. task.id \in Int /\ task.ts \in Int
    BY DEF Task
<1>2. log \in Seq(Lines) /\ Ids(log) = {task.id}
    BY <1>1, IdsOne
<1>3. Ids(conv[d]) \in SUBSET Int
    BY IdsTypes DEF TypeInv
<1> HIDE DEF log
<1>4. /\ conv' = [conv EXCEPT ![d] = log] /\ conv' \in [Contacts -> Seq(Lines)] /\ conv'[d] = log
      /\ \A e \in Contacts : e # d => conv'[e] = conv[e]
    BY <1>2 DEF TypeInv, log
<1>5. /\ forgotten' \in [Contacts -> SUBSET Int] /\ forgotten'[d] = forgotten[d] \cup old
      /\ \A e \in Contacts : e # d => forgotten'[e] = forgotten[e]
    BY <1>3 DEF TypeInv
<1>6. ASSUME NEW e \in Contacts
      PROVE  ratchet'[e] \cup sent'[e] \subseteq Ids(conv'[e]) \cup gone'[e] \cup forgotten'[e]
  <2>1. Ids(conv[e]) \cup gone[e] \cup forgotten[e] \subseteq Ids(conv'[e]) \cup gone'[e] \cup forgotten'[e]
      BY <1>2, <1>4, <1>5
  <2> QED
      BY <2>1 DEF LinesKept
<1> QED
    BY <1>2, <1>4, <1>5, <1>6 DEF LinesKept

LEMMA ReadFailStep ==
    ASSUME ChatInv, ReadFails
    PROVE  ChatInv'
<1> DEFINE d == task.did
           id == task.id
<1>1. /\ task # None /\ faults' = faults + 1 /\ TypeInv /\ TaskInv /\ LinesKept /\ Onward
      /\ UNCHANGED <<ratchet, sent, gone, now, wires, composed, open>>
    BY DEF ReadFails, ChatInv, page
<1>2. task \in Task /\ id \in Int /\ faults' \in Nat /\ faults' > 0
    BY <1>1 DEF TypeInv, Task
<1>3. CASE /\ At("store")
           /\ conv' = [conv EXCEPT ![d] = <<Line(id, task.ts)>>]
           /\ forgotten' = [forgotten EXCEPT ![d] = @ \cup (Ids(conv[d]) \ {id})]
           /\ fresh' = [fresh EXCEPT ![d] = @ + 1] /\ contacts' = contacts
  <2>1. d \in Contacts /\ id > 0 /\ contacts[d] # None /\ task.todo = r1
      BY <1>1, <1>3, AtFiling DEF At, Filing
  <2>2. task' \in Task /\ task' # None /\ task'.did = d /\ task'.id = id /\ task'.todo = r2
    <3>1. Len(task.todo) # 1 /\ Tail(task.todo) = r2 /\ r2 \in Seq(Steps)
        BY <2>1, StepLists, ListTypes
    <3> QED
        BY <1>1, <1>2, <3>1, NextTask
  <2>3. /\ conv' \in [Contacts -> Seq(Lines)] /\ forgotten' \in [Contacts -> SUBSET Int]
        /\ id \in Ids(conv'[d]) /\ LinesKept'
      BY <1>1, <1>2, <1>3, <2>1, LogForgotten
  <2> HIDE DEF d, id
  <2>4. /\ fresh \in [Contacts -> Nat] /\ fresh' \in [Contacts -> Nat] /\ fresh'[d] = fresh[d] + 1
        /\ \A e \in Contacts : e # d => fresh'[e] = fresh[e]
      BY <1>1, <1>3, <2>1 DEF TypeInv
  <2>5. TypeInv'
      BY <1>1, <1>2, <1>3, <2>2, <2>3, <2>4 DEF TypeInv
  <2>6. TaskInv'
      BY <1>3, <2>1, <2>2, <2>3 DEF TaskInv, Standing
  <2>7. ASSUME NEW e \in Contacts
        PROVE  Counted(contacts'[e], fresh'[e], Due(task', e), faults')
    <3>1. Due(task, e) = 0
        BY <2>1, NotDue
    <3>2. Counted(contacts[e], fresh[e], 0, faults) /\ fresh[e] \in Nat
        BY <2>4, <3>1 DEF ChatInv, UnreadInv
    <3>3. contacts[e] # None => contacts[e].unread \in Nat
        BY <1>1 DEF TypeInv, Contact
    <3>4. CASE e = d
      <4>1. Due(task', e) = 1
          BY <2>2, <3>4 DEF Due
      <4> QED
          BY <1>2, <1>3, <2>1, <2>4, <3>2, <3>3, <3>4, <4>1 DEF Counted
    <3>5. CASE e # d
      <4>1. Due(task', e) = 0
          BY <2>2, <3>5 DEF Due
      <4> QED
          BY <1>2, <1>3, <2>4, <3>2, <3>5, <4>1 DEF Counted
    <3> QED
        BY <3>4, <3>5
  <2> QED
      BY <2>3, <2>5, <2>6, <2>7 DEF ChatInv, UnreadInv
<1>4. CASE /\ At("own")
           /\ conv' = [conv EXCEPT ![d] = <<Line(id, task.ts)>>]
           /\ forgotten' = [forgotten EXCEPT ![d] = @ \cup (Ids(conv[d]) \ {id})]
           /\ fresh' = fresh /\ contacts' = contacts
  <2>1. d \in Contacts /\ id < 0 /\ task.todo \in {p1, u1}
      BY <1>1, <1>4, AtFiling DEF At, Filing
  <2>2. task' \in Task /\ task'.did = d /\ task'.id = id /\ task'.todo \in {p2, u2}
    <3>1. CASE task.todo = p1
      <4>1. Len(task.todo) # 1 /\ Tail(task.todo) = p2 /\ p2 \in Seq(Steps)
          BY <3>1, StepLists, ListTypes
      <4> QED
          BY <1>1, <1>2, <4>1, NextTask
    <3>2. CASE task.todo = u1
      <4>1. Len(task.todo) # 1 /\ Tail(task.todo) = u2 /\ u2 \in Seq(Steps)
          BY <3>2, StepLists, ListTypes
      <4> QED
          BY <1>1, <1>2, <4>1, NextTask
    <3> QED
        BY <2>1, <3>1, <3>2
  <2>3. /\ conv' \in [Contacts -> Seq(Lines)] /\ forgotten' \in [Contacts -> SUBSET Int]
        /\ id \in Ids(conv'[d]) /\ LinesKept'
      BY <1>1, <1>2, <1>4, <2>1, LogForgotten
  <2>4. \A e : Due(task, e) = 0 /\ Due(task', e) = 0
      BY <2>1, <2>2, NotDue
  <2> HIDE DEF d, id
  <2>5. TypeInv'
      BY <1>1, <1>2, <1>4, <2>2, <2>3 DEF TypeInv
  <2>6. TaskInv'
      BY <2>1, <2>2, <2>3 DEF TaskInv, Standing
  <2>7. UnreadInv'
      BY <1>2, <1>4, <2>4 DEF ChatInv, UnreadInv, Counted
  <2> QED
      BY <2>3, <2>5, <2>6, <2>7 DEF ChatInv
<1>5. CASE /\ At("touch")
           /\ contacts' = [e \in Contacts |->
                             IF e = d THEN [kind |-> "legacy", unread |-> IF id > 0 THEN 1 ELSE 0] ELSE None]
           /\ fresh' = [e \in Contacts |-> IF e = d THEN fresh[e] ELSE 0]
           /\ conv' = conv /\ forgotten' = forgotten
  <2> DEFINE inc == IF id > 0 THEN 1 ELSE 0
             new == [kind |-> "legacy", unread |-> inc]
  <2>1. /\ d \in Contacts
        /\ \/ id > 0 /\ contacts[d] # None /\ task.todo = r2 /\ id \in Ids(conv[d])
           \/ id < 0 /\ task.todo = u2
           \/ id < 0 /\ task.todo = p2 /\ id \in Ids(conv[d])
      BY <1>1, <1>5, AtFiling DEF At, Filing
  <2>2. new \in Contact /\ new.unread = inc /\ inc \in {0, 1}
      BY DEF Contact
  <2>3. new # None
      BY <2>2, ChatConstants
  <2>4. /\ \/ task.todo = r2 /\ task' \in Task /\ task'.todo = r3 /\ task'.did = d /\ task'.id = id
           \/ task.todo = p2 /\ task' \in Task /\ task'.todo = p3 /\ task'.did = d /\ task'.id = id
           \/ task.todo = u2 /\ task' \in Task /\ Plain(task'.todo)
    <3>1. CASE task.todo = r2
      <4>1. Len(task.todo) # 1 /\ Tail(task.todo) = r3 /\ r3 \in Seq(Steps)
          BY <3>1, StepLists, ListTypes
      <4> QED
          BY <1>1, <1>2, <3>1, <4>1, NextTask
    <3>2. CASE task.todo = p2
      <4>1. Len(task.todo) # 1 /\ Tail(task.todo) = p3 /\ p3 \in Seq(Steps)
          BY <3>2, StepLists, ListTypes
      <4> QED
          BY <1>1, <1>2, <3>2, <4>1, NextTask
    <3>3. CASE task.todo = u2
      <4>1. Len(task.todo) # 1 /\ Tail(task.todo) = <<"show">>
          BY <3>3, StepLists
      <4> QED
          BY <1>1, <1>2, <3>3, <4>1, PlainLists, NextTask
    <3> QED
        BY <2>1, <3>1, <3>2, <3>3
  <2>5. id > 0 => task.todo = r2 /\ inc = 1
      BY <1>2, <2>1
  <2>6. id < 0 => inc = 0
      BY <1>2
  <2>7. contacts' = [e \in Contacts |-> IF e = d THEN new ELSE None]
      BY <1>5
  <2> HIDE DEF d, id, new, inc
  <2>8. contacts'[d] = new /\ fresh'[d] = fresh[d]
        /\ \A e \in Contacts : e # d => contacts'[e] = None /\ fresh'[e] = 0
      BY <1>5, <2>1, <2>7
  <2>9. /\ contacts' \in [Contacts -> Contact \cup {None}] /\ fresh' \in [Contacts -> Nat]
        /\ fresh[d] \in Nat
    <3>1. contacts' \in [Contacts -> Contact \cup {None}]
        BY <2>2, <2>7
    <3>2. fresh \in [Contacts -> Nat]
        BY <1>1 DEF TypeInv
    <3> QED
        BY <1>5, <2>1, <3>1, <3>2
  <2>10. TypeInv'
      BY <1>1, <1>2, <1>5, <2>4, <2>9 DEF TypeInv
  <2>11. LinesKept'
      BY <1>1, <1>5 DEF LinesKept
  <2>12. Standing(task', contacts', conv')
    <3>1. CASE task.todo = r2
        BY <1>5, <2>1, <2>3, <2>4, <2>8, <3>1, TouchesDiffer DEF Standing
    <3>2. CASE task.todo = p2
      <4>1. id < 0 /\ task'.todo = p3 /\ task'.did = d /\ task'.id = id /\ id \in Ids(conv'[d])
          BY <1>5, <2>1, <2>4, <3>2, TouchesDiffer, StepLists
      <4> QED
          BY <2>1, <4>1 DEF Standing
    <3>3. CASE task.todo = u2
        BY <2>4, <3>3, TouchesDiffer, StepLists DEF Standing
    <3> QED
        BY <2>4, <3>1, <3>2, <3>3
  <2>13. \A e : Due(task', e) = 0
      BY <2>4, NotDue
  <2>14. inc <= fresh[d]
    <3>1. CASE id > 0
      <4>1. Due(task, d) = 1 /\ contacts[d] # None /\ contacts[d].unread \in Nat
        <5>1. contacts[d] # None
            BY <1>2, <2>1, <3>1
        <5>2. contacts[d].unread \in Nat
            BY <1>1, <2>1, <5>1 DEF TypeInv, Contact
        <5>3. Due(task, d) = 1
            BY <1>1, <2>5, <3>1 DEF Due, d
        <5> QED
            BY <5>1, <5>2, <5>3
      <4>2. Counted(contacts[d], fresh[d], Due(task, d), faults)
          BY <2>1 DEF ChatInv, UnreadInv
      <4> QED
          BY <2>5, <2>9, <3>1, <4>1, <4>2 DEF Counted
    <3>2. CASE ~(id > 0)
        BY <2>1, <2>6, <2>9, <3>2
    <3> QED
        BY <3>1, <3>2
  <2>15. ASSUME NEW e \in Contacts
         PROVE  Counted(contacts'[e], fresh'[e], Due(task', e), faults')
    <3>1. CASE e = d
        BY <1>2, <2>2, <2>3, <2>8, <2>9, <2>13, <2>14, <3>1 DEF Counted
    <3>2. CASE e # d
        BY <1>2, <2>8, <2>13, <3>2 DEF Counted
    <3> QED
        BY <3>1, <3>2
  <2> QED
      BY <2>10, <2>11, <2>12, <2>15 DEF ChatInv, TaskInv, UnreadInv
<1>6. CASE At("expiry") /\ UNCHANGED <<contacts, conv, forgotten, fresh>>
  <2>1. Unfiled
      BY <1>1, <1>6 DEF Unfiled
  <2>2. Plain(task.todo)
      BY <1>1, <1>6, AtPlain DEF Filing
  <2>3. task' \in Task \cup {None} /\ (task' # None => Plain(task'.todo))
      BY <1>1, <2>2, PlainNext
  <2>4. TypeInv'
      BY <1>1, <1>2, <2>1, <2>3, TypesUnfiled DEF TypeInv
  <2> QED
      BY <1>2, <2>1, <2>3, <2>4, CalmUnfiled
<1> QED
  <2>1. /\ ~(At("store") /\ At("own"))
        /\ ~(At("store") /\ At("touch")) /\ ~(At("store") /\ At("expiry"))
        /\ ~(At("own") /\ At("touch")) /\ ~(At("own") /\ At("expiry"))
        /\ ~(At("touch") /\ At("expiry"))
      BY DEF At
  <2>2. fresh' = [fresh EXCEPT ![d] = fresh[d]] => fresh' = fresh
      BY <1>1 DEF TypeInv
  <2>3. At("store") \/ At("own") \/ At("touch") \/ At("expiry")
      BY DEF ReadFails
  <2>4. CASE At("store")
    <3>1. /\ conv' = [conv EXCEPT ![d] = <<Line(id, task.ts)>>]
          /\ forgotten' = [forgotten EXCEPT ![d] = @ \cup (Ids(conv[d]) \ {id})]
          /\ fresh' = [fresh EXCEPT ![d] = @ + 1] /\ contacts' = contacts
        BY <2>1, <2>4 DEF ReadFails
    <3> QED
        BY <1>3, <2>4, <3>1
  <2>5. CASE At("own")
    <3>1. /\ conv' = [conv EXCEPT ![d] = <<Line(id, task.ts)>>]
          /\ forgotten' = [forgotten EXCEPT ![d] = @ \cup (Ids(conv[d]) \ {id})]
          /\ fresh' = [fresh EXCEPT ![d] = fresh[d]] /\ contacts' = contacts
        BY <2>1, <2>5 DEF ReadFails
    <3> QED
        BY <1>4, <2>2, <2>5, <3>1
  <2>6. CASE At("touch")
    <3>1. /\ contacts' = [e \in Contacts |->
                             IF e = d THEN [kind |-> "legacy", unread |-> IF id > 0 THEN 1 ELSE 0] ELSE None]
          /\ fresh' = [e \in Contacts |-> IF e = d THEN fresh[e] ELSE 0]
          /\ conv' = conv /\ forgotten' = forgotten
        BY <2>1, <2>6 DEF ReadFails
    <3> QED
        BY <1>5, <2>6, <3>1
  <2>7. CASE At("expiry")
    <3>1. UNCHANGED <<contacts, conv, forgotten, fresh>>
        BY <2>1, <2>7 DEF ReadFails
    <3> QED
        BY <1>6, <2>7, <3>1
  <2> QED
      BY <2>3, <2>4, <2>5, <2>6, <2>7

LEMMA CrashStep ==
    ASSUME ChatInv, Crash
    PROVE  ChatInv'
<1>1. /\ faults' = faults + 1 /\ faults \in Nat /\ TypeInv /\ task' = None /\ open' = None
      /\ UNCHANGED <<app, files, sent, now, wires, composed, gone, forgotten, fresh>>
    BY DEF Crash, ChatInv, TypeInv
<1>2. Unfiled /\ faults' \in Nat /\ faults' > 0
    BY <1>1 DEF Unfiled, files
<1>3. TypeInv'
    BY <1>1, <1>2, TypesUnfiled DEF TypeInv
<1> QED
    BY <1>1, <1>2, <1>3, CalmUnfiled

LEMMA WorldStep ==
    ASSUME ChatInv,
           \/ Close \/ Poll \/ Tick \/ \E d \in Contacts : Loaded(d) \/ PeerSends(d)
           \/ UNCHANGED vars
    PROVE  ChatInv'
<1>1. Unfiled /\ UNCHANGED <<task, composed, faults>>
    BY DEF Close, Poll, Tick, Loaded, PeerSends, vars, Unfiled, files, world
<1>2. open' \in Contacts \cup {None}
    BY DEF Close, Poll, Tick, Loaded, PeerSends, vars, page, ChatInv, TypeInv
<1>3. now' \in Nat
  <2>1. now \in Nat /\ TTL \in Nat
      BY ChatConstants DEF ChatInv, TypeInv
  <2>2. CASE Tick
      BY <2>1, <2>2 DEF Tick
  <2>3. CASE \/ Close \/ Poll \/ UNCHANGED vars \/ \E d \in Contacts : Loaded(d) \/ PeerSends(d)
      BY <2>1, <2>3 DEF Close, Poll, Loaded, PeerSends, vars, world
  <2> QED
      BY <2>2, <2>3
<1>4. wires' \in Seq(Wire)
  <2>1. wires \in Seq(Wire) /\ now \in Int
      BY DEF ChatInv, TypeInv
  <2>2. ASSUME NEW d \in Contacts, PeerSends(d)
        PROVE  wires' \in Seq(Wire)
    <3>1. [from |-> d, ts |-> now] \in Wire /\ wires' = Append(wires, [from |-> d, ts |-> now])
        BY <2>1, <2>2 DEF PeerSends, Wire
    <3> QED
        BY <2>1, <3>1
  <2>3. CASE \/ Close \/ Poll \/ Tick \/ UNCHANGED vars \/ \E d \in Contacts : Loaded(d)
      BY <2>1, <2>3 DEF Close, Poll, Tick, Loaded, vars, world
  <2> QED
      BY <2>2, <2>3
<1>5. TypeInv'
    BY <1>1, <1>2, <1>3, <1>4, TypesUnfiled DEF ChatInv, TypeInv
<1> QED
    BY <1>1, <1>5, SameTask

-----------------------------------------------------------------------------

LEMMA InitInv ==
    ASSUME Init
    PROVE  ChatInv
<1> DEFINE first(d) == [kind |-> IF d \in Pending THEN "pending" ELSE "v2", unread |-> 0]
<1>1. \A d \in Contacts : first(d) \in Contact /\ first(d).unread = 0 /\ first(d) # None
  <2> SUFFICES ASSUME NEW d \in Contacts
               PROVE  first(d) \in Contact /\ first(d).unread = 0 /\ first(d) # None
      OBVIOUS
  <2>1. first(d) \in Contact /\ first(d).unread = 0
      BY DEF Contact
  <2> HIDE DEF first
  <2> QED
      BY <2>1, ChatConstants
<1>2. contacts = [d \in Contacts |-> first(d)]
    BY DEF Init
<1> HIDE DEF first
<1>3. contacts \in [Contacts -> Contact \cup {None}]
    BY <1>1, <1>2
<1>4. TypeInv
  <2>1. /\ conv \in [Contacts -> Seq(Lines)]
        /\ ratchet \in [Contacts -> SUBSET Int] /\ sent \in [Contacts -> SUBSET Int]
        /\ gone \in [Contacts -> SUBSET Int] /\ forgotten \in [Contacts -> SUBSET Int]
        /\ fresh \in [Contacts -> Nat]
      BY DEF Init
  <2>2. /\ task \in Task \cup {None} /\ open \in Contacts \cup {None}
        /\ wires \in Seq(Wire) /\ now \in Nat /\ composed \in Nat /\ faults \in Nat
      BY DEF Init
  <2> QED
      BY <1>3, <2>1, <2>2 DEF TypeInv
<1>5. TaskInv
    BY DEF Init, TaskInv
<1>6. LinesKept
    BY DEF Init, LinesKept
<1>7. ASSUME NEW d \in Contacts
      PROVE  Counted(contacts[d], fresh[d], Due(task, d), faults)
  <2>1. Due(task, d) = 0 /\ fresh[d] = 0
      BY DEF Init, Due
  <2>2. contacts[d] = first(d)
      BY <1>2
  <2> QED
      BY <1>1, <2>1, <2>2 DEF Counted
<1> QED
    BY <1>4, <1>5, <1>6, <1>7 DEF ChatInv, UnreadInv

LEMMA NextInv ==
    ASSUME ChatInv, [Next]_vars
    PROVE  ChatInv'
<1>1. CASE Step
    BY <1>1, StoreStep, TouchStep, RatchetStep, OwnStep, PublishStep, MarkStep, UnfiledSteps,
       PruneStep, UnlistStep, KeysStep, WipeStep DEF Step
<1>2. CASE WriteFails \/ ReadFails \/ Crash
    BY <1>2, FailStep, ReadFailStep, CrashStep
<1>3. CASE \E i \in DOMAIN wires : receive_ratchet_message(i)
    BY <1>3, ReceiveBegins
<1>4. CASE send_message
    BY <1>4, SendBegins
<1>5. CASE \/ do_wipe_identity \/ \E secs \in {0, TTL} : on_expiry_change(secs)
           \/ \E d \in Contacts : Open(d) \/ revoke_invite(d) \/ delete_conversation(d)
    BY <1>5, OthersBegin
<1>6. CASE \/ Close \/ Poll \/ Tick \/ \E d \in Contacts : Loaded(d) \/ PeerSends(d)
           \/ UNCHANGED vars
    BY <1>6, WorldStep
<1> QED
    BY <1>1, <1>2, <1>3, <1>4, <1>5, <1>6 DEF Next

\* The inductive invariant holds: an operation under way is one of the lists
\* the code can be in the middle of, and a line it is to publish, or whose key
\* it is to use up, is in the log already.
THEOREM ChatInvariant == Spec => []ChatInv
<1>1. Init => ChatInv
    BY InitInv
<1>2. ChatInv /\ [Next]_vars => ChatInv'
    BY NextInv
<1> QED
    BY <1>1, <1>2, PTL DEF Spec

\* receive_ratchet_message stores the plaintext before it persists the ratchet
\* that gave up the key, and send_message logs a line before it is published:
\* wherever an operation dies or a write fails in between, no line is lost
\* without expiry, deletion or a wipe, unless a read of its log failed
\* (read_conversation takes the log for empty) and a line was stored then.
THEOREM ChatLinesKept == Spec => []LinesKept
<1>1. ChatInv => LinesKept
    BY DEF ChatInv
<1> QED
    BY <1>1, ChatInvariant, PTL

\* touch_contact_message counts a line once, redeliveries excluded: the badge
\* is never above what was received since the last mark_read, and, without
\* faults, equal to it whenever no operation is under way.
THEOREM ChatUnreadSound == Spec => []UnreadSound
<1>1. ChatInv => UnreadSound
  <2> SUFFICES ASSUME ChatInv, NEW d \in Contacts, contacts[d] # None
               PROVE  /\ contacts[d].unread <= fresh[d]
                      /\ task = None /\ faults = 0 => contacts[d].unread = fresh[d]
      BY DEF UnreadSound
  <2>1. /\ Counted(contacts[d], fresh[d], Due(task, d), faults) /\ fresh[d] \in Nat
        /\ contacts[d] \in Contact \cup {None}
      BY DEF ChatInv, UnreadInv, TypeInv
  <2>2. contacts[d].unread \in Nat
      BY <2>1 DEF Contact
  <2>3. Due(task, d) \in {0, 1} /\ (task = None => Due(task, d) = 0)
      BY DEF Due
  <2> QED
      BY <2>1, <2>2, <2>3 DEF Counted
<1> QED
    BY <1>1, ChatInvariant, PTL

=============================================================================
