--------------------------- MODULE ContactsProofs ---------------------------
(* Proofs about how two people come to know one another, and what they     *)
(* then know of each other.                                                *)
(*                                                                         *)
(* Invite, for every set of peers and inviters and any number of links,    *)
(* queues, crashes and removals, with wires delivered late, in any order   *)
(* and again.  The argument rests on what is drawn being fresh.  A queue,  *)
(* and an anonymous identity, belongs to one record of the peer that drew  *)
(* it; so a link is used up by moving its record to a fresh queue, a       *)
(* session is known by the links accepted between two people, and whatever *)
(* queue anybody was told for an identity is one its owner has, or had.    *)
(*                                                                         *)
(* Social, for any finite set of users and any number of clicks and        *)
(* faults, when the operations of a user run one after the other.  What a  *)
(* task read is then what is still in the file when it writes; an id names *)
(* one post; and what a follow request or a goodbye says is on its way, or *)
(* being written down, until the follower's list holds it.                 *)
EXTENDS Invite, Social, ListsProofs, SequenceTheorems, FiniteSetTheorems, TLAPS

Dids == {"did"} \X Peers \X Nat
Queues == {"minted"} \X Peers \X Nat

\* The did or queue x was drawn.
Drawn(x) == x[3] <= minted[x[2]]

Contact ==
    [did : Dids \cup ({"pending"} \X Queues), myQ : Queues, theirQ : Queues \cup {None},
     status : {"pending", "active"}, mode : Modes, myDid : Dids, capable : BOOLEAN,
     timed : BOOLEAN, retired : SUBSET [q : Queues, aged : BOOLEAN]]

\* A record of p.  That of an active contact has a did and a queue to send to,
\* that of a pending one a placeholder.
RecordOf(p, c) ==
    /\ c.myQ[2] = p /\ c.myDid[2] = p /\ Drawn(c.myQ) /\ Drawn(c.myDid)
    /\ (c.mode = "regular") <=> (c.myDid[3] = 0)
    /\ IF IsActive(c) THEN c.did \in Dids /\ Drawn(c.did) /\ c.theirQ \in Queues
                      ELSE c.did = Placeholder(c.myQ)

Link == [q : Queues, did : Dids, mode : Modes, expired : BOOLEAN]

LinkOf(l) ==
    /\ l \in Link
    /\ l.did[2] = l.q[2] /\ Drawn(l.q) /\ Drawn(l.did)
    /\ (l.mode = "regular") <=> (l.did[3] = 0)

WireOf(w) ==
    /\ w.from \in Dids /\ w.seal \in Dids /\ Drawn(w.from) /\ Drawn(w.seal)
    /\ w.kind # "message" => w.body \in Queues
    /\ w.kind = "handshake" =>
         \E x \in accepted : x.by = w.from /\ x.of = w.seal /\ x.session = w.session
                             /\ w.session[2] = w.queue

SessionOf(x) ==
    /\ x.by \in Dids /\ x.of \in Dids /\ x.by # x.of
    /\ x.session \in {"session"} \X Queues \X Queues /\ Drawn(x.session[3])

Known ==
    /\ \A p \in Peers : \A c \in contacts[p] : c \in Contact /\ RecordOf(p, c)
    /\ \A l \in links : LinkOf(l)
    /\ \A w \in net : WireOf(w)
    /\ \A x \in accepted : SessionOf(x)
    /\ \A g \in guests : g.q \in Queues /\ Drawn(g.q)
    /\ \A q \in revoked : q \in Queues /\ Drawn(q)

\* One link was accepted between p and q, or none.
Once(p, q) == \A x, y \in accepted : Between(x, p, q) /\ Between(y, p, q) => x = y

\* No two records share a queue, or an identity drawn for one contact.
Apart ==
    \A p \in Peers : \A c, d \in contacts[p] :
        c.myQ = d.myQ \/ (c.myDid = d.myDid /\ c.myDid[3] # 0) => c = d

\* A pending record's queue has not been used.
Unused ==
    \A p \in Peers : \A c \in contacts[p] :
        ~IsActive(c) => c.myQ \notin revoked /\ \A g \in guests : g.q # c.myQ

Origin ==
    \A p \in Peers : \A c \in contacts[p] : IsActive(c) =>
        \E x \in accepted :
            \/ x.of = c.did /\ Owner(x.by) = p
            \/ x.by = c.did /\ Owner(x.of) = p /\ \E g \in guests : g.q = x.session[2]

OneEach ==
    \A p \in Peers : \A c, d \in contacts[p] :
        IsActive(c) /\ IsActive(d) /\ c.did = d.did /\ Once(p, Owner(c.did)) => c = d

StaysDeleted ==
    \A p \in Peers : \A c \in contacts[p] :
        IsActive(c) /\ Once(p, Owner(c.did)) => c.did \notin removed[p]

\* Whoever accepted a link has its record or deleted it, and so accepts no other
\* of that identity except after a deletion.
Remembered ==
    \A x \in accepted : \/ IsContact(Owner(x.by), x.of)
                        \/ x.of \in removed[Owner(x.by)]
Unique ==
    \A x, y \in accepted :
        Owner(x.by) = Owner(y.by) /\ x.of = y.of /\ ~x.anew /\ ~y.anew => x = y

ModesAgree ==
    /\ \A p \in Peers : \A c \in contacts[p] :
         IsActive(c) => ((c.did[3] = 0) <=> (c.myDid[3] = 0))
    /\ \A w \in net :
         /\ w.kind = "handshake" => ((w.from[3] = 0) <=> (w.seal[3] = 0))
         /\ w.kind = "message" => /\ (w.seal[3] = 0) <=> (w.from[3] = 0)
                                  /\ w.seal[3] = 0 => w.queue = PairQueue(w.seal, w.from)

\* Somebody was told to reach the identity did on the queue q.
Told(did, q) ==
    \/ \E l \in links : l.did = did /\ l.q = q
    \/ \E p \in Peers : \E c \in contacts[p] : IsActive(c) /\ c.did = did /\ c.theirQ = q
    \/ \E w \in net : IF w.kind = "message" THEN w.seal = did /\ w.queue = q
                                            ELSE w.from = did /\ w.body = q

\* An identity drawn for one contact is reached on that contact's queues.
Home ==
    \A p \in Peers : \A c \in contacts[p] : c.myDid[3] # 0 =>
        \A q : Told(c.myDid, q) => OwnsInboundQueue(c, q) \/ q \in lapsed

TypeInv ==
    /\ contacts \in [Peers -> SUBSET Contact]
    /\ minted \in [Peers -> Nat]
    /\ ratchet = [p \in Peers |-> ratchet[p]]
    /\ removed \in [Peers -> SUBSET Dids]

-----------------------------------------------------------------------------
(* Dids, queues and records.                                               *)

LEMMA QueueParts ==
    ASSUME NEW p \in Peers, NEW n \in Nat
    PROVE  Queue(p, n) \in Queues /\ Queue(p, n)[2] = p /\ Queue(p, n)[3] = n
    BY DEF Queue, Queues

LEMMA QueuesEqual ==
    ASSUME NEW q \in Queues, NEW r \in Queues, q[2] = r[2], q[3] = r[3]
    PROVE  q = r
    BY DEF Queues

LEMMA DidParts ==
    ASSUME NEW p \in Peers, NEW n \in Nat \ {0}, NEW mode \in Modes
    PROVE  /\ DidOf(p, mode, n) \in Dids /\ DidOf(p, mode, n)[2] = p
           /\ DidOf(p, mode, n)[3] \in {0, n}
           /\ (mode = "regular") <=> (DidOf(p, mode, n)[3] = 0)
    BY DEF DidOf, Dids, Modes

LEMMA RealDidParts ==
    ASSUME NEW p \in Peers
    PROVE  /\ RealDid(p) \in Dids /\ RealDid(p)[2] = p /\ RealDid(p)[3] = 0
           /\ \A d \in Dids : d[2] = p /\ d[3] = 0 => d = RealDid(p)
    BY DEF RealDid, DidOf, Dids

LEMMA PlaceholderIsNoDid ==
    ASSUME NEW q
    PROVE  Placeholder(q) \notin Dids
    BY DEF Placeholder, Dids

LEMMA Fields ==
    ASSUME NEW c \in Contact
    PROVE  c = [did |-> c.did, myQ |-> c.myQ, theirQ |-> c.theirQ, status |-> c.status,
                mode |-> c.mode, myDid |-> c.myDid, capable |-> c.capable, timed |-> c.timed,
                retired |-> c.retired]
    BY DEF Contact

\* A record that is promoted.
PromotedTo(c, did, v, q) ==
    [c EXCEPT !.did = did, !.theirQ = v, !.status = "active", !.myQ = q, !.capable = TRUE]

LEMMA PromotedFields ==
    ASSUME NEW c \in Contact, NEW did \in Dids, NEW v \in Queues, NEW q \in Queues
    PROVE  PromotedTo(c, did, v, q) =
                 [did |-> did, myQ |-> q, theirQ |-> v, status |-> "active", mode |-> c.mode,
                  myDid |-> c.myDid, capable |-> TRUE, timed |-> c.timed, retired |-> c.retired]
<1> DEFINE new == PromotedTo(c, did, v, q)
<1>1. new = [c EXCEPT !.did = did, !.theirQ = v, !.status = "active", !.myQ = q, !.capable = TRUE]
    BY DEF PromotedTo
<1> HIDE DEF new
<1>2. new = [did |-> did, myQ |-> q, theirQ |-> v, status |-> "active", mode |-> c.mode,
             myDid |-> c.myDid, capable |-> TRUE, timed |-> c.timed, retired |-> c.retired]
    BY <1>1, Fields DEF Contact
<1> QED
    BY <1>2 DEF new

\* What a welcome, a message or the end of the grace period leaves of a record:
\* it is the same contact's, under the same identity, and its queues are kept,
\* or retired for good, or joined by a fresh one.
Keeps(c, new) ==
    /\ new \in Contact
    /\ new.did = c.did /\ new.status = c.status /\ new.mode = c.mode /\ new.myDid = c.myDid

LEMMA WelcomedFields ==
    ASSUME NEW c \in Contact, NEW v \in Queues, NEW new, new = [c EXCEPT !.theirQ = v]
    PROVE  Keeps(c, new) /\ new.myQ = c.myQ /\ new.retired = c.retired /\ new.theirQ = v
    BY Fields DEF Contact, Keeps

LEMMA PrunedFields ==
    ASSUME NEW c \in Contact
    PROVE  /\ Keeps(c, Pruned(c)) /\ Pruned(c).myQ = c.myQ /\ Pruned(c).theirQ = c.theirQ
           /\ Pruned(c).retired = {r \in c.retired : ~r.aged}
<1> DEFINE R == {r \in c.retired : ~r.aged}
<1>1. R \in SUBSET [q : Queues, aged : BOOLEAN]
    BY DEF Contact
<1>2. Pruned(c) = [c EXCEPT !.retired = R, !.timed = TRUE]
    BY DEF Pruned
<1> HIDE DEF R
<1>3. Pruned(c) = [did |-> c.did, myQ |-> c.myQ, theirQ |-> c.theirQ, status |-> c.status,
                   mode |-> c.mode, myDid |-> c.myDid, capable |-> c.capable, timed |-> TRUE,
                   retired |-> R]
    BY <1>2, Fields DEF Contact
<1>4. Keeps(c, Pruned(c)) /\ Pruned(c).myQ = c.myQ /\ Pruned(c).theirQ = c.theirQ
    BY <1>1, <1>3 DEF Contact, Keeps
<1>5. Pruned(c).retired = R
    BY <1>3
<1> QED
    BY <1>4, <1>5 DEF R

LEMMA RotatedFields ==
    ASSUME NEW c \in Contact, NEW q \in Queues
    PROVE  /\ Keeps(c, Rotated(c, q)) /\ Rotated(c, q).myQ = q /\ Rotated(c, q).theirQ = c.theirQ
           /\ Rotated(c, q).retired = c.retired \cup {[q |-> c.myQ, aged |-> FALSE]}
<1> DEFINE R == c.retired \cup {[q |-> c.myQ, aged |-> FALSE]}
<1>1. R \in SUBSET [q : Queues, aged : BOOLEAN]
  <2>1. c.myQ \in Queues /\ c.retired \in SUBSET [q : Queues, aged : BOOLEAN]
      BY DEF Contact
  <2>2. [q |-> c.myQ, aged |-> FALSE] \in [q : Queues, aged : BOOLEAN]
      BY <2>1
  <2> QED
      BY <2>1, <2>2
<1>2. Rotated(c, q) = [c EXCEPT !.retired = R, !.myQ = q]
    BY DEF Rotated
<1> HIDE DEF R
<1>3. Rotated(c, q) = [did |-> c.did, myQ |-> q, theirQ |-> c.theirQ, status |-> c.status,
                       mode |-> c.mode, myDid |-> c.myDid, capable |-> c.capable,
                       timed |-> c.timed, retired |-> R]
    BY <1>2, Fields DEF Contact
<1>4. Keeps(c, Rotated(c, q)) /\ Rotated(c, q).myQ = q /\ Rotated(c, q).theirQ = c.theirQ
    BY <1>1, <1>3 DEF Contact, Keeps
<1>5. Rotated(c, q).retired = R
    BY <1>3
<1> QED
    BY <1>4, <1>5 DEF R

LEMMA GracedFields ==
    ASSUME NEW c \in Contact, NEW new,
           new = [c EXCEPT !.retired = {[r EXCEPT !.aged = TRUE] : r \in @}]
    PROVE  /\ Keeps(c, new) /\ new.myQ = c.myQ /\ new.theirQ = c.theirQ
           /\ \A r \in c.retired : \E s \in new.retired : s.q = r.q
<1> DEFINE R == {[r EXCEPT !.aged = TRUE] : r \in c.retired}
<1>1. \A r \in c.retired : [r EXCEPT !.aged = TRUE] \in [q : Queues, aged : BOOLEAN]
                           /\ [r EXCEPT !.aged = TRUE].q = r.q
  <2> SUFFICES ASSUME NEW r \in c.retired
               PROVE  /\ [r EXCEPT !.aged = TRUE] \in [q : Queues, aged : BOOLEAN]
                      /\ [r EXCEPT !.aged = TRUE].q = r.q
      OBVIOUS
  <2>1. r \in [q : Queues, aged : BOOLEAN]
      BY DEF Contact
  <2> QED
      BY <2>1
<1>2. R \in SUBSET [q : Queues, aged : BOOLEAN] /\ \A r \in c.retired : \E s \in R : s.q = r.q
    BY <1>1
<1>3. new = [c EXCEPT !.retired = R]
    OBVIOUS
<1> HIDE DEF R
<1>4. Keeps(c, new) /\ new.myQ = c.myQ /\ new.theirQ = c.theirQ
    BY <1>2, <1>3, Fields DEF Contact, Keeps
<1>5. new.retired = R
    BY <1>3, Fields
<1> QED
    BY <1>2, <1>4, <1>5

-----------------------------------------------------------------------------
(* The steps, told by the records that go and come.                        *)

\* The records of p lose those in G and gain those in N.
Changes(p, G, N) ==
    contacts' = [q \in Peers |-> IF q = p THEN (contacts[p] \ G) \cup N ELSE contacts[q]]

Draws(p) == minted' = [minted EXCEPT ![p] = minted[p] + 1]
FreshQueue(p) == Queue(p, minted[p] + 1)

\* The record c is new at p, under a fresh queue.
Starts(p, c) ==
    /\ Draws(p) /\ c \in Contact
    /\ c.myQ = FreshQueue(p) /\ c.myDid = DidOf(p, c.mode, minted[p] + 1)
    /\ c.retired = {}
    /\ Changes(p, {x \in contacts[p] : x.did = c.did}, {c})

StepGenerate(p, c, l) ==
    /\ Starts(p, c)
    /\ ~IsActive(c) /\ c.did = Placeholder(c.myQ)
    /\ l \in Link /\ links' = links \cup {l} /\ l.q = c.myQ /\ l.did = c.myDid /\ l.mode = c.mode
    /\ ratchet' = ratchet \/ ratchet' = WriteRatchet(p, c.did, Prekey)
    /\ UNCHANGED <<net, accepted, guests, revoked, lapsed, removed>>

StepAccept(p, l, c) ==
    LET x == [by |-> c.myDid, of |-> c.did, session |-> Session(l, c.myQ),
              anew |-> c.did \in removed[p]]
    IN  /\ Starts(p, c)
        /\ l \in links /\ l.did # RealDid(p) /\ <<l.mode, c.mode>> \in Pairings
        /\ ~IsContact(p, c.did)
        /\ IsActive(c) /\ c.did = l.did /\ c.theirQ = l.q
        /\ accepted' = accepted \cup {x}
        /\ ratchet' = ratchet \/ ratchet' = WriteRatchet(p, c.did, x.session)
        /\ \/ net' = net
           \/ net' = net \cup {build_inner("handshake", l.q, c.myDid, c.did, c.myQ, x.session)}
        /\ removed' = [removed EXCEPT ![p] = @ \ {c.did}]
        /\ UNCHANGED <<links, guests, revoked, lapsed>>

\* A handshake for the pending record c, and the session it brings.
Heard(p, w, c) ==
    /\ w \in net /\ w.kind = "handshake" /\ w.seal = KeyFor(p, w.queue)
    /\ c \in contacts[p] /\ c.myQ = w.queue /\ ~IsActive(c)

StepBoot(p, w, c) ==
    /\ Heard(p, w, c)
    /\ ratchet' = WriteRatchet(p, w.from, w.session)
    /\ UNCHANGED <<contacts, links, net, minted, accepted, guests, revoked, lapsed, removed>>

StepPromote(p, w, c, new) ==
    /\ Heard(p, w, c)
    /\ Draws(p)
    /\ new = PromotedTo(c, w.from, w.body, FreshQueue(p))
    /\ Changes(p, {c}, {new})
    /\ guests' = guests \cup {[q |-> w.queue, who |-> w.from]}
    /\ lapsed' = lapsed \cup {w.queue}
    /\ \/ [q |-> w.queue, who |-> w.from] \in guests /\ removed' = removed
       \/ removed' = [removed EXCEPT ![p] = @ \ {w.from}]
    /\ \/ ratchet' = WriteRatchet(p, w.from, w.session)
       \/ ratchet' = [WriteRatchet(p, w.from, w.session) EXCEPT ![p] = Restrict(@, DOMAIN @ \ {c.did})]
    /\ \/ net' = net
       \/ net' = net \cup {Welcome(c.myDid, w.from, w.body, FreshQueue(p))}
    /\ UNCHANGED <<links, accepted, revoked>>

\* The record c is changed in place.  Where it sends to is as before, or what a
\* welcome said; its queue is as before, or fresh and perhaps announced.
StepUpdate(p, c, new) ==
    /\ c \in contacts[p] /\ Keeps(c, new)
    /\ Changes(p, {c}, {new})
    /\ \/ new.theirQ = c.theirQ
       \/ \E w \in net : w.kind = "welcome" /\ w.from = c.did /\ new.theirQ = w.body
    /\ \A v : OwnsInboundQueue(c, v) => OwnsInboundQueue(new, v) \/ v \in lapsed'
    /\ lapsed \subseteq lapsed'
    /\ \/ new.myQ = c.myQ /\ UNCHANGED <<net, minted>>
       \/ /\ Draws(p) /\ new.myQ = FreshQueue(p) /\ IsActive(c)
          /\ \/ net' = net
             \/ net' = net \cup {Welcome(c.myDid, c.did, c.theirQ, new.myQ)}
    /\ UNCHANGED <<ratchet, links, accepted, guests, revoked, removed>>

StepRemove(p, c, dids) ==
    /\ c \in contacts[p]
    /\ Changes(p, {c}, {})
    /\ ratchet' = ratchet \/ ratchet' = RemoveRatchets(p, dids)
    /\ \/ ~IsActive(c) /\ revoked' = revoked \cup {c.myQ} /\ removed' = removed
       \/ IsActive(c) /\ revoked' = revoked /\ removed' = [removed EXCEPT ![p] = @ \cup {c.did}]
    /\ UNCHANGED <<links, net, minted, accepted, guests, lapsed>>

StepSend(p, c) ==
    /\ c \in contacts[p] /\ IsActive(c)
    /\ \E s : net' = net \cup {build_inner("message", SendQueue(p, c), c.myDid, c.did, None, s)}
    /\ UNCHANGED <<contacts, ratchet, links, minted, accepted, guests, revoked, lapsed, removed>>

StepExpire(l) ==
    /\ l \in links
    /\ links' = (links \ {l}) \cup {[l EXCEPT !.expired = TRUE]}
    /\ UNCHANGED <<contacts, ratchet, net, minted, accepted, guests, revoked, lapsed, removed>>

Steps ==
    \/ \E l \in links : StepExpire(l)
    \/ \E p \in Peers :
         \/ \E c \in Contact :
              \/ \E l : StepGenerate(p, c, l)
              \/ \E l \in links : StepAccept(p, l, c)
         \/ \E w \in net, c \in contacts[p] :
              StepBoot(p, w, c) \/ \E new : StepPromote(p, w, c, new)
         \/ \E c \in contacts[p] :
              \/ \E new : StepUpdate(p, c, new)
              \/ \E dids : StepRemove(p, c, dids)
              \/ StepSend(p, c)

Inv == TypeInv /\ Known

\* Every step is one of these shapes.
LEMMA ShapeGenerate ==
    ASSUME Inv, NEW p \in Peers, NEW mode \in Modes, NEW cut \in 1..2, GenerateInvite(p, mode, cut)
    PROVE  Steps
<1> DEFINE n == minted[p] + 1
           q == Queue(p, n)
           c == [did |-> Placeholder(q), myQ |-> q, theirQ |-> None,
                 status |-> "pending", mode |-> mode, myDid |-> DidOf(p, mode, n),
                 capable |-> FALSE, timed |-> FALSE, retired |-> {}]
           l == InviteLink(q, DidOf(p, mode, n), mode)
<1>1. n \in Nat \ {0} /\ q \in Queues /\ DidOf(p, mode, n) \in Dids
  <2>1. n \in Nat \ {0}
      BY DEF Inv, TypeInv
  <2> HIDE DEF n
  <2>2. n \in Nat
      BY <2>1
  <2> QED
      BY <2>1, <2>2, QueueParts, DidParts
<1>2. /\ minted' = [minted EXCEPT ![p] = n] /\ contacts' = Upserted(p, c)
      /\ (ratchet' = ratchet \/ ratchet' = WriteRatchet(p, Placeholder(q), Prekey))
      /\ links' = links \cup {l}
      /\ UNCHANGED <<net, accepted, guests, revoked, lapsed, removed>>
    BY DEF GenerateInvite
<1>3. c \in Contact /\ ~IsActive(c)
    BY <1>1 DEF Contact, Placeholder, IsActive, Modes
<1>4. l \in Link /\ l.q = q /\ l.did = DidOf(p, mode, n) /\ l.mode = mode
    BY <1>1 DEF Link, InviteLink
<1>5. /\ c.myQ = q /\ c.did = Placeholder(q) /\ c.myDid = DidOf(p, mode, n) /\ c.mode = mode
      /\ c.retired = {}
    OBVIOUS
<1>6. Draws(p) /\ q = FreshQueue(p)
    BY <1>2 DEF Draws, FreshQueue
<1>7. Changes(p, {x \in contacts[p] : x.did = c.did}, {c})
  <2> HIDE DEF c
  <2> QED
      BY <1>2 DEF Changes, Upserted, Inv, TypeInv
<1> HIDE DEF c, l
<1>8. StepGenerate(p, c, l)
    BY <1>2, <1>3, <1>4, <1>5, <1>6, <1>7 DEF StepGenerate, Starts
<1> QED
    BY <1>3, <1>8 DEF Steps

LEMMA ShapeAccept ==
    ASSUME Inv, NEW p \in Peers, NEW l \in links, NEW mode \in Modes, NEW cut \in 1..3,
           AcceptInvite(p, l, mode, cut)
    PROVE  Steps
<1> DEFINE n == minted[p] + 1
           q == Queue(p, n)
           me == DidOf(p, mode, n)
           s == Session(l, q)
           c == [did |-> l.did, myQ |-> q, theirQ |-> l.q, status |-> "active", mode |-> mode,
                 myDid |-> me, capable |-> TRUE, timed |-> FALSE, retired |-> {}]
<1>1. n \in Nat \ {0} /\ q \in Queues /\ me \in Dids /\ l \in Link
  <2>1. n \in Nat \ {0} /\ l \in Link
      BY DEF Inv, TypeInv, Known, LinkOf
  <2> HIDE DEF n
  <2>2. n \in Nat
      BY <2>1
  <2> QED
      BY <2>1, <2>2, QueueParts, DidParts
<1>2. /\ minted' = [minted EXCEPT ![p] = n] /\ contacts' = Upserted(p, c)
      /\ (ratchet' = ratchet \/ ratchet' = WriteRatchet(p, l.did, s))
      /\ \/ net' = net
         \/ net' = net \cup {build_inner("handshake", l.q, me, l.did, q, s)}
      /\ accepted' = accepted \cup {[by |-> me, of |-> l.did, session |-> s,
                                    anew |-> l.did \in removed[p]]}
      /\ removed' = [removed EXCEPT ![p] = @ \ {l.did}]
      /\ UNCHANGED <<links, guests, revoked, lapsed>>
    BY DEF AcceptInvite
<1>3. l.did # RealDid(p) /\ <<l.mode, mode>> \in Pairings /\ ~IsContact(p, l.did)
    BY DEF AcceptInvite
<1>4. c \in Contact /\ IsActive(c)
    BY <1>1 DEF Contact, IsActive, Link
<1>5. /\ c.myQ = q /\ c.did = l.did /\ c.myDid = me /\ c.mode = mode /\ c.theirQ = l.q
      /\ c.retired = {}
    OBVIOUS
<1>6. Draws(p) /\ q = FreshQueue(p)
    BY <1>2 DEF Draws, FreshQueue
<1>7. Changes(p, {x \in contacts[p] : x.did = c.did}, {c})
  <2> HIDE DEF c
  <2> QED
      BY <1>2 DEF Changes, Upserted, Inv, TypeInv
<1> HIDE DEF c
<1>8. Starts(p, c)
    BY <1>4, <1>5, <1>6, <1>7 DEF Starts
<1>9. StepAccept(p, l, c)
    BY <1>2, <1>3, <1>4, <1>5, <1>8 DEF StepAccept
<1> QED
    BY <1>4, <1>9 DEF Steps

LEMMA ShapeHandshake ==
    ASSUME Inv, NEW p \in Peers, NEW w \in net, NEW cut \in 1..3, ReceiveHandshake(p, w, cut)
    PROVE  Steps
<1>1. PICK c \in contacts[p] :
        /\ c.myQ = w.queue /\ ~IsActive(c)
        /\ LET n == minted[p] + 1
               q == Queue(p, n)
               new == [c EXCEPT !.did = w.from, !.theirQ = w.body, !.status = "active",
                                !.myQ = q, !.capable = TRUE]
               bootstrapped == bootstrap_responder_ratchet(p, w)
               guest == [q |-> w.queue, who |-> w.from]
           IN  \/ /\ cut = 1
                  /\ ratchet' = bootstrapped
                  /\ UNCHANGED <<contacts, net, minted, guests, lapsed, removed>>
               \/ /\ cut > 1
                  /\ minted' = [minted EXCEPT ![p] = n]
                  /\ contacts' = Promoted(p, c, new)
                  /\ guests' = guests \cup {guest}
                  /\ lapsed' = lapsed \cup {w.queue}
                  /\ removed' = IF guest \in guests THEN removed
                                ELSE [removed EXCEPT ![p] = @ \ {w.from}]
                  /\ IF cut = 2 THEN ratchet' = bootstrapped /\ UNCHANGED net
                     ELSE /\ ratchet' = [bootstrapped EXCEPT ![p] = Restrict(@, DOMAIN @ \ {c.did})]
                          /\ net' = net \cup {Welcome(c.myDid, w.from, w.body, q)}
    BY DEF ReceiveHandshake
<1>2. Heard(p, w, c)
    BY <1>1 DEF Heard, ReceiveHandshake, open_envelope
<1>3. UNCHANGED <<links, accepted, revoked>>
    BY DEF ReceiveHandshake
<1> DEFINE new == [c EXCEPT !.did = w.from, !.theirQ = w.body, !.status = "active",
                            !.myQ = FreshQueue(p), !.capable = TRUE]
           guest == [q |-> w.queue, who |-> w.from]
<1>4. CASE cut = 1
  <2>1. StepBoot(p, w, c)
      BY <1>1, <1>2, <1>3, <1>4 DEF StepBoot, bootstrap_responder_ratchet
  <2> QED
      BY <2>1 DEF Steps
<1>5. CASE cut > 1
  <2>1. /\ Draws(p) /\ contacts' = Replaced(p, c, new)
        /\ guests' = guests \cup {guest} /\ lapsed' = lapsed \cup {w.queue}
        /\ removed' = (IF guest \in guests THEN removed ELSE [removed EXCEPT ![p] = @ \ {w.from}])
      BY <1>1, <1>5 DEF Draws, FreshQueue, Promoted
  <2>2. /\ \/ ratchet' = WriteRatchet(p, w.from, w.session)
           \/ ratchet' = [WriteRatchet(p, w.from, w.session) EXCEPT ![p] = Restrict(@, DOMAIN @ \ {c.did})]
        /\ \/ net' = net
           \/ net' = net \cup {Welcome(c.myDid, w.from, w.body, FreshQueue(p))}
      BY <1>1, <1>5 DEF FreshQueue, bootstrap_responder_ratchet
  <2> HIDE DEF new
  <2>3. Changes(p, {c}, {new})
      BY <2>1 DEF Changes, Replaced, Inv, TypeInv
  <2>4. StepPromote(p, w, c, new)
    <3>1. new = PromotedTo(c, w.from, w.body, FreshQueue(p))
        BY DEF new, PromotedTo
    <3> QED
        BY <1>2, <1>3, <2>1, <2>2, <2>3, <3>1 DEF StepPromote
  <2> QED
      BY <2>4 DEF Steps
<1> QED
    BY <1>4, <1>5

\* A record in p's list, changed in place.
LEMMA ReplacedChanges ==
    ASSUME Inv, NEW p \in Peers, NEW c \in contacts[p], NEW new, contacts' = Replaced(p, c, new)
    PROVE  Changes(p, {c}, {new})
    BY DEF Replaced, Changes, Inv, TypeInv

LEMMA ShapeWelcome ==
    ASSUME Inv, NEW p \in Peers, NEW w \in net, ReceiveWelcome(p, w)
    PROVE  Steps
<1>1. PICK c \in contacts[p] :
        c.did = w.from /\ contacts' = Replaced(p, c, [c EXCEPT !.theirQ = w.body])
    BY DEF ReceiveWelcome
<1> DEFINE new == [c EXCEPT !.theirQ = w.body]
<1>2. w.kind = "welcome" /\ UNCHANGED <<ratchet, links, net, minted, accepted, guests, revoked, lapsed, removed>>
    BY DEF ReceiveWelcome
<1>3. c \in Contact /\ w.body \in Queues
    BY <1>2 DEF Inv, Known, WireOf
<1>4. Keeps(c, new) /\ new.myQ = c.myQ /\ new.retired = c.retired /\ new.theirQ = w.body
    BY <1>3, WelcomedFields
<1> HIDE DEF new
<1>5. Changes(p, {c}, {new})
    BY <1>1, ReplacedChanges DEF new
<1>6. StepUpdate(p, c, new)
    BY <1>1, <1>2, <1>4, <1>5 DEF StepUpdate, OwnsInboundQueue
<1> QED
    BY <1>6 DEF Steps

LEMMA ShapeMessage ==
    ASSUME Inv, NEW p \in Peers, NEW w \in net, NEW rotate \in BOOLEAN, NEW cut \in 1..2,
           ReceiveMessage(p, w, rotate, cut)
    PROVE  Steps
<1>1. PICK c \in contacts[p] :
         /\ Accepts(p, c, w)
         /\ lapsed' = lapsed \cup {r.q : r \in {x \in c.retired : x.aged}}
         /\ IF ~rotate
            THEN /\ contacts' = Replaced(p, c, Pruned(c))
                 /\ UNCHANGED <<net, minted>>
            ELSE LET q == Queue(p, minted[p] + 1)
                 IN  /\ c.timed /\ (\A r \in c.retired : r.aged) /\ minted[p] < MaxQueues[p]
                     /\ minted' = [minted EXCEPT ![p] = @ + 1]
                     /\ contacts' = Replaced(p, c, Rotated(Pruned(c), q))
                     /\ net' = IF cut = 2 THEN net \cup {Welcome(c.myDid, c.did, c.theirQ, q)}
                                         ELSE net
    BY DEF ReceiveMessage
<1>2. UNCHANGED <<ratchet, links, accepted, guests, revoked, removed>>
    BY DEF ReceiveMessage
<1>3. c \in Contact
    BY DEF Inv, Known
<1>4. /\ Keeps(c, Pruned(c)) /\ Pruned(c).myQ = c.myQ /\ Pruned(c).theirQ = c.theirQ
      /\ Pruned(c).retired = {r \in c.retired : ~r.aged}
    BY <1>3, PrunedFields
<1>5. \A r \in c.retired : r.aged \in BOOLEAN
    BY <1>3 DEF Contact
<1>6. \A v : OwnsInboundQueue(c, v) => OwnsInboundQueue(Pruned(c), v) \/ v \in lapsed'
    BY <1>1, <1>4, <1>5 DEF OwnsInboundQueue
<1>7. lapsed \subseteq lapsed' /\ IsActive(c)
    BY <1>1 DEF Accepts
<1>8. CASE ~rotate
  <2>1. Changes(p, {c}, {Pruned(c)}) /\ UNCHANGED <<net, minted>>
      BY <1>1, <1>8, ReplacedChanges
  <2>2. StepUpdate(p, c, Pruned(c))
      BY <1>2, <1>4, <1>6, <1>7, <2>1 DEF StepUpdate
  <2> QED
      BY <2>2 DEF Steps
<1>9. CASE rotate
  <2> DEFINE q == FreshQueue(p)
             new == Rotated(Pruned(c), q)
  <2>1. q \in Queues
      BY QueueParts DEF FreshQueue, Inv, TypeInv
  <2>2. /\ minted' = [minted EXCEPT ![p] = @ + 1] /\ contacts' = Replaced(p, c, new)
        /\ (net' = net \/ net' = net \cup {Welcome(c.myDid, c.did, c.theirQ, q)})
      BY <1>1, <1>9 DEF FreshQueue
  <2>3. Pruned(c) \in Contact
      BY <1>4 DEF Keeps
  <2>4. /\ Keeps(Pruned(c), new) /\ new.myQ = q /\ new.theirQ = c.theirQ
        /\ new.retired = Pruned(c).retired \cup {[q |-> Pruned(c).myQ, aged |-> FALSE]}
      BY <1>4, <2>1, <2>3, RotatedFields
  <2> HIDE DEF new
  <2>5. Keeps(c, new)
      BY <1>4, <2>4 DEF Keeps
  <2>6. \A v : OwnsInboundQueue(Pruned(c), v) => OwnsInboundQueue(new, v)
    <3>1. [q |-> Pruned(c).myQ, aged |-> FALSE].q = Pruned(c).myQ
        OBVIOUS
    <3> QED
        BY <2>4, <3>1 DEF OwnsInboundQueue
  <2>7. Changes(p, {c}, {new})
      BY <2>2, ReplacedChanges
  <2>8. Draws(p)
      BY <2>2 DEF Draws
  <2>9. StepUpdate(p, c, new)
      BY <1>2, <1>6, <1>7, <2>2, <2>4, <2>5, <2>6, <2>7, <2>8 DEF StepUpdate
  <2> QED
      BY <2>9 DEF Steps
<1> QED
    BY <1>8, <1>9

LEMMA ShapeGrace ==
    ASSUME Inv, NEW p \in Peers, NEW c \in contacts[p], GraceEnds(p, c)
    PROVE  Steps
<1> DEFINE new == [c EXCEPT !.retired = {[r EXCEPT !.aged = TRUE] : r \in @}]
<1>1. contacts' = Replaced(p, c, new)
    BY DEF GraceEnds
<1>2. UNCHANGED <<ratchet, links, net, minted, accepted, guests, revoked, lapsed, removed>>
    BY DEF GraceEnds
<1>3. c \in Contact
    BY DEF Inv, Known
<1>4. /\ Keeps(c, new) /\ new.myQ = c.myQ /\ new.theirQ = c.theirQ
      /\ \A r \in c.retired : \E s \in new.retired : s.q = r.q
    BY <1>3, GracedFields
<1> HIDE DEF new
<1>5. Changes(p, {c}, {new})
    BY <1>1, ReplacedChanges
<1>6. \A v : OwnsInboundQueue(c, v) => OwnsInboundQueue(new, v)
    BY <1>4 DEF OwnsInboundQueue
<1>7. StepUpdate(p, c, new)
    BY <1>2, <1>4, <1>5, <1>6 DEF StepUpdate
<1> QED
    BY <1>7 DEF Steps

LEMMA ShapeRemove ==
    ASSUME Inv, NEW p \in Peers, NEW c \in contacts[p], NEW cut \in 1..2,
           RevokeInvite(p, c, cut) \/ DeleteConversation(p, c, cut)
    PROVE  Steps
<1>1. CASE RevokeInvite(p, c, cut)
  <2>1. Changes(p, {c}, {})
      BY <1>1 DEF RevokeInvite, Changes, Inv, TypeInv
  <2>2. StepRemove(p, c, {c.did})
      BY <1>1, <2>1 DEF RevokeInvite, StepRemove
  <2> QED
      BY <2>2 DEF Steps
<1>2. CASE DeleteConversation(p, c, cut)
  <2>1. Changes(p, {c}, {})
      BY <1>2 DEF DeleteConversation, Changes, Inv, TypeInv
  <2>2. StepRemove(p, c, {c.did, Placeholder(c.myQ)})
      BY <1>2, <2>1 DEF DeleteConversation, StepRemove
  <2> QED
      BY <2>2 DEF Steps
<1> QED
    BY <1>1, <1>2

LEMMA Shapes ==
    ASSUME Inv, Next
    PROVE  Steps
<1>1. ASSUME NEW link \in links, LinkExpires(link)
      PROVE  Steps
    BY <1>1 DEF LinkExpires, StepExpire, Steps
<1>2. ASSUME NEW p \in Peers, NEW c \in contacts[p], SendMessage(p, c)
      PROVE  Steps
    BY <1>2 DEF SendMessage, StepSend, Steps
<1> QED
    BY <1>1, <1>2, ShapeGenerate, ShapeAccept, ShapeHandshake, ShapeWelcome, ShapeMessage,
       ShapeGrace, ShapeRemove DEF Next

-----------------------------------------------------------------------------
(* Types, and what is known of records, links, wires and sessions.         *)

LEMMA FreshIsNew ==
    ASSUME TypeInv, NEW p \in Peers, Draws(p)
    PROVE  /\ FreshQueue(p) \in Queues /\ FreshQueue(p)[2] = p
           /\ FreshQueue(p)[3] = minted[p] + 1 /\ ~Drawn(FreshQueue(p))
           /\ \A x : x = FreshQueue(p) => Drawn(x)'
           /\ minted[p] + 1 \in Nat \ {0} /\ minted'[p] = minted[p] + 1
<1>1. minted[p] \in Nat /\ minted'[p] = minted[p] + 1
    BY DEF TypeInv, Draws
<1>2. FreshQueue(p) \in Queues /\ FreshQueue(p)[2] = p /\ FreshQueue(p)[3] = minted[p] + 1
    BY <1>1, QueueParts DEF FreshQueue
<1> QED
    BY <1>1, <1>2 DEF Drawn

LEMMA MintedGrows ==
    ASSUME Inv, Steps
    PROVE  /\ minted' \in [Peers -> Nat]
           /\ \A x \in Dids \cup Queues : Drawn(x) => Drawn(x)'
<1>1. minted' = minted \/ \E p \in Peers : Draws(p)
  <2>1. ASSUME NEW p \in Peers, NEW c \in Contact,
               (\E l : StepGenerate(p, c, l)) \/ (\E l \in links : StepAccept(p, l, c))
        PROVE  Draws(p)
      BY <2>1 DEF StepGenerate, StepAccept, Starts
  <2>2. ASSUME NEW p \in Peers, NEW w \in net, NEW c \in contacts[p],
               StepBoot(p, w, c) \/ \E new : StepPromote(p, w, c, new)
        PROVE  minted' = minted \/ Draws(p)
      BY <2>2 DEF StepBoot, StepPromote
  <2>3. ASSUME NEW p \in Peers, NEW c \in contacts[p],
               \/ \E new : StepUpdate(p, c, new)
               \/ \E dids : StepRemove(p, c, dids)
               \/ StepSend(p, c)
        PROVE  minted' = minted \/ Draws(p)
      BY <2>3 DEF StepUpdate, StepRemove, StepSend
  <2>4. ASSUME NEW l \in links, StepExpire(l)
        PROVE  minted' = minted
      BY <2>4 DEF StepExpire
  <2> QED
      BY <2>1, <2>2, <2>3, <2>4 DEF Steps
<1>2. minted \in [Peers -> Nat]
    BY DEF Inv, TypeInv
<1>3. minted' \in [Peers -> Nat] /\ \A p \in Peers : minted[p] <= minted'[p]
    BY <1>1, <1>2 DEF Draws
<1>4. \A x \in Dids \cup Queues : x[2] \in Peers /\ x[3] \in Nat
    BY DEF Dids, Queues
<1> QED
    BY <1>2, <1>3, <1>4 DEF Drawn

\* The records that a step brings are as records are.
LEMMA RecordsChange ==
    ASSUME Inv, Steps, NEW p \in Peers, NEW G, NEW N, Changes(p, G, N),
           \A c \in N : c \in Contact /\ RecordOf(p, c)'
    PROVE  /\ contacts' \in [Peers -> SUBSET Contact]
           /\ \A q \in Peers : \A c \in contacts'[q] : c \in Contact /\ RecordOf(q, c)'
<1>1. \A q \in Peers : \A c \in contacts'[q] :
        c \in contacts[q] \/ (q = p /\ c \in N)
    BY DEF Changes
<1>2. ASSUME NEW q \in Peers, NEW c \in contacts[q]
      PROVE  c \in Contact /\ RecordOf(q, c)'
  <2>1. c \in Contact /\ RecordOf(q, c) /\ c.myQ \in Queues /\ c.myDid \in Dids
      BY DEF Inv, Known, Contact
  <2> QED
      BY <2>1, MintedGrows DEF RecordOf
<1>3. \A q \in Peers : \A c \in contacts'[q] : c \in Contact /\ RecordOf(q, c)'
    BY <1>1, <1>2
<1>4. contacts' = [q \in Peers |-> contacts'[q]]
    BY DEF Changes
<1> QED
    BY <1>3, <1>4

LEMMA RecordStarts ==
    ASSUME Inv, Steps, NEW p \in Peers, NEW c, Starts(p, c),
           IF IsActive(c) THEN c.did \in Dids /\ Drawn(c.did) /\ c.theirQ \in Queues
                          ELSE c.did = Placeholder(c.myQ)
    PROVE  RecordOf(p, c)'
<1>1. Draws(p) /\ c \in Contact /\ c.myQ = FreshQueue(p) /\ c.myDid = DidOf(p, c.mode, minted[p] + 1)
    BY DEF Starts
<1>2. /\ FreshQueue(p)[2] = p /\ Drawn(c.myQ)'
      /\ minted[p] + 1 \in Nat \ {0} /\ minted'[p] = minted[p] + 1
    BY <1>1, FreshIsNew DEF Inv
<1>3. c.mode \in Modes
    BY <1>1 DEF Contact
<1>4. \A n \in Nat \ {0} : /\ DidOf(p, c.mode, n)[2] = p
                           /\ DidOf(p, c.mode, n)[3] \in {0, n}
                           /\ (c.mode = "regular") <=> (DidOf(p, c.mode, n)[3] = 0)
    BY <1>3, DidParts
<1>5. c.myDid[2] = p /\ c.myDid[3] \in {0, minted[p] + 1} /\ ((c.mode = "regular") <=> (c.myDid[3] = 0))
    BY <1>1, <1>2, <1>4
<1>6. Drawn(c.myDid)'
    BY <1>2, <1>5 DEF Drawn
<1>7. IsActive(c) => Drawn(c.did)'
    BY MintedGrows
<1> QED
    BY <1>1, <1>2, <1>5, <1>6, <1>7 DEF RecordOf

LEMMA RecordPromoted ==
    ASSUME Inv, Steps, NEW p \in Peers, NEW w \in net, NEW c \in contacts[p], NEW new,
           StepPromote(p, w, c, new)
    PROVE  /\ new \in Contact /\ RecordOf(p, new)'
           /\ new.did = w.from /\ new.theirQ = w.body /\ new.myQ = FreshQueue(p)
           /\ IsActive(new) /\ new.myDid = c.myDid /\ new.mode = c.mode /\ new.retired = c.retired
<1>1. /\ Draws(p) /\ w.kind = "handshake"
      /\ new = PromotedTo(c, w.from, w.body, FreshQueue(p))
    BY DEF StepPromote, Heard
<1>2. c \in Contact /\ RecordOf(p, c) /\ w.from \in Dids /\ Drawn(w.from) /\ w.body \in Queues
    BY <1>1 DEF Inv, Known, WireOf
<1>3. /\ FreshQueue(p) \in Queues /\ FreshQueue(p)[2] = p
      /\ \A x : x = FreshQueue(p) => Drawn(x)'
    BY <1>1, FreshIsNew DEF Inv
<1>4. new = [did |-> w.from, myQ |-> FreshQueue(p), theirQ |-> w.body, status |-> "active",
             mode |-> c.mode, myDid |-> c.myDid, capable |-> TRUE, timed |-> c.timed,
             retired |-> c.retired]
    BY <1>1, <1>2, <1>3, PromotedFields, ZenonT(60)
<1>5. /\ new.did = w.from /\ new.theirQ = w.body /\ new.myQ = FreshQueue(p)
      /\ IsActive(new) /\ new.myDid = c.myDid /\ new.mode = c.mode /\ new.retired = c.retired
    BY <1>4 DEF IsActive
<1>6. new \in Contact
    BY <1>2, <1>3, <1>4 DEF Contact
<1>7. c.myDid \in Dids
    BY <1>2 DEF Contact
<1>8. Drawn(c.myDid)' /\ Drawn(w.from)'
    BY <1>2, <1>7, MintedGrows DEF RecordOf
<1> QED
    BY <1>2, <1>3, <1>5, <1>6, <1>8 DEF RecordOf

LEMMA RecordUpdated ==
    ASSUME Inv, Steps, NEW p \in Peers, NEW c \in contacts[p], NEW new, StepUpdate(p, c, new)
    PROVE  /\ new \in Contact /\ RecordOf(p, new)'
           /\ IsActive(new) = IsActive(c)
<1>1. /\ new \in Contact /\ new.did = c.did /\ new.status = c.status /\ new.mode = c.mode
      /\ new.myDid = c.myDid
    BY DEF StepUpdate, Keeps
<1>2. c \in Contact /\ RecordOf(p, c) /\ c.myDid \in Dids /\ c.myQ \in Queues
    BY DEF Inv, Known, Contact
<1>3. \/ new.myQ = c.myQ
      \/ Draws(p) /\ new.myQ = FreshQueue(p) /\ IsActive(c)
    BY DEF StepUpdate
<1>4. new.myQ[2] = p /\ Drawn(new.myQ)'
    BY <1>2, <1>3, MintedGrows, FreshIsNew DEF RecordOf, Inv
<1>5. Drawn(new.myDid)' /\ (IsActive(c) => Drawn(c.did)')
    BY <1>1, <1>2, MintedGrows DEF RecordOf
<1>6. IsActive(c) => new.theirQ \in Queues
  <2>1. ASSUME NEW v \in net, v.kind = "welcome"
        PROVE  v.body \in Queues
      BY <2>1 DEF Inv, Known, WireOf
  <2> QED
      BY <1>2, <2>1 DEF StepUpdate, RecordOf
<1>7. IsActive(new) <=> IsActive(c)
    BY <1>1 DEF IsActive
<1>8. ~IsActive(c) => new.myQ = c.myQ
    BY <1>3
<1> QED
    BY <1>1, <1>2, <1>4, <1>5, <1>6, <1>7, <1>8 DEF RecordOf, IsActive

\* What was there stays as it was.
LEMMA OldStays ==
    ASSUME Inv, Steps, accepted \subseteq accepted'
    PROVE  /\ \A l \in links : LinkOf(l)'
           /\ \A w \in net : WireOf(w)'
           /\ \A x \in accepted : SessionOf(x)'
           /\ \A g \in guests : g.q \in Queues /\ Drawn(g.q)'
           /\ \A q \in revoked : q \in Queues /\ Drawn(q)'
<1>1. \A x \in Dids \cup Queues : Drawn(x) => Drawn(x)'
    BY MintedGrows
<1>2. ASSUME NEW l \in links
      PROVE  LinkOf(l)'
    BY <1>1 DEF LinkOf, Link, Inv, Known
<1>3. ASSUME NEW w \in net
      PROVE  WireOf(w)'
  <2>1. WireOf(w)
      BY DEF Inv, Known
  <2> QED
      BY <1>1, <2>1 DEF WireOf
<1>4. ASSUME NEW x \in accepted
      PROVE  SessionOf(x)'
  <2>1. SessionOf(x) /\ x.session[3] \in Queues
      BY DEF Inv, Known, SessionOf
  <2> QED
      BY <1>1, <2>1 DEF SessionOf
<1>5. /\ \A g \in guests : g.q \in Queues /\ Drawn(g.q)'
      /\ \A q \in revoked : q \in Queues /\ Drawn(q)'
    BY <1>1 DEF Inv, Known
<1> QED
    BY <1>2, <1>3, <1>4, <1>5

LEMMA WriteRatchetTyped ==
    ASSUME TypeInv, NEW p \in Peers, NEW did, NEW s
    PROVE  LET R == WriteRatchet(p, did, s)
           IN  R = [q \in Peers |-> R[q]]
    BY DEF WriteRatchet, TypeInv

\* The parts of Inv' that a step leaves to be shown.
Follows ==
    /\ \A l \in links' : l \in links \/ LinkOf(l)'
    /\ \A w \in net' : w \in net \/ WireOf(w)'
    /\ \A x \in accepted' : x \in accepted \/ SessionOf(x)'
    /\ \A g \in guests' : g \in guests \/ (g.q \in Queues /\ Drawn(g.q)')
    /\ \A q \in revoked' : q \in revoked \/ (q \in Queues /\ Drawn(q)')

LEMMA InvFollows ==
    ASSUME Inv, Steps, accepted \subseteq accepted', Follows,
           \/ contacts' = contacts
           \/ \E p \in Peers : \E G, N :
                Changes(p, G, N) /\ \A c \in N : c \in Contact /\ RecordOf(p, c)',
           ratchet' = [q \in Peers |-> ratchet'[q]],
           removed' \in [Peers -> SUBSET Dids]
    PROVE  Inv'
<1>1. /\ contacts' \in [Peers -> SUBSET Contact]
      /\ \A q \in Peers : \A c \in contacts'[q] : c \in Contact /\ RecordOf(q, c)'
  <2>1. CASE contacts' = contacts
    <3>1. ASSUME NEW q \in Peers, NEW c \in contacts[q]
          PROVE  c \in Contact /\ RecordOf(q, c)'
      <4>1. c \in Contact /\ RecordOf(q, c) /\ c.myQ \in Queues /\ c.myDid \in Dids
          BY DEF Inv, Known, Contact
      <4> QED
          BY <4>1, MintedGrows DEF RecordOf
    <3> QED
        BY <2>1, <3>1 DEF Inv, TypeInv
  <2>2. ASSUME NEW p \in Peers, NEW G, NEW N, Changes(p, G, N),
               \A c \in N : c \in Contact /\ RecordOf(p, c)'
        PROVE  /\ contacts' \in [Peers -> SUBSET Contact]
               /\ \A q \in Peers : \A c \in contacts'[q] : c \in Contact /\ RecordOf(q, c)'
      BY <2>2, RecordsChange
  <2> QED
      BY <2>1, <2>2
<1>2. TypeInv'
    BY <1>1, MintedGrows DEF TypeInv
<1>3. Known'
    BY <1>1, OldStays DEF Known, Follows
<1> QED
    BY <1>2, <1>3 DEF Inv

LEMMA InvGenerate ==
    ASSUME Inv, Steps, NEW p \in Peers, NEW c \in Contact, NEW l, StepGenerate(p, c, l)
    PROVE  Inv'
<1>1. /\ Starts(p, c) /\ ~IsActive(c) /\ c.did = Placeholder(c.myQ) /\ l \in Link
      /\ links' = links \cup {l} /\ l.q = c.myQ /\ l.did = c.myDid /\ l.mode = c.mode
      /\ (ratchet' = ratchet \/ ratchet' = WriteRatchet(p, c.did, Prekey))
      /\ UNCHANGED <<net, accepted, guests, revoked, lapsed, removed>>
    BY DEF StepGenerate
<1>2. RecordOf(p, c)'
    BY <1>1, RecordStarts
<1>3. LinkOf(l)'
    BY <1>1, <1>2 DEF LinkOf, RecordOf
<1>4. Follows /\ accepted \subseteq accepted'
    BY <1>1, <1>3 DEF Follows
<1>5. ratchet' = [q \in Peers |-> ratchet'[q]]
    BY <1>1, WriteRatchetTyped DEF Inv, TypeInv
<1>6. Changes(p, {x \in contacts[p] : x.did = c.did}, {c})
    BY <1>1 DEF Starts
<1>7. removed' \in [Peers -> SUBSET Dids]
    BY <1>1 DEF Inv, TypeInv
<1> QED
    BY <1>2, <1>4, <1>5, <1>6, <1>7, InvFollows

LEMMA InvAccept ==
    ASSUME Inv, Steps, NEW p \in Peers, NEW c \in Contact, NEW l \in links, StepAccept(p, l, c),
           NEW b, b = (c.did \in removed[p])
    PROVE  Inv'
<1> DEFINE x == [by |-> c.myDid, of |-> c.did, session |-> Session(l, c.myQ), anew |-> b]
           w == build_inner("handshake", l.q, c.myDid, c.did, c.myQ, x.session)
<1>1. /\ Starts(p, c) /\ l.did # RealDid(p)
      /\ IsActive(c) /\ c.did = l.did /\ c.theirQ = l.q
      /\ accepted' = accepted \cup {x}
      /\ ratchet' = ratchet \/ ratchet' = WriteRatchet(p, c.did, x.session)
      /\ net' = net \/ net' = net \cup {w}
      /\ removed' = [removed EXCEPT ![p] = @ \ {c.did}]
      /\ UNCHANGED <<links, guests, revoked, lapsed>>
    BY DEF StepAccept
<1>2. LinkOf(l) /\ l.q \in Queues /\ l.did \in Dids
    BY DEF Inv, Known, LinkOf, Link
<1>3. RecordOf(p, c)'
    BY <1>1, <1>2, RecordStarts DEF LinkOf
<1>4. Draws(p) /\ c.myQ = FreshQueue(p) /\ c.myDid = DidOf(p, c.mode, minted[p] + 1)
    BY <1>1 DEF Starts
<1>5. c.myDid # c.did
  <2>1. CASE c.myDid[3] = 0
      BY <1>1, <1>3, <2>1, RealDidParts DEF RecordOf, Contact
  <2>2. CASE c.myDid[3] # 0
    <3>1. minted[p] \in Nat /\ c.myDid[3] = minted[p] + 1 /\ c.myDid[2] = p
      <4>1. minted[p] + 1 \in Nat \ {0} /\ minted[p] \in Nat
          BY <1>4, FreshIsNew DEF Inv, TypeInv
      <4>2. \A n \in Nat \ {0} : DidOf(p, c.mode, n)[2] = p /\ DidOf(p, c.mode, n)[3] \in {0, n}
          BY DidParts DEF Contact
      <4> QED
          BY <1>4, <2>2, <4>1, <4>2
    <3>2. Drawn(c.did)
        BY <1>1, <1>2 DEF LinkOf
    <3> QED
        BY <3>1, <3>2 DEF Drawn
  <2> QED
      BY <2>1, <2>2
<1>6. x.by = c.myDid /\ x.of = c.did /\ x.session = <<"session", l.q, c.myQ>>
    BY DEF Session
<1>7. SessionOf(x)'
  <2>1. c.myDid \in Dids /\ c.myQ \in Queues /\ Drawn(c.myQ)'
      BY <1>3 DEF RecordOf, Contact
  <2>2. x.session \in {"session"} \X Queues \X Queues /\ x.session[3] = c.myQ
      BY <1>2, <1>6, <2>1
  <2> QED
      BY <1>1, <1>2, <1>5, <1>6, <2>1, <2>2 DEF SessionOf
<1>8. /\ w.kind = "handshake" /\ w.from = c.myDid /\ w.seal = c.did /\ w.body = c.myQ
      /\ w.session = x.session /\ w.queue = l.q
    BY DEF build_inner
<1> HIDE DEF x, w
<1>9. WireOf(w)'
  <2>1. w.from \in Dids /\ w.seal \in Dids /\ Drawn(w.from)' /\ Drawn(w.seal)' /\ w.body \in Queues
      BY <1>1, <1>2, <1>3, <1>8 DEF RecordOf, Contact
  <2>2. x \in accepted' /\ x.by = w.from /\ x.of = w.seal /\ x.session = w.session
        /\ w.session[2] = w.queue
      BY <1>1, <1>6, <1>8
  <2> QED
      BY <2>1, <2>2 DEF WireOf
<1>10. Follows /\ accepted \subseteq accepted'
    BY <1>1, <1>7, <1>9 DEF Follows
<1>11. ratchet' = [q \in Peers |-> ratchet'[q]]
    BY <1>1, WriteRatchetTyped DEF Inv, TypeInv
<1>12. Changes(p, {y \in contacts[p] : y.did = c.did}, {c})
    BY <1>1 DEF Starts
<1>13. removed' \in [Peers -> SUBSET Dids]
    BY <1>1 DEF Inv, TypeInv
<1>14. Inv'
    BY <1>3, <1>10, <1>11, <1>12, <1>13, InvFollows
<1> QED
    BY <1>7, <1>14 DEF x

LEMMA InvHandshake ==
    ASSUME Inv, Steps, NEW p \in Peers, NEW w \in net, NEW c \in contacts[p],
           StepBoot(p, w, c) \/ \E new : StepPromote(p, w, c, new)
    PROVE  Inv'
<1>1. CASE StepBoot(p, w, c)
  <2>1. Follows /\ accepted \subseteq accepted' /\ contacts' = contacts
      BY <1>1 DEF Follows, StepBoot
  <2>2. ratchet' = [q \in Peers |-> ratchet'[q]]
      BY <1>1, WriteRatchetTyped DEF Inv, StepBoot
  <2>3. removed' \in [Peers -> SUBSET Dids]
      BY <1>1 DEF Inv, TypeInv, StepBoot
  <2> QED
      BY <2>1, <2>2, <2>3, InvFollows
<1>2. ASSUME NEW new, StepPromote(p, w, c, new)
      PROVE  Inv'
  <2> DEFINE g == [q |-> w.queue, who |-> w.from]
             v == Welcome(c.myDid, w.from, w.body, new.myQ)
             R == WriteRatchet(p, w.from, w.session)
  <2>1. /\ Draws(p) /\ Changes(p, {c}, {new}) /\ w.kind = "handshake" /\ c.myQ = w.queue
        /\ guests' = guests \cup {g}
        /\ (g \in guests /\ removed' = removed) \/ removed' = [removed EXCEPT ![p] = @ \ {w.from}]
        /\ ratchet' = R \/ ratchet' = [R EXCEPT ![p] = Restrict(@, DOMAIN @ \ {c.did})]
        /\ net' = net \/ net' = net \cup {Welcome(c.myDid, w.from, w.body, FreshQueue(p))}
        /\ UNCHANGED <<links, accepted, revoked>>
      BY <1>2 DEF StepPromote, Heard
  <2>2. /\ new \in Contact /\ RecordOf(p, new)' /\ new.did = w.from /\ new.theirQ = w.body
        /\ new.myQ = FreshQueue(p) /\ IsActive(new) /\ new.myDid = c.myDid
      BY <1>2, RecordPromoted
  <2>11. net' = net \/ net' = net \cup {v}
      BY <2>1, <2>2
  <2>3. g.q = c.myQ
      BY <2>1
  <2>4. c \in Contact /\ RecordOf(p, c) /\ c.myQ \in Queues /\ c.myDid \in Dids
      BY DEF Inv, Known, Contact
  <2>5. Drawn(c.myQ)' /\ Drawn(c.myDid)'
      BY <2>4, MintedGrows DEF RecordOf
  <2>6. v.kind = "welcome" /\ v.from = c.myDid /\ v.seal = w.from /\ v.body = new.myQ
      BY <2>2 DEF Welcome, build_inner
  <2> HIDE DEF g, v
  <2>7. WireOf(v)'
    <3>1. w.from \in Dids /\ Drawn(w.from)'
        BY <2>2 DEF RecordOf
    <3>2. v.body \in Queues
        BY <2>2, <2>6 DEF Contact
    <3> QED
        BY <2>4, <2>5, <2>6, <3>1, <3>2 DEF WireOf
  <2>8. Follows /\ accepted \subseteq accepted'
    <3>1. g.q \in Queues /\ Drawn(g.q)'
        BY <2>3, <2>4, <2>5
    <3>2. /\ links' = links /\ accepted' = accepted /\ revoked' = revoked
          /\ \A y \in net' : y \in net \/ y = v
          /\ \A y \in guests' : y \in guests \/ y = g
        BY <2>1, <2>11
    <3> QED
        BY <2>7, <3>1, <3>2 DEF Follows
  <2>9. ratchet' = [q \in Peers |-> ratchet'[q]]
    <3>1. R = [q \in Peers |-> R[q]]
        BY WriteRatchetTyped DEF Inv
    <3> HIDE DEF R
    <3> QED
        BY <2>1, <3>1
  <2>10. removed' \in [Peers -> SUBSET Dids]
      BY <2>1 DEF Inv, TypeInv
  <2> QED
      BY <2>1, <2>2, <2>8, <2>9, <2>10, InvFollows
<1> QED
    BY <1>1, <1>2

LEMMA InvOther ==
    ASSUME Inv, Steps, NEW p \in Peers, NEW c \in contacts[p],
           \/ \E new : StepUpdate(p, c, new)
           \/ \E dids : StepRemove(p, c, dids)
           \/ StepSend(p, c)
    PROVE  Inv'
<1>1. c \in Contact /\ RecordOf(p, c) /\ c.myQ \in Queues /\ c.myDid \in Dids
    BY DEF Inv, Known, Contact
<1>2. Drawn(c.myQ)' /\ Drawn(c.myDid)' /\ (IsActive(c) => Drawn(c.did)')
    BY <1>1, MintedGrows DEF RecordOf
<1>3. ASSUME NEW new, StepUpdate(p, c, new)
      PROVE  Inv'
  <2> DEFINE v == Welcome(c.myDid, c.did, c.theirQ, new.myQ)
  <2>1. /\ Changes(p, {c}, {new})
        /\ net' = net \/ (IsActive(c) /\ net' = net \cup {v})
        /\ UNCHANGED <<ratchet, links, accepted, guests, revoked, removed>>
      BY <1>3 DEF StepUpdate
  <2>2. new \in Contact /\ RecordOf(p, new)' /\ new.myQ \in Queues
      BY <1>3, RecordUpdated DEF Contact
  <2>3. v.kind = "welcome" /\ v.from = c.myDid /\ v.seal = c.did /\ v.body = new.myQ
      BY DEF Welcome, build_inner
  <2> HIDE DEF v
  <2>4. IsActive(c) => WireOf(v)'
      BY <1>1, <1>2, <2>2, <2>3 DEF WireOf, RecordOf
  <2>5. Follows /\ accepted \subseteq accepted'
      BY <2>1, <2>4 DEF Follows
  <2>6. ratchet' = [q \in Peers |-> ratchet'[q]] /\ removed' \in [Peers -> SUBSET Dids]
      BY <2>1 DEF Inv, TypeInv
  <2> QED
      BY <2>1, <2>2, <2>5, <2>6, InvFollows
<1>4. ASSUME NEW dids, StepRemove(p, c, dids)
      PROVE  Inv'
  <2>1. /\ Changes(p, {c}, {})
        /\ ratchet' = ratchet \/ ratchet' = RemoveRatchets(p, dids)
        /\ UNCHANGED <<links, net, accepted, guests>>
        /\ revoked' \subseteq revoked \cup {c.myQ}
      BY <1>4 DEF StepRemove
  <2>2. Follows /\ accepted \subseteq accepted'
      BY <1>1, <1>2, <2>1 DEF Follows
  <2>3. ratchet' = [q \in Peers |-> ratchet'[q]]
      BY <2>1 DEF Inv, TypeInv, RemoveRatchets
  <2>4. removed' \in [Peers -> SUBSET Dids]
    <3>1. IsActive(c) => c.did \in Dids
        BY <1>1 DEF RecordOf
    <3> QED
        BY <1>4, <3>1 DEF StepRemove, Inv, TypeInv
  <2> QED
      BY <2>1, <2>2, <2>3, <2>4, InvFollows
<1>5. CASE StepSend(p, c)
  <2>1. PICK s : net' = net \cup {build_inner("message", SendQueue(p, c), c.myDid, c.did, None, s)}
      BY <1>5 DEF StepSend
  <2> DEFINE v == build_inner("message", SendQueue(p, c), c.myDid, c.did, None, s)
  <2>2. v.kind = "message" /\ v.from = c.myDid /\ v.seal = c.did
      BY DEF build_inner
  <2>3. IsActive(c) /\ UNCHANGED <<contacts, ratchet, links, minted, accepted, guests, revoked, lapsed, removed>>
      BY <1>5 DEF StepSend
  <2>4. net' = net \cup {v}
      BY <2>1
  <2> HIDE DEF v
  <2>5. WireOf(v)'
      BY <1>1, <1>2, <2>2, <2>3 DEF WireOf, RecordOf
  <2>6. Follows /\ accepted \subseteq accepted'
      BY <2>3, <2>4, <2>5 DEF Follows
  <2>7. ratchet' = [q \in Peers |-> ratchet'[q]] /\ removed' \in [Peers -> SUBSET Dids]
      BY <2>3 DEF Inv, TypeInv
  <2> QED
      BY <2>3, <2>6, <2>7, InvFollows
<1> QED
    BY <1>3, <1>4, <1>5

LEMMA InvExpire ==
    ASSUME Inv, Steps, NEW l \in links, StepExpire(l)
    PROVE  Inv' /\ \A k \in links' : \E m \in links : k.q = m.q /\ k.did = m.did /\ k.mode = m.mode
<1> DEFINE k == [l EXCEPT !.expired = TRUE]
<1>1. links' = (links \ {l}) \cup {k}
    BY DEF StepExpire
<1>2. UNCHANGED <<contacts, ratchet, net, minted, accepted, guests, revoked, lapsed, removed>>
    BY DEF StepExpire
<1>3. l \in Link /\ LinkOf(l)'
    BY <1>2, OldStays DEF Inv, Known, LinkOf
<1>4. k \in Link /\ k.q = l.q /\ k.did = l.did /\ k.mode = l.mode
    BY <1>3 DEF Link
<1> HIDE DEF k
<1>5. LinkOf(k)'
    BY <1>3, <1>4 DEF LinkOf
<1>6. Follows /\ accepted \subseteq accepted'
    BY <1>1, <1>2, <1>5 DEF Follows
<1>7. ratchet' = [q \in Peers |-> ratchet'[q]] /\ removed' \in [Peers -> SUBSET Dids]
    BY <1>2 DEF Inv, TypeInv
<1>8. Inv'
    BY <1>2, <1>6, <1>7, InvFollows
<1> QED
    BY <1>1, <1>4, <1>8

LEMMA InvStep ==
    ASSUME Inv, Steps
    PROVE  Inv'
    BY InvGenerate, InvAccept, InvHandshake, InvOther, InvExpire DEF Steps

-----------------------------------------------------------------------------
(* A link lets in one guest: its queue is its record's alone, and goes when *)
(* the record is promoted or revoked.                                      *)

\* new takes the place of the records G of p: its queue is fresh or one of theirs,
\* its identity p's own, or fresh, or one of theirs.
TakesOver(p, G, new) ==
    /\ \/ new.myQ = FreshQueue(p)
       \/ \E c \in G \cap contacts[p] : new.myQ = c.myQ
    /\ \/ new.myDid[3] \in {0, minted[p] + 1}
       \/ \E c \in G \cap contacts[p] : new.myDid = c.myDid

LEMMA StaysApart ==
    ASSUME Inv, Apart, NEW p \in Peers, NEW G, NEW new, TakesOver(p, G, new), Changes(p, G, {new})
    PROVE  Apart'
<1>1. \A d \in contacts[p] : d \notin G => /\ d.myQ # new.myQ
                                           /\ d.myDid = new.myDid => d.myDid[3] = 0
  <2> SUFFICES ASSUME NEW d \in contacts[p], d \notin G
               PROVE  d.myQ # new.myQ /\ (d.myDid = new.myDid => d.myDid[3] = 0)
      OBVIOUS
  <2>1. /\ d.myQ[2] = p /\ d.myDid[2] = p /\ d.myQ[3] <= minted[p] /\ d.myDid[3] <= minted[p]
        /\ minted[p] \in Nat /\ d.myDid[3] \in Nat
      BY DEF Inv, TypeInv, Known, RecordOf, Drawn, Contact, Queues, Dids
  <2>2. FreshQueue(p)[3] = minted[p] + 1
      BY <2>1, QueueParts DEF FreshQueue
  <2>3. d.myQ # FreshQueue(p)
      BY <2>1, <2>2
  <2>4. d.myDid[3] # minted[p] + 1
      BY <2>1
  <2>5. \A c \in G \cap contacts[p] : d.myQ # c.myQ /\ (d.myDid = c.myDid => d.myDid[3] = 0)
      BY DEF Apart
  <2> QED
      BY <2>3, <2>4, <2>5 DEF TakesOver
<1>2. \A q \in Peers : \A c \in contacts'[q] :
        (c \in contacts[q] /\ (q = p => c \notin G)) \/ (q = p /\ c = new)
    BY DEF Changes
<1> QED
    BY <1>1, <1>2 DEF Apart

LEMMA LessApart ==
    ASSUME Apart, NEW p \in Peers, NEW G, Changes(p, G, {})
    PROVE  Apart'
    BY DEF Apart, Changes

LEMMA StartsTakesOver ==
    ASSUME Inv, NEW p \in Peers, NEW c, Starts(p, c)
    PROVE  /\ TakesOver(p, {x \in contacts[p] : x.did = c.did}, c)
           /\ Changes(p, {x \in contacts[p] : x.did = c.did}, {c})
<1>1. c \in Contact /\ c.myQ = FreshQueue(p) /\ c.myDid = DidOf(p, c.mode, minted[p] + 1)
    BY DEF Starts
<1>2. \A n \in Nat \ {0} : DidOf(p, c.mode, n)[3] \in {0, n}
    BY <1>1, DidParts DEF Contact
<1>3. minted[p] + 1 \in Nat \ {0}
    BY DEF Inv, TypeInv
<1>4. c.myDid[3] \in {0, minted[p] + 1}
    BY <1>1, <1>2, <1>3
<1> QED
    BY <1>1, <1>4 DEF TakesOver, Starts

LEMMA PromotedTakesOver ==
    ASSUME Inv, Steps, NEW p \in Peers, NEW w \in net, NEW c \in contacts[p], NEW new,
           StepPromote(p, w, c, new)
    PROVE  TakesOver(p, {c}, new) /\ Changes(p, {c}, {new})
<1>1. new.myQ = FreshQueue(p) /\ new.myDid = c.myDid
    BY RecordPromoted
<1>2. Changes(p, {c}, {new}) /\ c \in {c} \cap contacts[p]
    BY DEF StepPromote
<1> QED
    BY <1>1, <1>2 DEF TakesOver

LEMMA UpdatedTakesOver ==
    ASSUME NEW p \in Peers, NEW c \in contacts[p], NEW new, StepUpdate(p, c, new)
    PROVE  TakesOver(p, {c}, new) /\ Changes(p, {c}, {new})
    BY DEF TakesOver, StepUpdate, Keeps

LEMMA ApartStep ==
    ASSUME Inv, Apart, Steps
    PROVE  Apart'
<1>1. ASSUME NEW p \in Peers, NEW c \in Contact,
             (\E l : StepGenerate(p, c, l)) \/ \E l \in links : StepAccept(p, l, c)
      PROVE  Apart'
    BY <1>1, StartsTakesOver, StaysApart DEF StepGenerate, StepAccept
<1>2. ASSUME NEW p \in Peers, NEW w \in net, NEW c \in contacts[p],
             StepBoot(p, w, c) \/ \E new : StepPromote(p, w, c, new)
      PROVE  Apart'
  <2>1. CASE StepBoot(p, w, c)
      BY <2>1 DEF StepBoot, Apart
  <2>2. ASSUME NEW new, StepPromote(p, w, c, new)
        PROVE  Apart'
      BY <2>2, PromotedTakesOver, StaysApart
  <2> QED
      BY <1>2, <2>1, <2>2
<1>3. ASSUME NEW p \in Peers, NEW c \in contacts[p],
             \/ \E new : StepUpdate(p, c, new)
             \/ \E dids : StepRemove(p, c, dids)
             \/ StepSend(p, c)
      PROVE  Apart'
  <2>1. ASSUME NEW new, StepUpdate(p, c, new)
        PROVE  Apart'
      BY <2>1, UpdatedTakesOver, StaysApart
  <2>2. ASSUME NEW dids, StepRemove(p, c, dids)
        PROVE  Apart'
      BY <2>2, LessApart DEF StepRemove
  <2>3. CASE StepSend(p, c)
      BY <2>3 DEF StepSend, Apart
  <2> QED
      BY <1>3, <2>1, <2>2, <2>3
<1>4. ASSUME NEW l \in links, StepExpire(l)
      PROVE  Apart'
    BY <1>4 DEF StepExpire, Apart
<1> QED
    BY <1>1, <1>2, <1>3, <1>4 DEF Steps

\* What a step does to the queues that are used up.
LEMMA UnusedChanges ==
    ASSUME Inv, Apart, Unused, NEW p \in Peers, NEW G, NEW N, Changes(p, G, N),
           NEW U,
           \A g \in guests' : g \in guests \/ g.q \in U,
           revoked' \subseteq revoked \cup U,
           \A q \in U : \E c \in G \cap contacts[p] : c.myQ = q,
           \A new \in N : ~IsActive(new) =>
                /\ new.myQ \notin U
                /\ \/ new.myQ = FreshQueue(p)
                   \/ \E c \in contacts[p] : ~IsActive(c) /\ new.myQ = c.myQ
    PROVE  Unused'
<1>1. FreshQueue(p) \notin revoked /\ \A g \in guests : g.q # FreshQueue(p)
  <2>1. /\ minted[p] \in Nat /\ FreshQueue(p)[2] = p /\ FreshQueue(p)[3] = minted[p] + 1
    <3>1. minted[p] \in Nat
        BY DEF Inv, TypeInv
    <3>2. minted[p] + 1 \in Nat
        BY <3>1
    <3> QED
        BY <3>1, <3>2, QueueParts DEF FreshQueue
  <2>2. ~Drawn(FreshQueue(p))
      BY <2>1 DEF Drawn
  <2> QED
      BY <2>2 DEF Inv, Known
<1>2. ASSUME NEW q \in Peers, NEW d \in contacts[q], ~IsActive(d), q = p => d \notin G
      PROVE  d.myQ \notin revoked' /\ \A g \in guests' : g.q # d.myQ
  <2>1. d.myQ \notin U
    <3>1. ASSUME NEW c \in G \cap contacts[p]
          PROVE  c.myQ # d.myQ
      <4>1. d.myQ[2] = q /\ c.myQ[2] = p
          BY DEF Inv, Known, RecordOf
      <4> QED
          BY <1>2, <4>1 DEF Apart
    <3> QED
        BY <3>1
  <2>2. d.myQ \notin revoked /\ \A g \in guests : g.q # d.myQ
      BY <1>2 DEF Unused
  <2> QED
      BY <2>1, <2>2
<1>3. ASSUME NEW new \in N, ~IsActive(new)
      PROVE  new.myQ \notin revoked' /\ \A g \in guests' : g.q # new.myQ
    BY <1>1, <1>3 DEF Unused
<1>4. \A q \in Peers : \A d \in contacts'[q] :
        (d \in contacts[q] /\ (q = p => d \notin G)) \/ (q = p /\ d \in N)
    BY DEF Changes
<1> QED
    BY <1>2, <1>3, <1>4 DEF Unused

LEMMA UnusedStep ==
    ASSUME Inv, Apart, Unused, SingleUse, Steps
    PROVE  Unused' /\ SingleUse'
<1>1. ASSUME NEW p \in Peers, NEW c \in Contact,
             (\E l : StepGenerate(p, c, l)) \/ \E l \in links : StepAccept(p, l, c)
      PROVE  Unused' /\ SingleUse'
  <2>1. Starts(p, c) /\ UNCHANGED <<guests, revoked>>
      BY <1>1 DEF StepGenerate, StepAccept
  <2>2. Changes(p, {x \in contacts[p] : x.did = c.did}, {c}) /\ c.myQ = FreshQueue(p)
      BY <2>1 DEF Starts
  <2>3. Unused'
    <3> DEFINE G == {x \in contacts[p] : x.did = c.did}
               U == {}
    <3>1. /\ \A h \in guests' : h \in guests \/ h.q \in U
          /\ revoked' \subseteq revoked \cup U
          /\ \A q \in U : \E d \in G \cap contacts[p] : d.myQ = q
          /\ c.myQ \notin U
        BY <2>1
    <3> HIDE DEF G, U
    <3>2. Changes(p, G, {c})
        BY <2>2 DEF G
    <3> QED
        BY <2>2, <3>1, <3>2, UnusedChanges
  <2> QED
      BY <2>1, <2>3 DEF SingleUse
<1>2. ASSUME NEW p \in Peers, NEW w \in net, NEW c \in contacts[p],
             StepBoot(p, w, c) \/ \E new : StepPromote(p, w, c, new)
      PROVE  Unused' /\ SingleUse'
  <2>1. CASE StepBoot(p, w, c)
      BY <2>1 DEF StepBoot, Unused, SingleUse
  <2>2. ASSUME NEW new, StepPromote(p, w, c, new)
        PROVE  Unused' /\ SingleUse'
    <3> DEFINE g == [q |-> w.queue, who |-> w.from]
    <3>1. /\ guests' = guests \cup {g} /\ revoked' = revoked /\ ~IsActive(c) /\ c.myQ = w.queue
        BY <2>2 DEF StepPromote, Heard
    <3>2. g.q = c.myQ
        BY <3>1
    <3> HIDE DEF g
    <3>3. IsActive(new) /\ Changes(p, {c}, {new})
        BY <2>2, RecordPromoted, PromotedTakesOver
    <3>4. Unused'
      <4> DEFINE U == {c.myQ}
      <4>1. /\ \A h \in guests' : h \in guests \/ h.q \in U
            /\ revoked' \subseteq revoked \cup U
            /\ \A q \in U : \E d \in {c} \cap contacts[p] : d.myQ = q
          BY <3>1, <3>2
      <4> HIDE DEF U
      <4> QED
          BY <3>3, <4>1, UnusedChanges
    <3>5. c.myQ \notin revoked /\ \A h \in guests : h.q # c.myQ
        BY <3>1 DEF Unused
    <3>6. SingleUse'
        BY <3>1, <3>2, <3>5 DEF SingleUse
    <3> QED
        BY <3>4, <3>6
  <2> QED
      BY <1>2, <2>1, <2>2
<1>3. ASSUME NEW p \in Peers, NEW c \in contacts[p],
             \/ \E new : StepUpdate(p, c, new)
             \/ \E dids : StepRemove(p, c, dids)
             \/ StepSend(p, c)
      PROVE  Unused' /\ SingleUse'
  <2>1. ASSUME NEW new, StepUpdate(p, c, new)
        PROVE  Unused' /\ SingleUse'
    <3>1. /\ Changes(p, {c}, {new}) /\ UNCHANGED <<guests, revoked>>
          /\ (new.myQ = c.myQ \/ new.myQ = FreshQueue(p)) /\ (IsActive(new) <=> IsActive(c))
        BY <2>1 DEF StepUpdate, Keeps, IsActive
    <3>2. Unused'
      <4> DEFINE U == {}
      <4>1. /\ \A h \in guests' : h \in guests \/ h.q \in U
            /\ revoked' \subseteq revoked \cup U
            /\ \A q \in U : \E d \in {c} \cap contacts[p] : d.myQ = q
            /\ new.myQ \notin U
          BY <3>1
      <4> HIDE DEF U
      <4> QED
          BY <3>1, <4>1, UnusedChanges
    <3> QED
        BY <3>1, <3>2 DEF SingleUse
  <2>2. ASSUME NEW dids, StepRemove(p, c, dids)
        PROVE  Unused' /\ SingleUse'
    <3>1. /\ Changes(p, {c}, {}) /\ guests' = guests
          /\ \/ ~IsActive(c) /\ revoked' = revoked \cup {c.myQ}
             \/ revoked' = revoked
        BY <2>2 DEF StepRemove
    <3>2. Unused'
      <4> DEFINE U == {c.myQ}
      <4>1. /\ \A h \in guests' : h \in guests \/ h.q \in U
            /\ revoked' \subseteq revoked \cup U
            /\ \A q \in U : \E d \in {c} \cap contacts[p] : d.myQ = q
          BY <3>1
      <4> HIDE DEF U
      <4> QED
          BY <3>1, <4>1, UnusedChanges
    <3>3. ~IsActive(c) => \A h \in guests : h.q # c.myQ
        BY DEF Unused
    <3> QED
        BY <3>1, <3>2, <3>3 DEF SingleUse
  <2>3. CASE StepSend(p, c)
      BY <2>3 DEF StepSend, Unused, SingleUse
  <2> QED
      BY <1>3, <2>1, <2>2, <2>3
<1>4. ASSUME NEW l \in links, StepExpire(l)
      PROVE  Unused' /\ SingleUse'
    BY <1>4 DEF StepExpire, Unused, SingleUse
<1> QED
    BY <1>1, <1>2, <1>3, <1>4 DEF Steps

LEMMA InvInit ==
    ASSUME Init
    PROVE  Inv /\ Apart /\ Unused /\ SingleUse
<1>1. TypeInv
    BY DEF Init, TypeInv
<1>2. Known /\ Apart /\ Unused /\ SingleUse
    BY DEF Init, Known, Apart, Unused, SingleUse
<1> QED
    BY <1>1, <1>2 DEF Inv

LEMMA InvStutters ==
    ASSUME Inv, Apart, Unused, SingleUse, UNCHANGED vars
    PROVE  Inv' /\ Apart' /\ Unused' /\ SingleUse'
<1>1. TypeInv'
    BY DEF vars, Inv, TypeInv
<1>2. Known'
    BY DEF vars, Inv, Known, RecordOf, LinkOf, WireOf, SessionOf, Drawn
<1>3. Apart' /\ Unused' /\ SingleUse'
    BY DEF vars, Apart, Unused, SingleUse
<1> QED
    BY <1>1, <1>2, <1>3 DEF Inv

-----------------------------------------------------------------------------
(* Sessions: what dm/ratchet holds under a did comes from a link accepted   *)
(* between its owner and us.                                               *)

LEMMA OnceBefore ==
    ASSUME accepted \subseteq accepted', NEW p, NEW q, Once(p, q)'
    PROVE  Once(p, q)
    BY DEF Once, Between

\* The key that opens what comes in on a contact's current queue is that contact's.
LEMMA KeyIsTheContacts ==
    ASSUME Apart, NEW p \in Peers, NEW c \in contacts[p]
    PROVE  KeyFor(p, c.myQ) = c.myDid
<1>1. \A d \in contacts[p] : d.myQ = c.myQ => d = c
    BY DEF Apart
<1>2. (CHOOSE d \in contacts[p] : d.myQ = c.myQ) = c
    BY <1>1
<1> QED
    BY <1>2 DEF KeyFor

LEMMA HeardSession ==
    ASSUME Inv, Apart, NEW p \in Peers, NEW w \in net, NEW c \in contacts[p], Heard(p, w, c)
    PROVE  /\ w.seal = c.myDid /\ Owner(c.myDid) = p /\ w.from \in Dids /\ Drawn(w.from)
           /\ \E x \in accepted : /\ x.by = w.from /\ x.of = c.myDid /\ x.session = w.session
                                  /\ x.session[2] = c.myQ /\ x.by # x.of
<1>1. w.seal = c.myDid
    BY KeyIsTheContacts DEF Heard
<1>2. c.myDid[2] = p /\ WireOf(w)
    BY DEF Inv, Known, RecordOf
<1>3. PICK x \in accepted : x.by = w.from /\ x.of = w.seal /\ x.session = w.session
                            /\ w.session[2] = w.queue
    BY <1>2 DEF WireOf, Heard
<1>4. SessionOf(x)
    BY DEF Inv, Known
<1> QED
    BY <1>1, <1>2, <1>3, <1>4 DEF Owner, WireOf, SessionOf, Heard

\* What r holds for p comes from the links in A.
Sessions(A, p, r) ==
    \A did \in DOMAIN r :
        did \in Dids => \E x \in A : x.session = r[did] /\ Between(x, p, Owner(did))

LEMMA SessionsWritten ==
    ASSUME NEW p \in Peers, ratchet = [q \in Peers |-> ratchet[q]], NEW did, NEW s, NEW r,
           r = WriteRatchet(p, did, s), accepted \subseteq accepted',
           \A q \in Peers : Sessions(accepted, q, ratchet[q]),
           did \in Dids => \E x \in accepted' : x.session = s /\ Between(x, p, Owner(did))
    PROVE  /\ \A q \in Peers : Sessions(accepted', q, r[q])
           /\ \A q \in Peers : DOMAIN r[q] = IF q = p THEN DOMAIN ratchet[p] \cup {did}
                                                      ELSE DOMAIN ratchet[q]
<1>1. r[p] = [d \in DOMAIN ratchet[p] \cup {did} |-> IF d = did THEN s ELSE ratchet[p][d]]
    BY DEF WriteRatchet
<1>2. \A q \in Peers \ {p} : r[q] = ratchet[q]
    BY DEF WriteRatchet
<1>3. \A q \in Peers \ {p} : Sessions(accepted', q, r[q])
    BY <1>2 DEF Sessions, Between
<1>4. Sessions(accepted', p, r[p])
    BY <1>1 DEF Sessions, Between
<1> QED
    BY <1>1, <1>2, <1>3, <1>4

SessAll == \A p \in Peers : Sessions(accepted, p, ratchet[p])

LEMMA SessionsSame ==
    ASSUME SessAll, accepted' = accepted, ratchet' = ratchet
    PROVE  SessAll'
    BY DEF SessAll, Sessions, Between

Forgets(p, r, S) == [r EXCEPT ![p] = Restrict(@, DOMAIN @ \ S)]

LEMMA SessionsFewer ==
    ASSUME NEW p \in Peers, NEW r, r = [q \in Peers |-> r[q]], NEW S, NEW A,
           \A q \in Peers : Sessions(A, q, r[q])
    PROVE  \A q \in Peers : Sessions(A, q, Forgets(p, r, S)[q])
<1> DEFINE T == Forgets(p, r, S)
<1>1. \A q \in Peers \ {p} : T[q] = r[q]
    BY DEF Forgets
<1>2. T[p] = [d \in DOMAIN r[p] \ S |-> r[p][d]]
    BY DEF Restrict, Forgets
<1> HIDE DEF T
<1>3. Sessions(A, p, T[p])
    BY <1>2 DEF Sessions
<1>4. \A q \in Peers : Sessions(A, q, T[q])
    BY <1>1, <1>3
<1> QED
    BY <1>4 DEF T

LEMMA SessionsStep ==
    ASSUME Inv, Apart, SessAll, Steps
    PROVE  SessAll'
<1> \A q \in Peers : Sessions(accepted, q, ratchet[q])
    BY DEF SessAll
<1> ratchet = [q \in Peers |-> ratchet[q]]
    BY DEF Inv, TypeInv
<1>1. ASSUME NEW p \in Peers, NEW c \in Contact, NEW l, StepGenerate(p, c, l)
      PROVE  SessAll'
  <2>1. /\ c.did \notin Dids /\ accepted' = accepted
        /\ (ratchet' = ratchet \/ ratchet' = WriteRatchet(p, c.did, Prekey))
      BY <1>1, PlaceholderIsNoDid DEF StepGenerate
  <2>2. CASE ratchet' = ratchet
      BY <2>1, <2>2, SessionsSame
  <2>3. CASE ratchet' = WriteRatchet(p, c.did, Prekey)
      BY <2>1, <2>3, SessionsWritten DEF SessAll
  <2> QED
      BY <2>1, <2>2, <2>3
<1>2. ASSUME NEW p \in Peers, NEW c \in Contact, NEW l \in links, StepAccept(p, l, c)
      PROVE  SessAll'
  <2> DEFINE s == Session(l, c.myQ)
             x == [by |-> c.myDid, of |-> c.did, session |-> s, anew |-> c.did \in removed[p]]
  <2>1. accepted' = accepted \cup {x} /\ (ratchet' = ratchet \/ ratchet' = WriteRatchet(p, c.did, s))
      BY <1>2 DEF StepAccept
  <2>2. x.by = c.myDid /\ x.of = c.did /\ x.session = s
      OBVIOUS
  <2>3. Owner(c.myDid) = p
      BY <1>2, RecordStarts DEF StepAccept, RecordOf, Owner, Inv, Known, LinkOf, Link
  <2> HIDE DEF x, s
  <2>4. Between(x, p, Owner(c.did)) /\ x \in accepted' /\ accepted \subseteq accepted'
      BY <2>1, <2>2, <2>3 DEF Between
  <2>5. CASE ratchet' = ratchet
      BY <2>4, <2>5 DEF SessAll, Sessions, Between
  <2>6. CASE ratchet' = WriteRatchet(p, c.did, s)
      BY <2>2, <2>4, <2>6, SessionsWritten DEF SessAll
  <2> QED
      BY <2>1, <2>5, <2>6
<1>3. ASSUME NEW p \in Peers, NEW w \in net, NEW c \in contacts[p],
             StepBoot(p, w, c) \/ \E new : StepPromote(p, w, c, new)
      PROVE  SessAll'
  <2> DEFINE r == WriteRatchet(p, w.from, w.session)
  <2>1. /\ Heard(p, w, c) /\ accepted' = accepted
        /\ ratchet' = r \/ ratchet' = [r EXCEPT ![p] = Restrict(@, DOMAIN @ \ {c.did})]
      BY <1>3 DEF StepBoot, StepPromote
  <2>2. \E x \in accepted' : x.session = w.session /\ Between(x, p, Owner(w.from))
      BY <2>1, HeardSession DEF Between
  <2>3. \A q \in Peers : Sessions(accepted', q, r[q])
      BY <2>1, <2>2, SessionsWritten
  <2>4. r = [q \in Peers |-> r[q]]
      BY WriteRatchetTyped DEF Inv
  <2> HIDE DEF r
  <2>5. CASE ratchet' = r
      BY <2>3, <2>5 DEF SessAll, Sessions, Between
  <2>6. CASE ratchet' = [r EXCEPT ![p] = Restrict(@, DOMAIN @ \ {c.did})]
    <3>1. ratchet' = Forgets(p, r, {c.did})
        BY <2>6 DEF Forgets
    <3>2. \A q \in Peers : Sessions(accepted', q, Forgets(p, r, {c.did})[q])
        BY <2>3, <2>4, SessionsFewer
    <3> QED
        BY <3>1, <3>2 DEF SessAll
  <2> QED
      BY <2>1, <2>5, <2>6
<1>4. ASSUME NEW p \in Peers, NEW c \in contacts[p], NEW dids, StepRemove(p, c, dids)
      PROVE  SessAll'
  <2>1. accepted' = accepted
      BY <1>4 DEF StepRemove
  <2>2. CASE ratchet' = ratchet
      BY <2>1, <2>2, SessionsSame
  <2>3. CASE ratchet' = RemoveRatchets(p, dids)
    <3>1. \A q \in Peers : Sessions(accepted', q, ratchet[q])
        BY <2>1 DEF Sessions, Between
    <3>2. ratchet' = Forgets(p, ratchet, dids)
        BY <2>3 DEF RemoveRatchets, Forgets
    <3>3. \A q \in Peers : Sessions(accepted', q, Forgets(p, ratchet, dids)[q])
        BY <3>1, SessionsFewer
    <3> QED
        BY <3>2, <3>3 DEF SessAll
  <2> QED
      BY <1>4, <2>2, <2>3 DEF StepRemove
<1>5. ASSUME NEW p \in Peers, NEW c \in contacts[p], (\E new : StepUpdate(p, c, new)) \/ StepSend(p, c)
      PROVE  SessAll'
    BY <1>5, SessionsSame DEF StepUpdate, StepSend
<1>6. ASSUME NEW l \in links, StepExpire(l)
      PROVE  SessAll'
    BY <1>6, SessionsSame DEF StepExpire
<1> QED
    BY <1>1, <1>2, <1>3, <1>4, <1>5, <1>6 DEF Steps

\* Those connected one way accepted one link, or the same peer accepted no other.
LEMMA OneWayOnce ==
    ASSUME Inv, Unique, NEW p, NEW q, OneWay(p, q)
    PROVE  Once(p, q)
<1> SUFFICES ASSUME NEW x \in accepted, NEW y \in accepted, Between(x, p, q), Between(y, p, q)
             PROVE  x = y
    BY DEF Once
<1>1. x.of = y.of /\ ~x.anew /\ ~y.anew
    BY DEF OneWay
<1>2. Owner(x.by) = Owner(y.by)
    BY <1>1 DEF Between
<1> QED
    BY <1>1, <1>2 DEF Unique

LEMMA SessionsThenAgree ==
    ASSUME Inv, SessAll, Unique
    PROVE  SessionsAgree
<1> SUFFICES ASSUME NEW p \in Peers, NEW q \in Peers, OneWay(p, q),
                    NEW c \in contacts[p], NEW d \in contacts[q], Linked(c, d),
                    c.did \in DOMAIN ratchet[p], d.did \in DOMAIN ratchet[q]
             PROVE  ratchet[p][c.did] = ratchet[q][d.did]
    BY DEF SessionsAgree
<1>1. /\ c.did \in Dids /\ d.did \in Dids /\ Owner(c.did) = q /\ Owner(d.did) = p
    BY DEF Inv, Known, RecordOf, Linked, Owner
<1>2. PICK x \in accepted : x.session = ratchet[p][c.did] /\ Between(x, p, q)
    BY <1>1 DEF SessAll, Sessions
<1>3. PICK y \in accepted : y.session = ratchet[q][d.did] /\ Between(y, q, p)
    BY <1>1 DEF SessAll, Sessions
<1>4. Between(y, p, q)
    BY <1>3 DEF Between
<1>5. x = y
    BY <1>2, <1>4, OneWayOnce DEF Once
<1> QED
    BY <1>2, <1>3, <1>5

-----------------------------------------------------------------------------
(* A deleted conversation does not come back: an active record stems from a *)
(* link accepted between the two, and where that is the only one, so is the *)
(* record, and no handshake of another is left to bring it back.            *)

\* The record c of p stems from the accepted link x.
StemsFrom(G, p, c, x) ==
    \/ x.of = c.did /\ Owner(x.by) = p
    \/ x.by = c.did /\ Owner(x.of) = p /\ \E g \in G : g.q = x.session[2]

LEMMA OriginStep ==
    ASSUME Inv, Apart, Origin, Steps
    PROVE  Origin'
<1> DEFINE Has(G, A, p, c) == \E x \in A : StemsFrom(G, p, c, x)
<1>1. Origin <=> \A p \in Peers : \A c \in contacts[p] : IsActive(c) => Has(guests, accepted, p, c)
    BY DEF Origin, StemsFrom
<1>2. Origin' <=> \A p \in Peers : \A c \in contacts'[p] :
                    IsActive(c) => Has(guests', accepted', p, c)
    BY DEF Origin, StemsFrom
<1>3. \A p, c : guests \subseteq guests' /\ accepted \subseteq accepted' /\ Has(guests, accepted, p, c)
                => Has(guests', accepted', p, c)
    BY DEF StemsFrom
<1>4. ASSUME NEW p \in Peers, NEW G, NEW N, Changes(p, G, N),
             guests \subseteq guests', accepted \subseteq accepted',
             \A c \in N : IsActive(c) => Has(guests', accepted', p, c)
      PROVE  Origin'
  <2>1. \A q \in Peers : \A c \in contacts'[q] : c \in contacts[q] \/ (q = p /\ c \in N)
      BY <1>4 DEF Changes
  <2> HIDE DEF Has
  <2> QED
      BY <1>1, <1>2, <1>3, <1>4, <2>1
<1>5. ASSUME contacts' = contacts, guests' = guests, accepted' = accepted
      PROVE  Origin'
    BY <1>1, <1>2, <1>5
<1>6. ASSUME NEW p \in Peers, NEW c \in Contact, NEW l, StepGenerate(p, c, l)
      PROVE  Origin'
  <2>1. /\ Changes(p, {x \in contacts[p] : x.did = c.did}, {c})
        /\ ~IsActive(c) /\ guests' = guests /\ accepted' = accepted
      BY <1>6 DEF StepGenerate, Starts
  <2> HIDE DEF Has
  <2> QED
      BY <1>4, <2>1
<1>7. ASSUME NEW p \in Peers, NEW c \in Contact, NEW l \in links, StepAccept(p, l, c)
      PROVE  Origin'
  <2> DEFINE x == [by |-> c.myDid, of |-> c.did, session |-> Session(l, c.myQ),
                   anew |-> c.did \in removed[p]]
  <2>1. /\ Changes(p, {y \in contacts[p] : y.did = c.did}, {c})
        /\ guests' = guests /\ accepted' = accepted \cup {x}
      BY <1>7 DEF StepAccept, Starts
  <2>2. Owner(c.myDid) = p
      BY <1>7, RecordStarts DEF StepAccept, RecordOf, Owner, Inv, Known, LinkOf, Link
  <2>3. x \in accepted' /\ x.of = c.did /\ Owner(x.by) = p
      BY <2>1, <2>2
  <2> HIDE DEF x
  <2>4. Has(guests', accepted', p, c)
      BY <2>3 DEF StemsFrom
  <2> HIDE DEF Has
  <2> QED
      BY <1>4, <2>1, <2>4
<1>8. ASSUME NEW p \in Peers, NEW w \in net, NEW c \in contacts[p], NEW new, StepPromote(p, w, c, new)
      PROVE  Origin'
  <2> DEFINE g == [q |-> w.queue, who |-> w.from]
  <2>1. Heard(p, w, c) /\ guests' = guests \cup {g} /\ accepted' = accepted
      BY <1>8 DEF StepPromote
  <2>2. Changes(p, {c}, {new}) /\ new.did = w.from
      BY <1>8, PromotedTakesOver, RecordPromoted
  <2>3. PICK x \in accepted : x.by = w.from /\ x.of = c.myDid /\ x.session[2] = c.myQ
      BY <2>1, HeardSession
  <2>4. Owner(c.myDid) = p
      BY <2>1, HeardSession
  <2>5. g \in guests' /\ g.q = c.myQ
      BY <2>1 DEF Heard
  <2> HIDE DEF g
  <2>6. StemsFrom(guests', p, new, x)
      BY <2>2, <2>3, <2>4, <2>5 DEF StemsFrom
  <2>7. Has(guests', accepted', p, new) /\ guests \subseteq guests'
      BY <2>1, <2>6
  <2> HIDE DEF Has
  <2> QED
      BY <1>4, <2>1, <2>2, <2>7
<1>9. ASSUME NEW p \in Peers, NEW c \in contacts[p], NEW new, StepUpdate(p, c, new)
      PROVE  Origin'
  <2>1. /\ Changes(p, {c}, {new}) /\ guests' = guests /\ accepted' = accepted
        /\ new.did = c.did /\ (IsActive(new) <=> IsActive(c))
      BY <1>9 DEF StepUpdate, Keeps, IsActive
  <2>2. IsActive(c) => Has(guests, accepted, p, new)
      BY <1>1, <2>1 DEF StemsFrom
  <2> HIDE DEF Has
  <2> QED
      BY <1>4, <2>1, <2>2
<1>10. ASSUME NEW p \in Peers, NEW c \in contacts[p], NEW dids, StepRemove(p, c, dids)
       PROVE  Origin'
  <2>1. Changes(p, {c}, {}) /\ guests' = guests /\ accepted' = accepted
      BY <1>10 DEF StepRemove
  <2> HIDE DEF Has
  <2> QED
      BY <1>4, <2>1
<1>11. ASSUME NEW p \in Peers, NEW w, NEW c, StepBoot(p, w, c) \/ StepSend(p, c)
       PROVE  Origin'
    BY <1>5, <1>11 DEF StepBoot, StepSend
<1>12. ASSUME NEW l \in links, StepExpire(l)
       PROVE  Origin'
    BY <1>5, <1>12 DEF StepExpire
<1> HIDE DEF Has
<1> QED
    BY <1>6, <1>7, <1>8, <1>9, <1>10, <1>11, <1>12 DEF Steps

\* A handshake for a pending record comes from nobody we have a record of already,
\* where one link was accepted.
LEMMA NoSecondRecord ==
    ASSUME Inv, Apart, Unused, Origin, NEW p \in Peers, NEW w \in net, NEW c \in contacts[p],
           Heard(p, w, c), Once(p, Owner(w.from)), NEW d \in contacts[p], IsActive(d)
    PROVE  d.did # w.from
<1> SUFFICES ASSUME d.did = w.from
             PROVE  FALSE
    OBVIOUS
<1>1. PICK x \in accepted : /\ x.by = w.from /\ x.of = c.myDid /\ x.session[2] = c.myQ
                            /\ x.by # x.of
    BY HeardSession
<1>2. Owner(c.myDid) = p
    BY HeardSession
<1>3. PICK y \in accepted : StemsFrom(guests, p, d, y)
    BY DEF Origin, StemsFrom
<1>4. Between(x, p, Owner(w.from)) /\ Between(y, p, Owner(w.from))
    BY <1>1, <1>2, <1>3 DEF StemsFrom, Between
<1>5. x = y
    BY <1>4 DEF Once
<1>6. \E g \in guests : g.q = c.myQ
    BY <1>1, <1>3, <1>5 DEF StemsFrom
<1> QED
    BY <1>6 DEF Unused, Heard

\* new comes for G, as the only record of its did, or for one of that did.
OnlyOne(p, G, new) ==
    IsActive(new) /\ Once(p, Owner(new.did)) =>
        \/ \A d \in contacts[p] : IsActive(d) /\ d.did = new.did => d \in G
        \/ \E c \in G \cap contacts[p] : IsActive(c) /\ c.did = new.did

LEMMA OneEachChanges ==
    ASSUME OneEach, NEW p \in Peers, NEW G, NEW N, Changes(p, G, N), accepted \subseteq accepted',
           \A c, d \in N : c = d, \A new \in N : OnlyOne(p, G, new)
    PROVE  OneEach'
<1>1. ASSUME NEW c \in N, NEW d \in contacts[p], d \notin G, IsActive(c), IsActive(d),
             c.did = d.did, Once(p, Owner(c.did))
      PROVE  FALSE
    BY <1>1 DEF OnlyOne, OneEach
<1>2. \A q \in Peers : \A c \in contacts'[q] :
        (c \in contacts[q] /\ (q = p => c \notin G)) \/ (q = p /\ c \in N)
    BY DEF Changes
<1> SUFFICES ASSUME NEW q \in Peers, NEW c \in contacts'[q], NEW d \in contacts'[q],
                    IsActive(c), IsActive(d), c.did = d.did, Once(q, Owner(c.did))'
             PROVE  c = d
    BY DEF OneEach
<1>3. Once(q, Owner(c.did))
    BY OnceBefore
<1>4. c \in contacts[q] /\ d \in contacts[q] => c = d
    BY <1>3 DEF OneEach
<1>5. c \in N /\ d \in N => c = d
    OBVIOUS
<1> QED
    BY <1>1, <1>2, <1>3, <1>4, <1>5

LEMMA OneEachStep ==
    ASSUME Inv, Apart, Unused, Origin, OneEach, Steps
    PROVE  OneEach'
<1>1. ASSUME NEW p \in Peers, NEW c \in Contact,
             (\E l : StepGenerate(p, c, l)) \/ \E l \in links : StepAccept(p, l, c)
      PROVE  OneEach'
  <2> DEFINE G == {x \in contacts[p] : x.did = c.did}
             N == {c}
  <2>1. Changes(p, G, N) /\ accepted \subseteq accepted'
      BY <1>1 DEF StepGenerate, StepAccept, Starts
  <2>2. \A new \in N : OnlyOne(p, G, new)
      BY DEF OnlyOne
  <2>3. \A x, y \in N : x = y
      OBVIOUS
  <2> HIDE DEF G, N
  <2> QED
      BY <2>1, <2>2, <2>3, OneEachChanges
<1>2. ASSUME NEW p \in Peers, NEW w \in net, NEW c \in contacts[p], NEW new, StepPromote(p, w, c, new)
      PROVE  OneEach'
  <2> DEFINE G == {c}
             N == {new}
  <2>1. Changes(p, G, N) /\ new.did = w.from
      BY <1>2, PromotedTakesOver, RecordPromoted
  <2>2. Heard(p, w, c) /\ accepted' = accepted
      BY <1>2 DEF StepPromote
  <2>3. OnlyOne(p, G, new)
      BY <2>1, <2>2, NoSecondRecord DEF OnlyOne
  <2>4. (\A x \in N : OnlyOne(p, G, x)) /\ \A x, y \in N : x = y
      BY <2>3
  <2> HIDE DEF G, N
  <2> QED
      BY <2>1, <2>2, <2>4, OneEachChanges
<1>3. ASSUME NEW p \in Peers, NEW c \in contacts[p], NEW new, StepUpdate(p, c, new)
      PROVE  OneEach'
  <2> DEFINE G == {c}
             N == {new}
  <2>1. Changes(p, G, N) /\ accepted' = accepted /\ new.did = c.did /\ (IsActive(new) <=> IsActive(c))
      BY <1>3 DEF StepUpdate, Keeps, IsActive
  <2>2. (\A x \in N : OnlyOne(p, G, x)) /\ \A x, y \in N : x = y
      BY <2>1 DEF OnlyOne
  <2> HIDE DEF G, N
  <2> QED
      BY <2>1, <2>2, OneEachChanges
<1>4. ASSUME NEW p \in Peers, NEW c \in contacts[p], NEW dids, StepRemove(p, c, dids)
      PROVE  OneEach'
  <2> DEFINE N == {}
  <2>1. Changes(p, {c}, N) /\ accepted' = accepted
      BY <1>4 DEF StepRemove
  <2>2. (\A x \in N : OnlyOne(p, {c}, x)) /\ \A x, y \in N : x = y
      OBVIOUS
  <2> HIDE DEF N
  <2> QED
      BY <2>1, <2>2, OneEachChanges
<1>5. ASSUME contacts' = contacts, accepted' = accepted
      PROVE  OneEach'
    BY <1>5 DEF OneEach, Once, Between
<1>6. ASSUME NEW p \in Peers, NEW w, NEW c, StepBoot(p, w, c) \/ StepSend(p, c)
      PROVE  OneEach'
    BY <1>5, <1>6 DEF StepBoot, StepSend
<1>7. ASSUME NEW l \in links, StepExpire(l)
      PROVE  OneEach'
    BY <1>5, <1>7 DEF StepExpire
<1> QED
    BY <1>1, <1>2, <1>3, <1>4, <1>6, <1>7 DEF Steps

LEMMA DeletedStep ==
    ASSUME Inv, Apart, Unused, Origin, OneEach, StaysDeleted, Steps
    PROVE  StaysDeleted'
<1> removed \in [Peers -> SUBSET Dids]
    BY DEF Inv, TypeInv
\* A step that brings at most one record, whose did it takes off the list.
<1>1. ASSUME NEW p \in Peers, NEW G, NEW N, Changes(p, G, N), accepted \subseteq accepted',
             \A q \in Peers : removed'[q] \subseteq removed[q],
             \A c \in N : IsActive(c) =>
                 \/ c.did \notin removed'[p]
                 \/ \E d \in contacts[p] : IsActive(d) /\ d.did = c.did
      PROVE  StaysDeleted'
  <2> SUFFICES ASSUME NEW q \in Peers, NEW c \in contacts'[q], IsActive(c), Once(q, Owner(c.did))'
               PROVE  c.did \notin removed'[q]
      BY DEF StaysDeleted
  <2>1. Once(q, Owner(c.did))
      BY <1>1, OnceBefore
  <2>2. c \in contacts[q] \/ (q = p /\ c \in N)
      BY <1>1 DEF Changes
  <2> QED
      BY <1>1, <2>1, <2>2 DEF StaysDeleted
<1>2. ASSUME NEW p \in Peers, NEW c \in Contact, NEW l, StepGenerate(p, c, l)
      PROVE  StaysDeleted'
    BY <1>1, <1>2 DEF StepGenerate, Starts
<1>3. ASSUME NEW p \in Peers, NEW c \in Contact, NEW l \in links, StepAccept(p, l, c)
      PROVE  StaysDeleted'
  <2>1. /\ Changes(p, {x \in contacts[p] : x.did = c.did}, {c}) /\ accepted \subseteq accepted'
        /\ removed' = [removed EXCEPT ![p] = @ \ {c.did}]
      BY <1>3 DEF StepAccept, Starts
  <2>2. c.did \notin removed'[p] /\ \A q \in Peers : removed'[q] \subseteq removed[q]
      BY <2>1
  <2> QED
      BY <1>1, <2>1, <2>2
<1>4. ASSUME NEW p \in Peers, NEW w \in net, NEW c \in contacts[p], NEW new, StepPromote(p, w, c, new)
      PROVE  StaysDeleted'
  <2> DEFINE g == [q |-> w.queue, who |-> w.from]
  <2>1. /\ Heard(p, w, c) /\ accepted' = accepted
        /\ g \in guests \/ removed' = [removed EXCEPT ![p] = @ \ {w.from}]
      BY <1>4 DEF StepPromote
  <2>2. g.q = c.myQ /\ ~IsActive(c)
      BY <2>1 DEF Heard
  <2> HIDE DEF g
  <2>3. removed' = [removed EXCEPT ![p] = @ \ {w.from}]
      BY <2>1, <2>2 DEF Unused
  <2>4. Changes(p, {c}, {new}) /\ new.did = w.from
      BY <1>4, PromotedTakesOver, RecordPromoted
  <2>5. new.did \notin removed'[p] /\ \A q \in Peers : removed'[q] \subseteq removed[q]
      BY <2>3, <2>4
  <2> QED
      BY <1>1, <2>1, <2>4, <2>5
<1>5. ASSUME NEW p \in Peers, NEW c \in contacts[p], NEW new, StepUpdate(p, c, new)
      PROVE  StaysDeleted'
  <2>1. /\ Changes(p, {c}, {new}) /\ accepted' = accepted /\ removed' = removed
        /\ new.did = c.did /\ (IsActive(new) <=> IsActive(c))
      BY <1>5 DEF StepUpdate, Keeps, IsActive
  <2> QED
      BY <1>1, <2>1
<1>6. ASSUME NEW p \in Peers, NEW c \in contacts[p], NEW dids, StepRemove(p, c, dids)
      PROVE  StaysDeleted'
  <2>1. Changes(p, {c}, {}) /\ accepted' = accepted
      BY <1>6 DEF StepRemove
  <2>2. CASE removed' = removed
      BY <1>1, <2>1, <2>2
  <2>3. CASE IsActive(c) /\ removed' = [removed EXCEPT ![p] = @ \cup {c.did}]
    <3> SUFFICES ASSUME NEW q \in Peers, NEW d \in contacts'[q], IsActive(d), Once(q, Owner(d.did))'
                 PROVE  d.did \notin removed'[q]
        BY DEF StaysDeleted
    <3>1. Once(q, Owner(d.did))
        BY <2>1, OnceBefore
    <3>2. d \in contacts[q] /\ (q = p => d # c)
        BY <2>1 DEF Changes
    <3>3. d.did \notin removed[q]
        BY <3>1, <3>2 DEF StaysDeleted
    <3>4. q = p => d.did # c.did
        BY <2>3, <3>1, <3>2 DEF OneEach
    <3> QED
        BY <2>3, <3>3, <3>4
  <2> QED
      BY <1>6, <2>2, <2>3 DEF StepRemove
<1>7. ASSUME contacts' = contacts, accepted' = accepted, removed' = removed
      PROVE  StaysDeleted'
    BY <1>7 DEF StaysDeleted, Once, Between
<1>8. ASSUME NEW p \in Peers, NEW w, NEW c, StepBoot(p, w, c) \/ StepSend(p, c)
      PROVE  StaysDeleted'
    BY <1>7, <1>8 DEF StepBoot, StepSend
<1>9. ASSUME NEW l \in links, StepExpire(l)
      PROVE  StaysDeleted'
    BY <1>7, <1>9 DEF StepExpire
<1> QED
    BY <1>2, <1>3, <1>4, <1>5, <1>6, <1>8, <1>9 DEF Steps

-----------------------------------------------------------------------------
(* Nothing is stranded, where both ends of an invite chose one mode.       *)

SameModes == \A x \in Pairings : x[1] = x[2]

LEMMA ModesStep ==
    ASSUME SameModes, Inv, Apart, ModesAgree, Steps
    PROVE  ModesAgree'
<1> DEFINE RecordOK(c) == IsActive(c) => ((c.did[3] = 0) <=> (c.myDid[3] = 0))
           WireOK(w) == /\ w.kind = "handshake" => ((w.from[3] = 0) <=> (w.seal[3] = 0))
                        /\ w.kind = "message" => /\ (w.seal[3] = 0) <=> (w.from[3] = 0)
                                                 /\ w.seal[3] = 0 => w.queue = PairQueue(w.seal, w.from)
<1>1. (\A p \in Peers : \A c \in contacts[p] : RecordOK(c)) /\ \A w \in net : WireOK(w)
    BY DEF ModesAgree
<1>2. ASSUME \A p \in Peers : \A c \in contacts'[p] : c \in contacts[p] \/ RecordOK(c),
             \A w \in net' : w \in net \/ WireOK(w)
      PROVE  ModesAgree'
  <2>1. (\A p \in Peers : \A c \in contacts'[p] : RecordOK(c)) /\ \A w \in net' : WireOK(w)
    <3> HIDE DEF RecordOK, WireOK
    <3> QED
        BY <1>1, <1>2
  <2> QED
      BY <2>1 DEF ModesAgree
<1>3. ASSUME NEW p \in Peers, NEW G, NEW c, Changes(p, G, {c}), RecordOK(c),
             \A w \in net' : w \in net \/ WireOK(w)
      PROVE  ModesAgree'
  <2>1. \A q \in Peers : \A d \in contacts'[q] : d \in contacts[q] \/ d = c
      BY <1>3 DEF Changes
  <2> HIDE DEF RecordOK, WireOK
  <2> QED
      BY <1>2, <1>3, <2>1
<1>4. ASSUME NEW p \in Peers, NEW c \in Contact, NEW l, StepGenerate(p, c, l)
      PROVE  ModesAgree'
  <2>1. RecordOK(c) /\ Changes(p, {x \in contacts[p] : x.did = c.did}, {c}) /\ net' = net
      BY <1>4 DEF StepGenerate, Starts
  <2> HIDE DEF RecordOK, WireOK
  <2> QED
      BY <1>3, <2>1
<1>5. ASSUME NEW p \in Peers, NEW c \in Contact, NEW l \in links, StepAccept(p, l, c)
      PROVE  ModesAgree'
  <2> DEFINE s == Session(l, c.myQ)
             w == build_inner("handshake", l.q, c.myDid, c.did, c.myQ, s)
  <2>1. /\ Starts(p, c) /\ <<l.mode, c.mode>> \in Pairings /\ c.did = l.did /\ IsActive(c)
        /\ c.theirQ = l.q
      BY <1>5 DEF StepAccept
  <2>2. LinkOf(l) /\ l \in Link
      BY DEF Inv, Known, LinkOf
  <2>3. RecordOf(p, c)'
      BY <2>1, <2>2, RecordStarts DEF LinkOf, Link
  <2>4. l.mode = c.mode
    <3>1. <<l.mode, c.mode>>[1] = <<l.mode, c.mode>>[2]
        BY <2>1 DEF SameModes
    <3> QED
        BY <3>1
  <2>5. (c.did[3] = 0) <=> (c.myDid[3] = 0)
      BY <2>1, <2>2, <2>3, <2>4 DEF LinkOf, RecordOf
  <2>6. w.kind = "handshake" /\ w.from = c.myDid /\ w.seal = c.did
      BY DEF build_inner
  <2>7. net' = net \/ net' = net \cup {w}
      BY <1>5 DEF StepAccept
  <2> HIDE DEF w
  <2>8. WireOK(w) /\ RecordOK(c)
      BY <2>5, <2>6
  <2>9. Changes(p, {x \in contacts[p] : x.did = c.did}, {c})
      BY <2>1 DEF Starts
  <2> HIDE DEF RecordOK, WireOK
  <2> QED
      BY <1>3, <2>7, <2>8, <2>9
<1>6. ASSUME NEW p \in Peers, NEW w \in net, NEW c \in contacts[p], NEW new, StepPromote(p, w, c, new)
      PROVE  ModesAgree'
  <2> DEFINE v == Welcome(c.myDid, w.from, w.body, FreshQueue(p))
  <2>1. Heard(p, w, c) /\ (net' = net \/ net' = net \cup {v})
      BY <1>6 DEF StepPromote
  <2>2. w.seal = c.myDid /\ w.kind = "handshake"
      BY <2>1, HeardSession DEF Heard
  <2>3. Changes(p, {c}, {new}) /\ new.did = w.from /\ new.myDid = c.myDid
      BY <1>6, PromotedTakesOver, RecordPromoted, ZenonT(60)
  <2>4. (w.from[3] = 0) <=> (w.seal[3] = 0)
      BY <2>2 DEF ModesAgree
  <2>5. v.kind = "welcome"
      BY DEF Welcome, build_inner
  <2> HIDE DEF v
  <2>6. WireOK(v) /\ RecordOK(new)
      BY <2>2, <2>3, <2>4, <2>5
  <2> HIDE DEF RecordOK, WireOK
  <2> QED
      BY <1>3, <2>1, <2>3, <2>6
<1>7. ASSUME NEW p \in Peers, NEW c \in contacts[p], NEW new, StepUpdate(p, c, new)
      PROVE  ModesAgree'
  <2> DEFINE v == Welcome(c.myDid, c.did, c.theirQ, new.myQ)
  <2>1. Changes(p, {c}, {new}) /\ (net' = net \/ net' = net \cup {v})
      BY <1>7 DEF StepUpdate
  <2>2. new.did = c.did /\ new.myDid = c.myDid /\ (IsActive(new) <=> IsActive(c))
      BY <1>7 DEF StepUpdate, Keeps, IsActive
  <2>3. v.kind = "welcome"
      BY DEF Welcome, build_inner
  <2> HIDE DEF v
  <2>4. WireOK(v) /\ RecordOK(new)
      BY <1>1, <2>2, <2>3
  <2> HIDE DEF RecordOK, WireOK
  <2> QED
      BY <1>3, <2>1, <2>4
<1>8. ASSUME NEW p \in Peers, NEW c \in contacts[p], NEW dids, StepRemove(p, c, dids)
      PROVE  ModesAgree'
  <2>1. net' = net /\ \A q \in Peers : \A d \in contacts'[q] : d \in contacts[q]
      BY <1>8 DEF StepRemove, Changes
  <2> HIDE DEF RecordOK, WireOK
  <2> QED
      BY <1>2, <2>1
<1>9. ASSUME NEW p \in Peers, NEW c \in contacts[p], StepSend(p, c)
      PROVE  ModesAgree'
  <2>1. PICK s : net' = net \cup {build_inner("message", SendQueue(p, c), c.myDid, c.did, None, s)}
      BY <1>9 DEF StepSend
  <2> DEFINE v == build_inner("message", SendQueue(p, c), c.myDid, c.did, None, s)
  <2>2. /\ v.kind = "message" /\ v.from = c.myDid /\ v.seal = c.did /\ v.queue = SendQueue(p, c)
        /\ net' = net \cup {v}
      BY <2>1 DEF build_inner
  <2>3. IsActive(c) /\ contacts' = contacts
      BY <1>9 DEF StepSend
  <2>4. /\ c.myDid \in Dids /\ c.myDid[2] = p /\ ((c.mode = "regular") <=> (c.myDid[3] = 0))
        /\ (c.did[3] = 0) <=> (c.myDid[3] = 0)
      BY <1>1, <2>3 DEF Inv, Known, RecordOf, Contact
  <2>5. c.myDid[3] = 0 => SendQueue(p, c) = PairQueue(c.did, c.myDid)
      BY <2>4, RealDidParts DEF SendQueue
  <2> HIDE DEF v
  <2>6. WireOK(v)
      BY <2>2, <2>4, <2>5
  <2> HIDE DEF RecordOK, WireOK
  <2> QED
      BY <1>2, <2>2, <2>3, <2>6
<1>10. ASSUME NEW p \in Peers, NEW w, NEW c, StepBoot(p, w, c)
       PROVE  ModesAgree'
    BY <1>10 DEF StepBoot, ModesAgree
<1>11. ASSUME NEW l \in links, StepExpire(l)
       PROVE  ModesAgree'
    BY <1>11 DEF StepExpire, ModesAgree
<1> HIDE DEF RecordOK, WireOK
<1> QED
    BY <1>4, <1>5, <1>6, <1>7, <1>8, <1>9, <1>10, <1>11 DEF Steps

\* Whoever is told of is somebody that was drawn.
LEMMA ToldIsDrawn ==
    ASSUME Inv, NEW did, NEW q, Told(did, q)
    PROVE  did \in Dids /\ Drawn(did)
    BY DEF Told, Inv, Known, LinkOf, Link, RecordOf, WireOf

\* new keeps G's queues, or has an identity nobody was told of.
Inherits(p, G, new) ==
    \/ \E c \in G \cap contacts[p] :
         /\ c.myDid = new.myDid
         /\ \A v : OwnsInboundQueue(c, v) => OwnsInboundQueue(new, v) \/ v \in lapsed'
    \/ \A q : ~Told(new.myDid, q)

LEMMA HomeChanges ==
    ASSUME Inv', Apart', Home, NEW p \in Peers, NEW G, NEW N, Changes(p, G, N),
           lapsed \subseteq lapsed',
           \A new \in N : new.myDid[3] # 0 => Inherits(p, G, new),
           \A did, q : Told(did, q)' =>
               Told(did, q) \/ did[3] = 0 \/ \E new \in N : did = new.myDid /\ q = new.myQ
    PROVE  Home'
<1> SUFFICES ASSUME NEW r \in Peers, NEW c \in contacts'[r], c.myDid[3] # 0,
                    NEW q, Told(c.myDid, q)'
             PROVE  OwnsInboundQueue(c, q) \/ q \in lapsed'
    BY DEF Home, OwnsInboundQueue
<1>1. (c \in contacts[r]) \/ (r = p /\ c \in N)
    BY DEF Changes
<1>2. CASE Told(c.myDid, q)
  <2>1. c \in contacts[r] => OwnsInboundQueue(c, q) \/ q \in lapsed
      BY <1>2 DEF Home
  <2>2. ASSUME r = p, c \in N
        PROVE  OwnsInboundQueue(c, q) \/ q \in lapsed'
    <3>1. PICK d \in contacts[p] :
            /\ d.myDid = c.myDid
            /\ \A v : OwnsInboundQueue(d, v) => OwnsInboundQueue(c, v) \/ v \in lapsed'
        BY <1>2, <2>2 DEF Inherits
    <3>2. OwnsInboundQueue(d, q) \/ q \in lapsed
        BY <1>2, <3>1 DEF Home
    <3> QED
        BY <3>1, <3>2
  <2> QED
      BY <1>1, <2>1, <2>2
<1>3. CASE \E new \in N : c.myDid = new.myDid /\ q = new.myQ
  <2>1. PICK new \in N : c.myDid = new.myDid /\ q = new.myQ
      BY <1>3
  <2>2. new \in contacts'[p]
      BY DEF Changes
  <2>3. r = p
    <3>1. c.myDid[2] = r /\ new.myDid[2] = p
        BY <2>2 DEF Inv, Known, RecordOf
    <3> QED
        BY <2>1, <3>1
  <2>4. c = new
      BY <2>1, <2>2, <2>3 DEF Apart
  <2> QED
      BY <2>1, <2>4 DEF OwnsInboundQueue
<1> QED
    BY <1>2, <1>3

LEMMA HomeStep ==
    ASSUME SameModes, Inv, Apart, ModesAgree, Home, Steps, Inv', Apart'
    PROVE  Home'
<1>1. ASSUME NEW p \in Peers, NEW c \in Contact, Starts(p, c)
      PROVE  /\ Changes(p, {x \in contacts[p] : x.did = c.did}, {c})
             /\ c.myDid[3] # 0 => Inherits(p, {x \in contacts[p] : x.did = c.did}, c)
  <2>1. /\ c.myDid = DidOf(p, c.mode, minted[p] + 1) /\ minted[p] \in Nat /\ minted[p] + 1 \in Nat \ {0}
        /\ c.mode \in Modes
      BY <1>1 DEF Starts, Inv, TypeInv, Contact
  <2>2. \A n \in Nat \ {0} : DidOf(p, c.mode, n)[2] = p /\ DidOf(p, c.mode, n)[3] \in {0, n}
      BY <2>1, DidParts
  <2>3. c.myDid[3] # 0 => ~Drawn(c.myDid)
      BY <2>1, <2>2 DEF Drawn
  <2> QED
      BY <1>1, <2>3, ToldIsDrawn DEF Inherits, Starts
<1>2. ASSUME NEW p \in Peers, NEW c \in Contact, NEW l, StepGenerate(p, c, l)
      PROVE  Home'
  <2> DEFINE G == {x \in contacts[p] : x.did = c.did}
             N == {c}
  <2>1. Changes(p, G, N) /\ \A new \in N : new.myDid[3] # 0 => Inherits(p, G, new)
      BY <1>1, <1>2 DEF StepGenerate
  <2>2. /\ ~IsActive(c) /\ links' = links \cup {l} /\ l.q = c.myQ /\ l.did = c.myDid
        /\ net' = net /\ lapsed' = lapsed
      BY <1>2 DEF StepGenerate
  <2>3. \A q \in Peers : \A d \in contacts'[q] : d \in contacts[q] \/ d = c
      BY <2>1 DEF Changes
  <2>4. \A did, q : Told(did, q)' => Told(did, q) \/ (did = c.myDid /\ q = c.myQ)
      BY <2>2, <2>3 DEF Told
  <2>5. c \in N
      OBVIOUS
  <2> HIDE DEF G, N
  <2> QED
      BY <2>1, <2>2, <2>4, <2>5, HomeChanges
<1>3. ASSUME NEW p \in Peers, NEW c \in Contact, NEW l \in links, StepAccept(p, l, c)
      PROVE  Home'
  <2> DEFINE G == {x \in contacts[p] : x.did = c.did}
             N == {c}
             s == Session(l, c.myQ)
             w == build_inner("handshake", l.q, c.myDid, c.did, c.myQ, s)
  <2>1. Changes(p, G, N) /\ \A new \in N : new.myDid[3] # 0 => Inherits(p, G, new)
      BY <1>1, <1>3 DEF StepAccept
  <2>2. /\ c.did = l.did /\ c.theirQ = l.q /\ links' = links /\ lapsed' = lapsed
        /\ (net' = net \/ net' = net \cup {w})
      BY <1>3 DEF StepAccept
  <2>3. \A q \in Peers : \A d \in contacts'[q] : d \in contacts[q] \/ d = c
      BY <2>1 DEF Changes
  <2>4. w.kind = "handshake" /\ w.from = c.myDid /\ w.body = c.myQ
      BY DEF build_inner
  <2>5. c \in N
      OBVIOUS
  <2> HIDE DEF G, N, w
  <2>6. \A did, q : Told(did, q)' => Told(did, q) \/ (did = c.myDid /\ q = c.myQ)
      BY <2>2, <2>3, <2>4 DEF Told
  <2> QED
      BY <2>1, <2>2, <2>5, <2>6, HomeChanges
<1>4. ASSUME NEW p \in Peers, NEW w \in net, NEW c \in contacts[p], NEW new, StepPromote(p, w, c, new)
      PROVE  Home'
  <2> DEFINE G == {c}
             N == {new}
             v == Welcome(c.myDid, w.from, w.body, FreshQueue(p))
  <2>1. /\ Changes(p, G, N) /\ new.did = w.from /\ new.theirQ = w.body /\ new.myQ = FreshQueue(p)
        /\ new.myDid = c.myDid /\ new.retired = c.retired
      BY <1>4, PromotedTakesOver, RecordPromoted, ZenonT(60)
  <2>2. /\ w.kind = "handshake" /\ c.myQ = w.queue /\ links' = links
        /\ lapsed' = lapsed \cup {w.queue} /\ (net' = net \/ net' = net \cup {v})
      BY <1>4 DEF StepPromote, Heard
  <2>3. \A q \in Peers : \A d \in contacts'[q] : d \in contacts[q] \/ d = new
      BY <2>1 DEF Changes
  <2>4. v.kind = "welcome" /\ v.from = new.myDid /\ v.body = new.myQ
      BY <2>1 DEF Welcome, build_inner
  <2>5. new \in N /\ c \in G \cap contacts[p]
      OBVIOUS
  <2>6. \A q : OwnsInboundQueue(c, q) => OwnsInboundQueue(new, q) \/ q \in lapsed'
      BY <2>1, <2>2 DEF OwnsInboundQueue
  <2>7. \A d \in N : d.myDid[3] # 0 => Inherits(p, G, d)
      BY <2>1, <2>5, <2>6 DEF Inherits
  <2> HIDE DEF G, N, v
  <2>8. \A did, q : Told(did, q)' => Told(did, q) \/ (did = new.myDid /\ q = new.myQ)
      BY <2>1, <2>2, <2>3, <2>4 DEF Told
  <2>9. lapsed \subseteq lapsed'
      BY <2>2
  <2> QED
      BY <2>1, <2>5, <2>7, <2>8, <2>9, HomeChanges
<1>5. ASSUME NEW p \in Peers, NEW c \in contacts[p], NEW new, StepUpdate(p, c, new)
      PROVE  Home'
  <2> DEFINE G == {c}
             N == {new}
             v == Welcome(c.myDid, c.did, c.theirQ, new.myQ)
  <2>1. /\ Changes(p, G, N) /\ new.did = c.did /\ new.myDid = c.myDid
        /\ (IsActive(new) <=> IsActive(c)) /\ lapsed \subseteq lapsed' /\ links' = links
        /\ \A q : OwnsInboundQueue(c, q) => OwnsInboundQueue(new, q) \/ q \in lapsed'
      BY <1>5 DEF StepUpdate, Keeps, IsActive
  <2>2. /\ net' = net \/ net' = net \cup {v}
        /\ \/ new.theirQ = c.theirQ
           \/ \E w \in net : w.kind = "welcome" /\ w.from = c.did /\ new.theirQ = w.body
      BY <1>5 DEF StepUpdate
  <2>3. \A q \in Peers : \A d \in contacts'[q] : d \in contacts[q] \/ d = new
      BY <2>1 DEF Changes
  <2>4. v.kind = "welcome" /\ v.from = new.myDid /\ v.body = new.myQ
      BY <2>1 DEF Welcome, build_inner
  <2>5. new \in N /\ c \in G \cap contacts[p]
      OBVIOUS
  <2>6. \A d \in N : d.myDid[3] # 0 => Inherits(p, G, d)
      BY <2>1, <2>5 DEF Inherits
  <2> HIDE DEF G, N, v
  <2>7. \A did, q : Told(did, q)' => Told(did, q) \/ (did = new.myDid /\ q = new.myQ)
      BY <2>1, <2>2, <2>3, <2>4 DEF Told
  <2> QED
      BY <2>1, <2>5, <2>6, <2>7, HomeChanges
<1>6. ASSUME NEW p \in Peers, NEW c \in contacts[p], NEW dids, StepRemove(p, c, dids)
      PROVE  Home'
  <2> DEFINE N == {}
  <2>1. Changes(p, {c}, N) /\ links' = links /\ net' = net /\ lapsed' = lapsed
      BY <1>6 DEF StepRemove
  <2>2. \A q \in Peers : \A d \in contacts'[q] : d \in contacts[q]
      BY <2>1 DEF Changes
  <2>3. \A did, q : Told(did, q)' => Told(did, q)
      BY <2>1, <2>2 DEF Told
  <2>4. \A d \in N : d.myDid[3] # 0 => Inherits(p, {c}, d)
      OBVIOUS
  <2> HIDE DEF N
  <2> QED
      BY <2>1, <2>3, <2>4, HomeChanges
<1>7. ASSUME contacts' = contacts, lapsed' = lapsed,
             \A did, q : Told(did, q)' => Told(did, q) \/ did[3] = 0
      PROVE  Home'
    BY <1>7 DEF Home, OwnsInboundQueue
<1>8. ASSUME NEW p \in Peers, NEW c \in contacts[p], StepSend(p, c)
      PROVE  Home'
  <2>1. PICK s : net' = net \cup {build_inner("message", SendQueue(p, c), c.myDid, c.did, None, s)}
      BY <1>8 DEF StepSend
  <2> DEFINE v == build_inner("message", SendQueue(p, c), c.myDid, c.did, None, s)
  <2>2. v.kind = "message" /\ v.seal = c.did /\ v.queue = SendQueue(p, c) /\ net' = net \cup {v}
      BY <2>1 DEF build_inner
  <2> HIDE DEF v
  <2>3. IsActive(c) /\ contacts' = contacts /\ links' = links /\ lapsed' = lapsed
      BY <1>8 DEF StepSend
  <2>4. \A did, q : Told(did, q)' => Told(did, q) \/ (did = c.did /\ q = SendQueue(p, c))
      BY <2>2, <2>3 DEF Told
  <2>5. c.did[3] = 0 \/ SendQueue(p, c) = c.theirQ
      BY <2>3 DEF ModesAgree, Inv, Known, RecordOf, SendQueue
  <2>6. Told(c.did, c.theirQ)
      BY <2>3 DEF Told
  <2> QED
      BY <1>7, <2>3, <2>4, <2>5, <2>6
<1>9. ASSUME NEW p \in Peers, NEW w, NEW c, StepBoot(p, w, c)
      PROVE  Home'
    BY <1>7, <1>9 DEF StepBoot, Told
<1>10. ASSUME NEW l \in links, StepExpire(l)
       PROVE  Home'
  <2>1. \A k \in links' : \E m \in links : k.q = m.q /\ k.did = m.did
      BY <1>10, InvExpire
  <2>2. contacts' = contacts /\ net' = net /\ lapsed' = lapsed
      BY <1>10 DEF StepExpire
  <2>3. \A did, q : Told(did, q)' => Told(did, q)
      BY <2>1, <2>2 DEF Told
  <2> QED
      BY <1>7, <2>2, <2>3
<1> QED
    BY <1>2, <1>3, <1>4, <1>5, <1>6, <1>8, <1>9, <1>10 DEF Steps

LEMMA HomeThenNothingStranded ==
    ASSUME Inv, ModesAgree, Home
    PROVE  NothingStranded
<1> SUFFICES ASSUME NEW p \in Peers, NEW c \in contacts[p], NEW w \in net,
                    w.kind = "message", IsActive(c), w.from = c.did, w.seal = c.myDid
             PROVE  OwnsInboundQueueWith(p, c, w.queue) \/ w.queue \in lapsed
    BY DEF NothingStranded
<1>1. c.myDid \in Dids /\ c.myDid[2] = p /\ ((c.mode = "regular") <=> (c.myDid[3] = 0))
    BY DEF Inv, Known, RecordOf, Contact
<1>2. CASE c.myDid[3] = 0
  <2>1. w.queue = PairQueue(c.myDid, c.did)
      BY <1>2 DEF ModesAgree
  <2>2. c.myDid = RealDid(p)
      BY <1>1, <1>2, RealDidParts
  <2> QED
      BY <1>1, <1>2, <2>1, <2>2 DEF OwnsInboundQueueWith
<1>3. CASE c.myDid[3] # 0
  <2>1. Told(c.myDid, w.queue)
      BY DEF Told
  <2> QED
      BY <1>3, <2>1 DEF Home, OwnsInboundQueueWith
<1> QED
    BY <1>2, <1>3

-----------------------------------------------------------------------------
(* What was accepted is remembered.                                        *)

LEMMA RememberedStep ==
    ASSUME Inv, Remembered, Steps
    PROVE  Remembered'
<1> removed \in [Peers -> SUBSET Dids] /\ \A x \in accepted : x.by \in Dids /\ x.of \in Dids
    BY DEF Inv, TypeInv, Known, SessionOf
\* A step that accepts nothing: an active record that goes leaves one of its did,
\* or its did on the list of those removed.
<1>1. ASSUME NEW p \in Peers, NEW G, NEW N, Changes(p, G, N), accepted' = accepted,
             \A q \in Peers \ {p} : removed[q] \subseteq removed'[q],
             \A did \in removed[p] : did \in removed'[p] \/ \E c \in N : IsActive(c) /\ c.did = did,
             \A c \in G \cap contacts[p] : IsActive(c) =>
                 c.did \in removed'[p] \/ \E d \in N : IsActive(d) /\ d.did = c.did
      PROVE  Remembered'
  <2> SUFFICES ASSUME NEW x \in accepted
               PROVE  IsContact(Owner(x.by), x.of)' \/ x.of \in removed'[Owner(x.by)]
      BY <1>1 DEF Remembered
  <2> DEFINE q == Owner(x.by)
  <2>1. q \in Peers
      BY DEF Owner, Dids
  <2>2. /\ \A c \in contacts[q] : (q = p /\ c \in G) \/ c \in contacts'[q]
        /\ q = p => \A c \in N : c \in contacts'[q]
      BY <1>1, <2>1 DEF Changes
  <2>3. (\E c \in contacts[q] : c.did = x.of /\ IsActive(c)) \/ x.of \in removed[q]
      BY DEF Remembered, IsContact
  <2> HIDE DEF q
  <2>4. (\E c \in contacts'[q] : c.did = x.of /\ IsActive(c)) \/ x.of \in removed'[q]
      BY <1>1, <2>1, <2>2, <2>3
  <2> QED
      BY <2>4 DEF q, IsContact
<1>2. ASSUME NEW p \in Peers, NEW c \in Contact, NEW l, StepGenerate(p, c, l)
      PROVE  Remembered'
  <2>1. /\ Changes(p, {x \in contacts[p] : x.did = c.did}, {c}) /\ accepted' = accepted
        /\ removed' = removed /\ c.did = Placeholder(c.myQ)
      BY <1>2 DEF StepGenerate, Starts
  <2>2. \A x \in contacts[p] : IsActive(x) => x.did # c.did
      BY <2>1, PlaceholderIsNoDid DEF Inv, Known, RecordOf
  <2> QED
      BY <1>1, <2>1, <2>2
<1>3. ASSUME NEW p \in Peers, NEW c \in Contact, NEW l \in links, StepAccept(p, l, c)
      PROVE  Remembered'
  <2> DEFINE x == [by |-> c.myDid, of |-> c.did, session |-> Session(l, c.myQ),
                   anew |-> c.did \in removed[p]]
  <2>1. /\ Changes(p, {y \in contacts[p] : y.did = c.did}, {c}) /\ IsActive(c)
        /\ accepted' = accepted \cup {x}
        /\ removed' = [removed EXCEPT ![p] = @ \ {c.did}]
      BY <1>3 DEF StepAccept, Starts
  <2>2. Owner(c.myDid) = p
      BY <1>3, RecordStarts DEF StepAccept, RecordOf, Owner, Inv, Known, LinkOf, Link
  <2>3. x.by = c.myDid /\ x.of = c.did
      OBVIOUS
  <2> HIDE DEF x
  <2>4. c \in contacts'[p]
      BY <2>1 DEF Changes
  <2>5. SUFFICES ASSUME NEW y \in accepted'
                 PROVE  IsContact(Owner(y.by), y.of)' \/ y.of \in removed'[Owner(y.by)]
      BY DEF Remembered
  <2>6. CASE y = x
      BY <2>1, <2>2, <2>3, <2>4, <2>6 DEF IsContact
  <2>7. CASE y \in accepted
    <3> DEFINE q == Owner(y.by)
    <3>1. q \in Peers
        BY <2>7 DEF Owner, Dids
    <3>2. (\E d \in contacts[q] : d.did = y.of /\ IsActive(d)) \/ y.of \in removed[q]
        BY <2>7 DEF Remembered, IsContact
    <3>3. \A d \in contacts[q] : d \in contacts'[q] \/ (q = p /\ d.did = c.did)
        BY <2>1, <3>1 DEF Changes
    <3> HIDE DEF q
    <3>4. (\E d \in contacts'[q] : d.did = y.of /\ IsActive(d)) \/ y.of \in removed'[q]
        BY <2>1, <2>4, <3>1, <3>2, <3>3
    <3> QED
        BY <3>4 DEF q, IsContact
  <2> QED
      BY <2>1, <2>6, <2>7
<1>4. ASSUME NEW p \in Peers, NEW w \in net, NEW c \in contacts[p], NEW new, StepPromote(p, w, c, new)
      PROVE  Remembered'
  <2>1. /\ Changes(p, {c}, {new}) /\ accepted' = accepted /\ ~IsActive(c)
        /\ removed' = removed \/ removed' = [removed EXCEPT ![p] = @ \ {w.from}]
      BY <1>4 DEF StepPromote, Heard
  <2>2. new.did = w.from /\ IsActive(new)
      BY <1>4, PromotedTakesOver, RecordPromoted
  <2> DEFINE N == {new}
             G == {c}
  <2>3. \E d \in N : IsActive(d) /\ d.did = w.from
      BY <2>2
  <2>4. \A d \in G : ~IsActive(d)
      BY <2>1
  <2>5. Changes(p, G, N)
      BY <2>1
  <2> HIDE DEF N, G
  <2>6. /\ \A q \in Peers \ {p} : removed[q] \subseteq removed'[q]
        /\ \A did \in removed[p] : did \in removed'[p] \/ did = w.from
      BY <2>1
  <2> QED
      BY <1>1, <2>1, <2>3, <2>4, <2>5, <2>6
<1>5. ASSUME NEW p \in Peers, NEW c \in contacts[p], NEW new, StepUpdate(p, c, new)
      PROVE  Remembered'
  <2>1. /\ Changes(p, {c}, {new}) /\ accepted' = accepted /\ removed' = removed
        /\ new.did = c.did /\ (IsActive(new) <=> IsActive(c))
      BY <1>5 DEF StepUpdate, Keeps, IsActive
  <2> QED
      BY <1>1, <2>1
<1>6. ASSUME NEW p \in Peers, NEW c \in contacts[p], NEW dids, StepRemove(p, c, dids)
      PROVE  Remembered'
  <2>1. /\ Changes(p, {c}, {}) /\ accepted' = accepted
        /\ \/ ~IsActive(c) /\ removed' = removed
           \/ removed' = [removed EXCEPT ![p] = @ \cup {c.did}]
      BY <1>6 DEF StepRemove
  <2>2. IsActive(c) => c.did \in removed'[p]
      BY <2>1
  <2>3. \A q \in Peers : removed[q] \subseteq removed'[q]
      BY <2>1
  <2> QED
      BY <1>1, <2>1, <2>2, <2>3
<1>7. ASSUME contacts' = contacts, accepted' = accepted, removed' = removed
      PROVE  Remembered'
    BY <1>7 DEF Remembered, IsContact
<1>8. ASSUME NEW p \in Peers, NEW w, NEW c, StepBoot(p, w, c) \/ StepSend(p, c)
      PROVE  Remembered'
    BY <1>7, <1>8 DEF StepBoot, StepSend
<1>9. ASSUME NEW l \in links, StepExpire(l)
      PROVE  Remembered'
    BY <1>7, <1>9 DEF StepExpire
<1> QED
    BY <1>2, <1>3, <1>4, <1>5, <1>6, <1>8, <1>9 DEF Steps

LEMMA UniqueStep ==
    ASSUME Inv, Remembered, Unique, Steps
    PROVE  Unique'
<1>1. ASSUME accepted' = accepted
      PROVE  Unique'
    BY <1>1 DEF Unique
<1>2. ASSUME NEW p \in Peers, NEW c \in Contact, NEW l \in links, StepAccept(p, l, c)
      PROVE  Unique'
  <2> DEFINE x == [by |-> c.myDid, of |-> c.did, session |-> Session(l, c.myQ),
                   anew |-> c.did \in removed[p]]
  <2>1. accepted' = accepted \cup {x} /\ ~IsContact(p, c.did)
      BY <1>2 DEF StepAccept
  <2>2. Owner(c.myDid) = p
      BY <1>2, RecordStarts DEF StepAccept, RecordOf, Owner, Inv, Known, LinkOf, Link
  <2>3. x.by = c.myDid /\ x.of = c.did /\ (x.anew <=> c.did \in removed[p])
      OBVIOUS
  <2> HIDE DEF x
  <2>4. ASSUME NEW y \in accepted, Owner(y.by) = Owner(x.by), y.of = x.of, ~x.anew
        PROVE  FALSE
      BY <2>1, <2>2, <2>3, <2>4 DEF Remembered
  <2> QED
      BY <2>1, <2>4 DEF Unique
<1>3. ASSUME NEW p, NEW c,
             \/ \E l : StepGenerate(p, c, l)
             \/ \E w : StepBoot(p, w, c) \/ \E new : StepPromote(p, w, c, new)
             \/ \E new : StepUpdate(p, c, new)
             \/ \E dids : StepRemove(p, c, dids)
             \/ StepSend(p, c)
      PROVE  accepted' = accepted
    BY <1>3 DEF StepGenerate, StepBoot, StepPromote, StepUpdate, StepRemove, StepSend
<1>4. ASSUME NEW l, StepExpire(l)
      PROVE  accepted' = accepted
    BY <1>4 DEF StepExpire
<1> QED
    BY <1>1, <1>2, <1>3, <1>4 DEF Steps

-----------------------------------------------------------------------------
(* The theorems.                                                           *)

InviteInv ==
    /\ Inv /\ Apart /\ Unused /\ SingleUse /\ SessAll /\ Origin /\ OneEach /\ StaysDeleted
    /\ Remembered /\ Unique

LEMMA InviteInvInit ==
    ASSUME Init
    PROVE  InviteInv /\ ModesAgree /\ Home
<1>1. TypeInv
    BY DEF Init, TypeInv
<1>2. Known /\ Apart /\ Unused /\ SingleUse /\ Origin /\ OneEach /\ StaysDeleted
    BY DEF Init, Known, Apart, Unused, SingleUse, Origin, OneEach, StaysDeleted
<1>3. SessAll /\ Remembered /\ Unique
    BY DEF Init, SessAll, Sessions, Remembered, Unique
<1>4. ModesAgree /\ Home
    BY DEF Init, ModesAgree, Home
<1> QED
    BY <1>1, <1>2, <1>3, <1>4 DEF InviteInv, Inv

LEMMA InviteInvStutters ==
    ASSUME InviteInv, UNCHANGED vars
    PROVE  InviteInv' /\ (ModesAgree => ModesAgree') /\ (Home => Home')
<1>1. TypeInv'
    BY DEF vars, InviteInv, Inv, TypeInv
<1>2. Known'
    BY DEF vars, InviteInv, Inv, Known, RecordOf, LinkOf, WireOf, SessionOf, Drawn
<1>3. Apart' /\ Unused' /\ SingleUse'
    BY DEF vars, InviteInv, Apart, Unused, SingleUse
<1>4. SessAll' /\ Origin'
    BY DEF vars, InviteInv, SessAll, Sessions, Origin
<1>5. OneEach' /\ StaysDeleted'
    BY DEF vars, InviteInv, OneEach, StaysDeleted, Once, Between
<1>7. Remembered' /\ Unique'
    BY DEF vars, InviteInv, Remembered, Unique, IsContact
<1>6. (ModesAgree => ModesAgree') /\ (Home => Home')
    BY DEF vars, ModesAgree, Home, Told, OwnsInboundQueue
<1> QED
    BY <1>1, <1>2, <1>3, <1>4, <1>5, <1>6, <1>7 DEF InviteInv, Inv

LEMMA InviteInvNext ==
    ASSUME InviteInv, Next
    PROVE  InviteInv' /\ Steps
    BY Shapes, InvStep, ApartStep, UnusedStep, SessionsStep, OriginStep, OneEachStep, DeletedStep,
       RememberedStep, UniqueStep
       DEF InviteInv

LEMMA InviteInvariant == Spec => []InviteInv
<1>1. Init => InviteInv
    BY InviteInvInit
<1>2. InviteInv /\ [Next]_vars => InviteInv'
    BY InviteInvNext, InviteInvStutters
<1> QED
    BY <1>1, <1>2, PTL DEF Spec

\* A link lets in one guest at most, and none once it was revoked, whatever is
\* delivered late or again and wherever a handler is cut: receive_handshake moves
\* the pending record to a fresh queue before anyone else can use the link's.
THEOREM InviteSingleUse == Spec => []SingleUse
<1>1. InviteInv => SingleUse
    BY DEF InviteInv
<1> QED
    BY <1>1, InviteInvariant, PTL

\* The two ends of a conversation hold one ratchet session, if they are connected
\* one way: receive_handshake takes the session of a handshake only under the key
\* of the record it is for, accept_invite draws a session of its own, and accepts
\* nobody who is a contact already.
THEOREM InviteSessionsAgree == Spec => []SessionsAgree
<1>1. InviteInv => SessionsAgree
    BY SessionsThenAgree DEF InviteInv
<1> QED
    BY <1>1, InviteInvariant, PTL

\* What delete_conversation removed stays removed, if the two are connected one
\* way: no handshake, welcome or message that comes late makes the contact anew.
THEOREM InviteDeletedStaysDeleted == Spec => []DeletedStaysDeleted
<1>1. InviteInv => DeletedStaysDeleted
    BY OneWayOnce DEF InviteInv, DeletedStaysDeleted, StaysDeleted
<1> QED
    BY <1>1, InviteInvariant, PTL

\* send_body_to_contact sends to a queue that its recipient owns for the
\* conversation, or that it retired for good, whatever rotations and welcomes are
\* on their way, if the two ends of an invite use one mode (with different modes
\* see the run of PairQueuesMeet).
THEOREM InviteNothingStranded ==
    ASSUME SameModes
    PROVE  Spec => []NothingStranded
<1> DEFINE HomeInv == InviteInv /\ ModesAgree /\ Home
<1>1. Init => HomeInv
    BY InviteInvInit
<1>2. HomeInv /\ [Next]_vars => HomeInv'
  <2>1. HomeInv /\ Next => HomeInv'
      BY InviteInvNext, ModesStep, HomeStep DEF InviteInv
  <2>2. HomeInv /\ UNCHANGED vars => HomeInv'
      BY InviteInvStutters
  <2> QED
      BY <2>1, <2>2
<1>3. HomeInv => NothingStranded
    BY HomeThenNothingStranded DEF InviteInv
<1> HIDE DEF HomeInv
<1> QED
    BY <1>1, <1>2, <1>3, PTL DEF Spec

-----------------------------------------------------------------------------
(* What feeds and follows keep.                                            *)

Id == Users \X Nat
Entries == [id : Id, cid : Nat \cup {Nothing}, author : Users]

-----------------------------------------------------------------------------
(* Sorting.                                                                *)

\* q lists T in decreasing order.
Decreasing(q, T, n) == q \in [1..n -> T] /\ \A i, j \in 1..n : i < j => q[i] > q[j]

\* A finite set of numbers can be listed so.
LEMMA DecreasingExists ==
    ASSUME NEW T \in SUBSET Nat, IsFiniteSet(T)
    PROVE  Cardinality(T) \in Nat /\ \E q : Decreasing(q, T, Cardinality(T))
<1> DEFINE Bad == {n \in Nat : \E S \in SUBSET Nat : IsFiniteSet(S) /\ Cardinality(S) = n /\ ~ \E q : Decreasing(q, S, n)}
<1>1. Cardinality(T) \in Nat
    BY FS_CardinalityType
<1>2. SUFFICES ASSUME Bad # {} PROVE FALSE
    BY <1>1
<1>3. PICK n \in Bad : \A m \in Bad : n <= m
    BY <1>2, LeastNat
<1>4. PICK S \in SUBSET Nat : IsFiniteSet(S) /\ Cardinality(S) = n /\ ~ \E q : Decreasing(q, S, n)
    BY <1>3
<1>5. S # {}
    <2>1. SUFFICES ASSUME S = {} PROVE FALSE
        OBVIOUS
    <2>2. n = 0
        BY <2>1, <1>4, FS_EmptySet
    <2>3. Decreasing([i \in 1..0 |-> i], S, n)
        BY <2>2 DEF Decreasing
    <2> QED
        BY <2>3, <1>4
<1>6. PICK m \in S : \A y \in S : m <= y
    BY <1>5, LeastNat
<1>7. IsFiniteSet(S \ {m}) /\ Cardinality(S \ {m}) = n - 1
    BY <1>4, <1>6, FS_RemoveElement
<1>8. n - 1 \in Nat
    BY <1>7, FS_CardinalityType
<1>9. n \in Nat /\ n - 1 \notin Bad
    BY <1>3, <1>8
<1>10. PICK q : Decreasing(q, S \ {m}, n - 1)
    BY <1>7, <1>8, <1>9
<1> DEFINE r == [i \in 1..n |-> IF i = n THEN m ELSE q[i]]
<1>11. \A i \in 1..n : (i = n /\ r[i] = m) \/ (i \in 1..(n - 1) /\ r[i] = q[i] /\ q[i] \in S /\ q[i] # m)
    BY <1>8, <1>9, <1>10 DEF Decreasing
<1>12. r \in [1..n -> S]
    BY <1>6, <1>11
<1>13. ASSUME NEW i \in 1..n, NEW j \in 1..n, i < j
       PROVE  r[i] > r[j]
    <2>0. i \in 1..(n - 1) /\ r[i] = q[i] /\ q[i] \in S /\ q[i] # m
        BY <1>9, <1>11, <1>13
    <2>1. CASE j = n
        <3>1. r[j] = m
            BY <2>1, <1>13
        <3>2. r[i] \in Nat /\ m \in Nat /\ m <= r[i] /\ r[i] # m
            BY <2>0, <1>4, <1>6
        <3> HIDE DEF r
        <3> QED
            BY <3>1, <3>2
    <2>2. CASE j # n
        BY <2>0, <2>2, <1>10, <1>11, <1>13 DEF Decreasing
    <2> QED
        BY <2>1, <2>2
<1>14. Decreasing(r, S, n)
    BY <1>12, <1>13 DEF Decreasing
<1> QED
    BY <1>4, <1>14

\* No two entries of a list have one id, and all are of one user.
Distinct(s) == \A i, j \in DOMAIN s : s[i].id = s[j].id => i = j
OfUser(s, u) == \A i \in DOMAIN s : s[i].id[1] = u

\* Sorting a feed lists nothing new and nothing twice.
LEMMA SortedFacts ==
    ASSUME NEW u, NEW s \in Seq(Entries), Distinct(s), OfUser(s, u)
    PROVE  /\ Sorted(s) \in Seq(Entries) /\ Distinct(Sorted(s))
           /\ \A i \in DOMAIN Sorted(s) : \E j \in DOMAIN s : Sorted(s)[i] = s[j]
<1> DEFINE n == Len(s)
           key == [i \in 1..n |-> s[i].id[2]]
           T == {key[i] : i \in 1..n}
           Good(p) == p \in [1..n -> 1..n] /\ IsInjective(p)
                        /\ \A i, j \in 1..n : i < j => Newer(s[p[i]], s[p[j]])
<1>1. n \in Nat /\ DOMAIN s = 1..n
    OBVIOUS
<1>2. \A i \in 1..n : s[i] \in Entries /\ s[i].id = <<u, s[i].id[2]>> /\ s[i].id[2] \in Nat /\ s[i].id[1] = u
    <2> TAKE i \in 1..n
    <2>1. s[i] \in Entries /\ s[i].id[1] = u
        BY <1>1 DEF OfUser
    <2>2. s[i].id \in Users \X Nat
        BY <2>1 DEF Entries, Id
    <2> QED
        BY <2>1, <2>2
<1>3. \A i, j \in 1..n : key[i] = key[j] => i = j
    <2> SUFFICES ASSUME NEW i \in 1..n, NEW j \in 1..n, key[i] = key[j] PROVE i = j
        OBVIOUS
    <2>1. s[i].id[2] = s[j].id[2]
        OBVIOUS
    <2>2. s[i].id = s[j].id
        BY <1>2, <2>1
    <2> QED
        BY <1>1, <2>2 DEF Distinct
<1>4. T \in SUBSET Nat /\ key \in [1..n -> T]
    BY <1>2
<1>5. IsFiniteSet(1..n) /\ Cardinality(1..n) = n
    BY <1>1, FS_Interval
<1>6. key \in Bijection(1..n, T)
    BY <1>3, <1>4 DEF Bijection, Injection, Surjection, IsInjective
<1>7. IsFiniteSet(T) /\ Cardinality(T) = n
    BY <1>5, <1>6, FS_Bijection DEF ExistsBijection
<1>8. PICK q : Decreasing(q, T, n)
    BY <1>4, <1>7, DecreasingExists
<1>9. \A i \in 1..n : \E j \in 1..n : key[j] = q[i]
    BY <1>8 DEF Decreasing
<1> DEFINE p == [i \in 1..n |-> CHOOSE j \in 1..n : key[j] = q[i]]
<1>10. \A i \in 1..n : p[i] \in 1..n /\ s[p[i]].id[2] = q[i]
    <2> TAKE i \in 1..n
    <2>1. p[i] = CHOOSE j \in 1..n : key[j] = q[i]
        OBVIOUS
    <2>2. p[i] \in 1..n /\ key[p[i]] = q[i]
        BY <1>9, <2>1
    <2> HIDE DEF p
    <2> QED
        BY <2>2
<1>11. p \in [1..n -> 1..n]
    BY <1>10
<1>12. \A i, j \in 1..n : i < j => q[i] > q[j] /\ q[i] \in Nat /\ q[j] \in Nat
    BY <1>4, <1>8 DEF Decreasing
<1>13. Good(p)
    <2> HIDE DEF p
    <2>1. \A i, j \in 1..n : p[i] = p[j] => i = j
        <3> SUFFICES ASSUME NEW i \in 1..n, NEW j \in 1..n, p[i] = p[j] PROVE i = j
            OBVIOUS
        <3>1. q[i] = q[j]
            BY <1>10
        <3>2. i \in Nat /\ j \in Nat
            BY <1>1
        <3> HIDE DEF n
        <3> QED
            BY <1>12, <3>1, <3>2
    <2>2. \A i, j \in 1..n : i < j => Newer(s[p[i]], s[p[j]])
        BY <1>10, <1>12 DEF Newer
    <2> QED
        BY <2>1, <2>2, <1>11 DEF IsInjective
<1> HIDE DEF p
<1> DEFINE o == CHOOSE x \in [1..n -> 1..n] : IsInjective(x) /\ \A i, j \in 1..n : i < j => Newer(s[x[i]], s[x[j]])
<1>14. o \in [1..n -> 1..n] /\ IsInjective(o)
    BY <1>13
<1>15. Sorted(s) = [i \in 1..n |-> s[o[i]]]
    BY <1>1 DEF Sorted
<1> HIDE DEF o, n
<1>16. \A i \in 1..n : Sorted(s)[i] = s[o[i]] /\ o[i] \in 1..n
    BY <1>14, <1>15
<1>17. DOMAIN Sorted(s) = 1..n
    BY <1>15
<1>18. Sorted(s) \in [1..n -> Entries]
    BY <1>2, <1>14, <1>15
<1>19. Sorted(s) \in Seq(Entries)
    BY <1>1, <1>18
<1>20. Distinct(Sorted(s))
    <2> SUFFICES ASSUME NEW i \in 1..n, NEW j \in 1..n, Sorted(s)[i].id = Sorted(s)[j].id PROVE i = j
        BY <1>17 DEF Distinct
    <2>1. s[o[i]].id = s[o[j]].id /\ o[i] \in 1..n /\ o[j] \in 1..n
        BY <1>16
    <2>2. o[i] = o[j]
        BY <1>1, <2>1 DEF Distinct
    <2> QED
        BY <1>14, <2>2 DEF IsInjective
<1> QED
    BY <1>1, <1>16, <1>17, <1>19, <1>20

LEMMA ListedOnce ==
    ASSUME NEW S, IsFiniteSet(S)
    PROVE  /\ SetToSeq(S) \in Seq(S)
           /\ \A i, j \in DOMAIN SetToSeq(S) : SetToSeq(S)[i] = SetToSeq(S)[j] => i = j
<1>1. Cardinality(S) \in Nat /\ ExistsBijection(1..Cardinality(S), S)
    BY FS_CardinalityType
<1>2. PICK f : f \in [1..Cardinality(S) -> S] /\ IsInjective(f)
    BY <1>1 DEF ExistsBijection, Bijection, Injection, IsInjective
<1>3. SetToSeq(S) \in [1..Cardinality(S) -> S] /\ IsInjective(SetToSeq(S))
    BY <1>2 DEF SetToSeq
<1> QED
    BY <1>1, <1>3 DEF IsInjective

\* Entries of u that s does not have, of one post each.
Fresh(new, s, u) ==
    /\ \A e \in new : e.id[1] = u /\ \A i \in DOMAIN s : s[i].id # e.id
    /\ \A e, f \in new : e.id = f.id => e = f

\* What a feed is after a merge: what it was and what was new, each once.
LEMMA MergedFacts ==
    ASSUME NEW u, NEW s \in Seq(Entries), Distinct(s), OfUser(s, u),
           NEW new \in SUBSET Entries, IsFiniteSet(new), Fresh(new, s, u),
           NEW m, m = Sorted(s \o SetToSeq(new))
    PROVE  /\ m \in Seq(Entries) /\ Distinct(m)
           /\ \A i \in DOMAIN m : m[i] \in new \/ \E j \in DOMAIN s : m[i] = s[j]
<1> DEFINE q == SetToSeq(new)
           all == s \o q
<1>1. q \in Seq(new) /\ \A i, j \in DOMAIN q : q[i] = q[j] => i = j
    BY ListedOnce
<1> HIDE DEF q
<1>2. q \in Seq(Entries) /\ Len(q) \in Nat /\ Len(s) \in Nat /\ DOMAIN q = 1..Len(q) /\ DOMAIN s = 1..Len(s)
    BY <1>1
<1>3. /\ all \in Seq(Entries) /\ DOMAIN all = 1..(Len(s) + Len(q))
      /\ \A i \in 1..(Len(s) + Len(q)) : all[i] = IF i <= Len(s) THEN s[i] ELSE q[i - Len(s)]
    BY <1>2
<1> HIDE DEF all
<1>4. \A i \in DOMAIN all : (i \in DOMAIN s /\ all[i] = s[i]) \/ (i - Len(s) \in DOMAIN q /\ all[i] = q[i - Len(s)] /\ all[i] \in new)
    <2> TAKE i \in DOMAIN all
    <2>1. CASE i <= Len(s)
        BY <2>1, <1>2, <1>3
    <2>2. CASE ~(i <= Len(s))
        <3>1. i - Len(s) \in DOMAIN q /\ all[i] = q[i - Len(s)]
            BY <2>2, <1>2, <1>3
        <3>2. q[i - Len(s)] \in new
            BY <3>1, <1>1
        <3> QED
            BY <3>1, <3>2
    <2> QED
        BY <2>1, <2>2
<1>5. OfUser(all, u)
    BY <1>4 DEF OfUser, Fresh
<1>6. Distinct(all)
    <2> SUFFICES ASSUME NEW i \in DOMAIN all, NEW j \in DOMAIN all, all[i].id = all[j].id PROVE i = j
        BY DEF Distinct
    <2>1. CASE i \in DOMAIN s /\ all[i] = s[i] /\ j \in DOMAIN s /\ all[j] = s[j]
        BY <2>1 DEF Distinct
    <2>2. CASE i \in DOMAIN s /\ all[i] = s[i] /\ all[j] \in new
        BY <2>2 DEF Fresh
    <2>3. CASE j \in DOMAIN s /\ all[j] = s[j] /\ all[i] \in new
        BY <2>3 DEF Fresh
    <2>4. CASE /\ i - Len(s) \in DOMAIN q /\ all[i] = q[i - Len(s)] /\ all[i] \in new
               /\ j - Len(s) \in DOMAIN q /\ all[j] = q[j - Len(s)] /\ all[j] \in new
        <3>1. all[i] = all[j]
            BY <2>4 DEF Fresh
        <3>2. i - Len(s) = j - Len(s)
            BY <2>4, <3>1, <1>1
        <3> QED
            BY <3>2, <1>2, <1>3
    <2> QED
        BY <1>4, <2>1, <2>2, <2>3, <2>4
<1>7. /\ Sorted(all) \in Seq(Entries) /\ Distinct(Sorted(all))
      /\ \A i \in DOMAIN Sorted(all) : \E j \in DOMAIN all : Sorted(all)[i] = all[j]
    BY <1>3, <1>5, <1>6, SortedFacts
<1>8. \A i \in DOMAIN Sorted(all) : Sorted(all)[i] \in new \/ \E j \in DOMAIN s : Sorted(all)[i] = s[j]
    BY <1>4, <1>7
<1> QED
    BY <1>7, <1>8 DEF all, q

\* What a deletion leaves of a feed: all but the entries of that id.
LEMMA FilteredFacts ==
    ASSUME NEW s \in Seq(Entries), Distinct(s), NEW S, NEW m, m = Retained(s, S)
    PROVE  /\ m \in Seq(Entries) /\ Distinct(m)
           /\ \A i \in DOMAIN m : m[i] \in S /\ \E j \in DOMAIN s : m[i] = s[j]
<1>1. /\ m \in Seq(Entries) /\ \A j \in 1..Len(m) : \E i \in 1..Len(s) : s[i] = m[j] /\ s[i] \in S
    BY RetainedList
<1>2. PICK from \in [1..Len(m) -> 1..Len(s)] :
         /\ \A j \in 1..Len(m) : m[j] = s[from[j]]
         /\ \A j, k \in 1..Len(m) : j < k => from[j] < from[k]
    BY RetainedOrder
<1>3. Len(m) \in Nat /\ DOMAIN m = 1..Len(m) /\ Len(s) \in Nat /\ DOMAIN s = 1..Len(s)
    BY <1>1
<1>4. Distinct(m)
    <2> SUFFICES ASSUME NEW i \in 1..Len(m), NEW j \in 1..Len(m), m[i].id = m[j].id PROVE i = j
        BY <1>3 DEF Distinct
    <2>1. from[i] = from[j]
        BY <1>2, <1>3 DEF Distinct
    <2>2. i \in Nat /\ j \in Nat /\ from[i] \in Nat /\ from[j] \in Nat
        BY <1>2, <1>3
    <2> QED
        BY <2>1, <2>2, <1>2
<1>5. \A i \in DOMAIN m : m[i] \in S /\ \E j \in DOMAIN s : m[i] = s[j]
    BY <1>1, <1>3
<1> QED
    BY <1>1, <1>4, <1>5

-----------------------------------------------------------------------------
(* The inductive invariant of the feeds.                                   *)

\* The operations, and what is left of them after each stage.
RecordPlan == <<"record", "insert", "index", "head", "announce">>
InsertPlans == {<<"insert">>, <<"insert", "index", "head", "announce">>}
FilterPlans == {<<"filter">>, <<"filter", "tell", "index", "head", "announce">>}
IndexPlans == {<<"tell", "index", "head", "announce">>, <<"index", "head", "announce">>, <<"index", "head">>}
HeadPlans == {<<"head", "announce">>, <<"head">>, <<"announce">>}
MergePlan == <<"merge">>
UserPlans == {<<"follow", "mirror", "request">>, <<"mirror", "request">>, <<"request">>,
              <<"unfollow", "mirror", "goodbye">>, <<"mirror", "goodbye">>, <<"goodbye">>,
              <<"addFollower", "mirror", "hand", "notify">>, <<"mirror", "hand", "notify">>,
              <<"hand", "notify">>, <<"notify">>, <<"dropFollower", "mirror">>, <<"mirror">>}
Plans == {<<>>, RecordPlan, MergePlan} \cup InsertPlans \cup FilterPlans \cup IndexPlans \cup HeadPlans \cup UserPlans

Records == [id : Id, cid : Nat \cup {Nothing}, likes : SUBSET Users, comments : Nat]
FollowTables == [followers : SUBSET Users, following : SUBSET Users]
Profiles == [followers : SUBSET Users, following : SUBSET Users, head : (SUBSET Nat) \cup {Nothing}]
EventTypes == {"post.create.v2", "posts.head", "post.delete", "post.react", "post.comment",
               "follow.request", "follow.unfollow"}
Events == [type : EventTypes, from : Users,
           data : Nat \cup (SUBSET Nat) \cup Id \cup (Id \X Users) \cup {Nothing}]
Jobs == [todo : Plans, arg : Entries \cup Id \cup (SUBSET Nat) \cup Users \cup {Nothing},
         snap : Seq(Entries) \cup FollowTables \cup Profiles \cup {Nothing}]

\* The faults.
Kinds == {"lost", "missed", "reload", "unpinned", "record", "feed", "follows", "profile", "other"}

\* Faults after which what is listed may have no record.
Spoiled == Faulty("reload") \/ Faulty("record") \/ Faulty("feed")

SocialTypeInv ==
    /\ feed \in [Users -> Seq(Entries)] /\ posts \in [Users -> SUBSET Records]
    /\ follows \in [Users -> FollowTables] /\ profile \in [Users -> Profiles]
    /\ heads \in [Users -> [Users -> (SUBSET Nat) \cup {Nothing}]]
    /\ queue \in [Users -> [Users \cup {Inbox} -> Seq(Events)]]
    /\ task \in [Users -> [Tasks -> Jobs]]
    /\ made \in Seq(Users) /\ faults \in Seq(Kinds)

PostsOf(v) == {p \in DOMAIN made : made[p] = v}

\* An entry names a post and its author, and its cid is missing only when its
\* author could not pin it.
GoodEntry(u, e) ==
    /\ e.id[1] = u /\ e.id[2] \in PostsOf(e.author)
    /\ e.cid = e.id[2] \/ (e.cid = Nothing /\ e.author = u)

HasRecord(u, id) == \E r \in posts[u] : r.id = id

\* Nobody hears his own events; a head is a set of posts of him who sends it.
GoodEvent(u, e) ==
    /\ e.from # u
    /\ e.type = "post.create.v2" => e.data \in PostsOf(e.from)
    /\ e.type = "posts.head" => e.data \in SUBSET PostsOf(e.from)
    /\ e.type = "post.delete" => e.data \in Id
    /\ e.type \in {"post.react", "post.comment"} => e.data \in Id \X Users

QueueInv ==
    \A u \in Users : \A t \in Users \cup {Inbox} : \A i \in DOMAIN queue[u][t] : GoodEvent(u, queue[u][t][i])

\* What is taken for the follows, or for their mirror, when they cannot be read.
Unread(u, stage) == IF stage = "mirror" THEN [profile[u] EXCEPT !.followers = {}, !.following = {}] ELSE NoFollows

WasRead(u, stage, f) ==
    \/ f = FileOf(u, stage)
    \/ Faulty("follows") /\ stage \in FollowsStages \cup {"mirror"} /\ f = Unread(u, stage)

\* What a task that is under way is about.
GoodJob(u, k) ==
    /\ k.todo = <<>> => k = Idle
    /\ k.todo \in InsertPlans \cup {RecordPlan} =>
         /\ k.arg \in Entries /\ GoodEntry(u, k.arg)
         /\ \A i \in DOMAIN feed[u] : feed[u][i].id # k.arg.id
    /\ k.todo \in InsertPlans => HasRecord(u, k.arg.id) \/ Faulty("record")
    /\ k.todo \in FilterPlans \cup {<<"tell", "index", "head", "announce">>} => k.arg \in Id
    /\ k.todo \in HeadPlans => k.arg \in SUBSET PostsOf(u)
    /\ k.todo = MergePlan => \E v \in Users \ {u} : k.arg \in SUBSET PostsOf(v)
    /\ k.todo \in UserPlans => k.arg \in Users
    /\ k.snap # Nothing => WasRead(u, Head(k.todo), k.snap)

Alone(u) == \A x, y \in Tasks : task[u][x] # Idle /\ task[u][y] # Idle => x = y

Deleting(u, id) == \E x \in Tasks : task[u][x].todo \in FilterPlans /\ task[u][x].arg = id

UserInv(u) ==
    /\ Distinct(feed[u]) /\ \A i \in DOMAIN feed[u] : GoodEntry(u, feed[u][i])
    /\ Spoiled \/ \A i \in DOMAIN feed[u] : HasRecord(u, feed[u][i].id) \/ Deleting(u, feed[u][i].id)
    /\ profile[u].head # Nothing => profile[u].head \subseteq PostsOf(u)
    /\ \A v \in Users : heads[u][v] # Nothing => heads[u][v] \subseteq PostsOf(v) /\ v # u
    /\ Alone(u) /\ \A x \in Tasks : GoodJob(u, task[u][x])

SocialInv == SocialTypeInv /\ QueueInv /\ \A u \in Users : UserInv(u)

-----------------------------------------------------------------------------
(* The stages of an operation, one after the other.                        *)

LEMMA OneLeft ==
    ASSUME NEW a
    PROVE  <<a>> # <<>> /\ Head(<<a>>) = a /\ Len(<<a>>) = 1
    OBVIOUS

LEMMA TwoLeft ==
    ASSUME NEW a, NEW b
    PROVE  <<a, b>> # <<>> /\ Head(<<a, b>>) = a /\ Len(<<a, b>>) = 2 /\ Tail(<<a, b>>) = <<b>>
    OBVIOUS

LEMMA ThreeLeft ==
    ASSUME NEW a, NEW b, NEW c
    PROVE  <<a, b, c>> # <<>> /\ Head(<<a, b, c>>) = a /\ Len(<<a, b, c>>) = 3 /\ Tail(<<a, b, c>>) = <<b, c>>
    OBVIOUS

LEMMA FourLeft ==
    ASSUME NEW a, NEW b, NEW c, NEW d
    PROVE  /\ <<a, b, c, d>> # <<>> /\ Head(<<a, b, c, d>>) = a /\ Len(<<a, b, c, d>>) = 4
           /\ Tail(<<a, b, c, d>>) = <<b, c, d>>
    OBVIOUS

LEMMA FiveLeft ==
    ASSUME NEW a, NEW b, NEW c, NEW d, NEW e
    PROVE  /\ <<a, b, c, d, e>> # <<>> /\ Head(<<a, b, c, d, e>>) = a /\ Len(<<a, b, c, d, e>>) = 5
           /\ Tail(<<a, b, c, d, e>>) = <<b, c, d, e>>
    OBVIOUS

LEMMA InsertPlan ==
    \A t \in InsertPlans :
        /\ t # <<>> /\ Head(t) = "insert"
        /\ Len(t) = 1 \/ (Len(t) # 1 /\ Tail(t) = <<"index", "head", "announce">>)
<1> SUFFICES ASSUME NEW t \in InsertPlans
             PROVE
                    /\ t # <<>> /\ Head(t) = "insert"
                    /\ Len(t) = 1 \/ (Len(t) # 1 /\ Tail(t) = <<"index", "head", "announce">>)
    OBVIOUS
<1>1. CASE t = <<"insert">>
    BY <1>1, OneLeft
<1>2. CASE t = <<"insert", "index", "head", "announce">>
    BY <1>2, FourLeft
<1> QED
    BY <1>1, <1>2 DEF InsertPlans

LEMMA FilterPlan ==
    \A t \in FilterPlans :
        /\ t # <<>> /\ Head(t) = "filter"
        /\ Len(t) = 1 \/ (Len(t) # 1 /\ Tail(t) = <<"tell", "index", "head", "announce">>)
<1> SUFFICES ASSUME NEW t \in FilterPlans
             PROVE
                    /\ t # <<>> /\ Head(t) = "filter"
                    /\ Len(t) = 1 \/ (Len(t) # 1 /\ Tail(t) = <<"tell", "index", "head", "announce">>)
    OBVIOUS
<1>1. CASE t = <<"filter">>
    BY <1>1, OneLeft
<1>2. CASE t = <<"filter", "tell", "index", "head", "announce">>
    BY <1>2, FiveLeft
<1> QED
    BY <1>1, <1>2 DEF FilterPlans

LEMMA IndexPlan ==
    \A t \in IndexPlans :
        /\ t # <<>> /\ Len(t) # 1
        /\ \/ Head(t) = "tell" /\ t = <<"tell", "index", "head", "announce">> /\ Tail(t) = <<"index", "head", "announce">>
           \/ Head(t) = "index" /\ Tail(t) \in {<<"head", "announce">>, <<"head">>}
<1> SUFFICES ASSUME NEW t \in IndexPlans
             PROVE
                    /\ t # <<>> /\ Len(t) # 1
                    /\ \/ Head(t) = "tell" /\ t = <<"tell", "index", "head", "announce">> /\ Tail(t) = <<"index", "head", "announce">>
                       \/ Head(t) = "index" /\ Tail(t) \in {<<"head", "announce">>, <<"head">>}
    OBVIOUS
<1>1. CASE t = <<"tell", "index", "head", "announce">>
    BY <1>1, FourLeft
<1>2. CASE t = <<"index", "head", "announce">>
    BY <1>2, ThreeLeft
<1>3. CASE t = <<"index", "head">>
    BY <1>3, TwoLeft
<1> QED
    BY <1>1, <1>2, <1>3 DEF IndexPlans

LEMMA HeadPlan ==
    \A t \in HeadPlans :
        /\ t # <<>> /\ Head(t) \in {"head", "announce"}
        /\ Len(t) = 1 \/ (Len(t) # 1 /\ Head(t) = "head" /\ Tail(t) = <<"announce">>)
<1> SUFFICES ASSUME NEW t \in HeadPlans
             PROVE
                    /\ t # <<>> /\ Head(t) \in {"head", "announce"}
                    /\ Len(t) = 1 \/ (Len(t) # 1 /\ Head(t) = "head" /\ Tail(t) = <<"announce">>)
    OBVIOUS
<1>1. CASE t = <<"head", "announce">>
    BY <1>1, TwoLeft
<1>2. CASE t = <<"head">>
    BY <1>2, OneLeft
<1>3. CASE t = <<"announce">>
    BY <1>3, OneLeft
<1> QED
    BY <1>1, <1>2, <1>3 DEF HeadPlans

LEMMA RecordPlanOnly ==
    /\ RecordPlan # <<>> /\ Head(RecordPlan) = "record" /\ Len(RecordPlan) # 1
    /\ Tail(RecordPlan) = <<"insert", "index", "head", "announce">>
    BY FiveLeft DEF RecordPlan

LEMMA MergePlanOnly == MergePlan # <<>> /\ Head(MergePlan) = "merge" /\ Len(MergePlan) = 1
    BY OneLeft DEF MergePlan

LEMMA UserPlan ==
    \A t \in UserPlans :
        /\ t # <<>>
        /\ \/ Head(t) \in FollowsStages /\ Len(t) # 1
              /\ Tail(t) \in {<<"mirror", "request">>, <<"mirror", "goodbye">>,
                              <<"mirror", "hand", "notify">>, <<"mirror">>}
           \/ Head(t) = "mirror" /\ (Len(t) = 1 \/ (Len(t) # 1 /\ Tail(t) \in {<<"request">>, <<"goodbye">>, <<"hand", "notify">>}))
           \/ Head(t) \in {"request", "goodbye", "notify"} /\ Len(t) = 1
           \/ Head(t) = "hand" /\ Len(t) # 1 /\ Tail(t) = <<"notify">>
<1> SUFFICES ASSUME NEW t \in UserPlans
             PROVE
                    /\ t # <<>>
                    /\ \/ Head(t) \in FollowsStages /\ Len(t) # 1
                          /\ Tail(t) \in {<<"mirror", "request">>, <<"mirror", "goodbye">>,
                                          <<"mirror", "hand", "notify">>, <<"mirror">>}
                       \/ Head(t) = "mirror" /\ (Len(t) = 1 \/ (Len(t) # 1 /\ Tail(t) \in {<<"request">>, <<"goodbye">>, <<"hand", "notify">>}))
                       \/ Head(t) \in {"request", "goodbye", "notify"} /\ Len(t) = 1
                       \/ Head(t) = "hand" /\ Len(t) # 1 /\ Tail(t) = <<"notify">>
    OBVIOUS
<1>1. CASE t = <<"follow", "mirror", "request">>
    BY <1>1, ThreeLeft DEF FollowsStages
<1>2. CASE t = <<"mirror", "request">>
    BY <1>2, TwoLeft DEF FollowsStages
<1>3. CASE t = <<"request">>
    BY <1>3, OneLeft DEF FollowsStages
<1>4. CASE t = <<"unfollow", "mirror", "goodbye">>
    BY <1>4, ThreeLeft DEF FollowsStages
<1>5. CASE t = <<"mirror", "goodbye">>
    BY <1>5, TwoLeft DEF FollowsStages
<1>6. CASE t = <<"goodbye">>
    BY <1>6, OneLeft DEF FollowsStages
<1>7. CASE t = <<"addFollower", "mirror", "hand", "notify">>
    BY <1>7, FourLeft DEF FollowsStages
<1>8. CASE t = <<"mirror", "hand", "notify">>
    BY <1>8, ThreeLeft DEF FollowsStages
<1>9. CASE t = <<"hand", "notify">>
    BY <1>9, TwoLeft DEF FollowsStages
<1>10. CASE t = <<"notify">>
    BY <1>10, OneLeft DEF FollowsStages
<1>11. CASE t = <<"dropFollower", "mirror">>
    BY <1>11, TwoLeft DEF FollowsStages
<1>12. CASE t = <<"mirror">>
    BY <1>12, OneLeft DEF FollowsStages
<1> QED
    BY <1>1, <1>2, <1>3, <1>4, <1>5, <1>6, <1>7, <1>8, <1>9, <1>10, <1>11, <1>12 DEF UserPlans

\* The stage a task is in tells what it is about.
LEMMA PlanKinds ==
    ASSUME NEW t \in Plans
    PROVE  /\ t \in InsertPlans <=> (t # <<>> /\ Head(t) = "insert")
           /\ t \in FilterPlans <=> (t # <<>> /\ Head(t) = "filter")
           /\ t \in IndexPlans <=> (t # <<>> /\ Head(t) \in {"tell", "index"})
           /\ t \in HeadPlans <=> (t # <<>> /\ Head(t) \in {"head", "announce"})
           /\ t = MergePlan <=> (t # <<>> /\ Head(t) = "merge")
           /\ t = RecordPlan <=> (t # <<>> /\ Head(t) = "record")
           /\ t \in UserPlans <=>
                (t # <<>> /\ Head(t) \in FollowsStages \cup {"mirror", "request", "goodbye", "hand", "notify"})
<1>0. <<>> \notin InsertPlans \cup FilterPlans \cup IndexPlans \cup HeadPlans \cup UserPlans /\ <<>> # MergePlan /\ <<>> # RecordPlan
    BY InsertPlan, FilterPlan, IndexPlan, HeadPlan, MergePlanOnly, RecordPlanOnly, UserPlan
<1>1. CASE t = <<>>
    BY <1>0, <1>1
<1>2. CASE t \in InsertPlans
    <2>1. t # <<>> /\ Head(t) = "insert"
        BY <1>2, InsertPlan
    <2> QED
        BY <1>2, <2>1, FilterPlan, IndexPlan, HeadPlan, MergePlanOnly, RecordPlanOnly, UserPlan DEF FollowsStages
<1>3. CASE t \in FilterPlans
    <2>1. t # <<>> /\ Head(t) = "filter"
        BY <1>3, FilterPlan
    <2> QED
        BY <1>3, <2>1, InsertPlan, IndexPlan, HeadPlan, MergePlanOnly, RecordPlanOnly, UserPlan DEF FollowsStages
<1>4. CASE t \in IndexPlans
    <2>1. t # <<>> /\ Head(t) \in {"tell", "index"}
        BY <1>4, IndexPlan
    <2> QED
        BY <1>4, <2>1, InsertPlan, FilterPlan, HeadPlan, MergePlanOnly, RecordPlanOnly, UserPlan DEF FollowsStages
<1>5. CASE t \in HeadPlans
    <2>1. t # <<>> /\ Head(t) \in {"head", "announce"}
        BY <1>5, HeadPlan
    <2> QED
        BY <1>5, <2>1, InsertPlan, FilterPlan, IndexPlan, MergePlanOnly, RecordPlanOnly, UserPlan DEF FollowsStages
<1>6. CASE t = MergePlan
    <2>1. t # <<>> /\ Head(t) = "merge"
        BY <1>6, MergePlanOnly
    <2> QED
        BY <1>6, <2>1, InsertPlan, FilterPlan, IndexPlan, HeadPlan, RecordPlanOnly, UserPlan DEF FollowsStages
<1>7. CASE t \in UserPlans
    <2>1. t # <<>> /\ Head(t) \in FollowsStages \cup {"mirror", "request", "goodbye", "hand", "notify"}
        BY <1>7, UserPlan
    <2> QED
        BY <1>7, <2>1, InsertPlan, FilterPlan, IndexPlan, HeadPlan, MergePlanOnly, RecordPlanOnly DEF FollowsStages
<1>8. CASE t = RecordPlan
    <2>1. t # <<>> /\ Head(t) = "record"
        BY <1>8, RecordPlanOnly
    <2> QED
        BY <1>8, <2>1, InsertPlan, FilterPlan, IndexPlan, HeadPlan, MergePlanOnly, UserPlan DEF FollowsStages
<1> QED
    BY <1>1, <1>2, <1>3, <1>4, <1>5, <1>6, <1>7, <1>8 DEF Plans

-----------------------------------------------------------------------------
(* What a step leaves as it is.                                            *)

Grown ==
    /\ \A v \in Users : PostsOf(v) \subseteq PostsOf(v)'
    /\ \A k : Faulty(k) => Faulty(k)'

LEMMA Repeated ==
    ASSUME NEW K, NEW kind \in K, NEW n \in Nat, NEW s \in Seq(K)
    PROVE  LET t == s \o Repeat(kind, n)
           IN  /\ t \in Seq(K)
               /\ ToSet(s) \subseteq ToSet(t) /\ ToSet(t) \subseteq ToSet(s) \cup {kind}
               /\ n = 0 => ToSet(t) = ToSet(s)
               /\ n # 0 => kind \in ToSet(t)
<1> DEFINE more == Repeat(kind, n)
           t == s \o more
<1>1. more \in Seq(K) /\ Len(more) = n /\ \A i \in 1..n : more[i] = kind
    <2>1. more \in [1..n -> K] /\ \A i \in 1..n : more[i] = kind
        BY DEF Repeat
    <2> QED
        BY <2>1
<1> HIDE DEF more
<1>2. /\ t \in Seq(K) /\ Len(s) \in Nat /\ Len(t) = Len(s) + n
      /\ \A i \in 1..Len(t) : t[i] = IF i <= Len(s) THEN s[i] ELSE more[i - Len(s)]
    BY <1>1
<1> HIDE DEF t
<1>3. \A i \in 1..Len(s) : i \in 1..Len(t) /\ t[i] = s[i]
    BY <1>2
<1>4. \A i \in 1..Len(t) : (i \in 1..Len(s) /\ t[i] = s[i]) \/ (n # 0 /\ t[i] = kind)
    BY <1>1, <1>2
<1>5. n # 0 => Len(s) + 1 \in 1..Len(t) /\ t[Len(s) + 1] = kind
    BY <1>1, <1>2
<1>6. ToSet(s) = {s[i] : i \in 1..Len(s)} /\ ToSet(t) = {t[i] : i \in 1..Len(t)}
    <2>1. DOMAIN s = 1..Len(s) /\ DOMAIN t = 1..Len(t)
        BY <1>2
    <2> QED
        BY <2>1, Zenon DEF ToSet
<1>7. t \in Seq(K)
    BY <1>2
<1>8. /\ ToSet(s) \subseteq ToSet(t) /\ ToSet(t) \subseteq ToSet(s) \cup {kind}
      /\ n = 0 => ToSet(t) = ToSet(s)
      /\ n # 0 => kind \in ToSet(t)
    BY <1>3, <1>4, <1>5, <1>6
<1> QED
    BY <1>7, <1>8 DEF t, more

LEMMA FaultFacts ==
    ASSUME faults \in Seq(Kinds), NEW n \in Nat, NEW kind \in Kinds, Fault(kind, n)
    PROVE  /\ faults' \in Seq(Kinds)
           /\ \A k : Faulty(k) => Faulty(k)'
           /\ \A k : Faulty(k)' => Faulty(k) \/ (k = kind /\ n # 0)
           /\ n # 0 => Faulty(kind)'
<1>1. PICK s : s = faults
    OBVIOUS
<1>2. PICK K : K = Kinds
    OBVIOUS
<1>3. faults' = s \o Repeat(kind, n)
    BY <1>1 DEF Fault
<1>4. /\ faults' \in Seq(Kinds)
      /\ ToSet(s) \subseteq ToSet(faults') /\ ToSet(faults') \subseteq ToSet(s) \cup {kind}
      /\ n = 0 => ToSet(faults') = ToSet(s)
      /\ n # 0 => kind \in ToSet(faults')
    <2>1. s \in Seq(K) /\ kind \in K
        BY <1>1, <1>2
    <2> DEFINE t == s \o Repeat(kind, n)
    <2>2. /\ t \in Seq(K)
          /\ ToSet(s) \subseteq ToSet(t) /\ ToSet(t) \subseteq ToSet(s) \cup {kind}
          /\ n = 0 => ToSet(t) = ToSet(s)
          /\ n # 0 => kind \in ToSet(t)
        BY <2>1, Repeated, Zenon
    <2> HIDE DEF t
    <2>3. faults' = t
        BY <1>3 DEF t
    <2> QED
        BY <1>2, <2>2, <2>3
<1> QED
    BY <1>1, <1>4 DEF Faulty

LEMMA FaultsFacts ==
    ASSUME faults \in Seq(Kinds), NEW n \in Nat, NEW kind \in Kinds, NEW m \in Nat, NEW other \in Kinds,
           Faults(kind, n, other, m)
    PROVE  /\ faults' \in Seq(Kinds)
           /\ \A k : Faulty(k) => Faulty(k)'
           /\ m # 0 => Faulty(other)'
<1>1. PICK s : s = faults
    OBVIOUS
<1>2. PICK K : K = Kinds
    OBVIOUS
<1>3. s \in Seq(K) /\ kind \in K /\ other \in K
    BY <1>1, <1>2
<1>4. PICK t : t = s \o Repeat(kind, n)
    OBVIOUS
<1>5. t \in Seq(K) /\ ToSet(s) \subseteq ToSet(t)
    BY <1>3, <1>4, Repeated, Zenon
<1>6. PICK r : r = t \o Repeat(other, m)
    OBVIOUS
<1>7. r \in Seq(K) /\ ToSet(t) \subseteq ToSet(r) /\ (m # 0 => other \in ToSet(r))
    BY <1>3, <1>5, <1>6, Repeated, Zenon
<1>8. faults' = r
    BY <1>1, <1>4, <1>6 DEF Faults
<1> QED
    BY <1>1, <1>2, <1>5, <1>7, <1>8 DEF Faulty

\* What holds of a user holds as long as nothing of his changes.
LEMMA UserStays ==
    ASSUME NEW u \in Users, UserInv(u), Grown, SocialTypeInv,
           feed'[u] = feed[u], posts'[u] = posts[u], follows'[u] = follows[u], profile'[u] = profile[u],
           heads'[u] = heads[u], task'[u] = task[u]
    PROVE  UserInv(u)'
<1>1. \A e \in Entries : GoodEntry(u, e) => GoodEntry(u, e)'
    BY DEF Grown, GoodEntry, Entries
<1>2. \A id : (HasRecord(u, id) <=> HasRecord(u, id)') /\ (Deleting(u, id) <=> Deleting(u, id)')
    BY DEF HasRecord, Deleting
<1>3. \A stage, f : WasRead(u, stage, f) => WasRead(u, stage, f)'
    <2>1. \A stage : FileOf(u, stage)' = FileOf(u, stage) /\ Unread(u, stage)' = Unread(u, stage)
        BY DEF FileOf, Unread
    <2> QED
        BY <2>1 DEF WasRead, Grown
<1>4. \A k : GoodJob(u, k) => GoodJob(u, k)'
    BY <1>1, <1>2, <1>3 DEF GoodJob, Grown
<1>5. Alone(u)' /\ \A x \in Tasks : GoodJob(u, task[u][x])'
    BY <1>4 DEF UserInv, Alone
<1>6. Distinct(feed[u])' /\ (\A i \in DOMAIN feed[u] : GoodEntry(u, feed[u][i]))'
    <2>1. Distinct(feed[u])'
        BY DEF UserInv, Distinct
    <2>2. \A i \in DOMAIN feed[u] : feed[u][i] \in Entries
        BY DEF SocialTypeInv
    <2> QED
        BY <1>1, <2>1, <2>2 DEF UserInv
<1>7. (Spoiled \/ \A i \in DOMAIN feed[u] : HasRecord(u, feed[u][i].id) \/ Deleting(u, feed[u][i].id))'
    BY <1>2 DEF UserInv, Grown, Spoiled
<1>8. profile'[u].head # Nothing => profile'[u].head \subseteq PostsOf(u)'
    BY DEF UserInv, Grown
<1>9. \A v \in Users : heads'[u][v] # Nothing => heads'[u][v] \subseteq PostsOf(v)' /\ v # u
    BY DEF UserInv, Grown
<1> QED
    BY <1>5, <1>6, <1>7, <1>8, <1>9 DEF UserInv

\* A step is one user's, but for the events that others log.
LEMMA OneUser ==
    ASSUME SocialInv, NEW u \in Users, Grown, SocialTypeInv', QueueInv', UserInv(u)',
           \A w \in Users \ {u} : /\ feed'[w] = feed[w] /\ posts'[w] = posts[w] /\ follows'[w] = follows[w]
                                  /\ profile'[w] = profile[w] /\ heads'[w] = heads[w] /\ task'[w] = task[w]
    PROVE  SocialInv'
<1>1. ASSUME NEW w \in Users \ {u} PROVE UserInv(w)'
    BY UserStays DEF SocialInv
<1> QED
    BY <1>1 DEF SocialInv

LEMMA IdleGood == \A u : GoodJob(u, Idle) /\ GoodJob(u, Idle)'
<1>1. Idle.todo = <<>> /\ Idle.snap = Nothing
    BY DEF Idle
<1>2. /\ <<>> \notin InsertPlans \cup FilterPlans \cup IndexPlans \cup HeadPlans \cup UserPlans
      /\ <<>> # MergePlan /\ <<>> # RecordPlan
    BY InsertPlan, FilterPlan, IndexPlan, HeadPlan, MergePlanOnly, RecordPlanOnly, UserPlan
<1>3. <<"tell", "index", "head", "announce">> \in IndexPlans
    BY DEF IndexPlans
<1> QED
    BY <1>1, <1>2, <1>3 DEF GoodJob

\* The one task of a user that may be under way goes on as k.
LEMMA TaskMoves ==
    ASSUME SocialTypeInv, NEW u \in Users, NEW x \in Tasks, NEW k \in Jobs,
           \A y \in Tasks \ {x} : task[u][y] = Idle,
           task' = [task EXCEPT ![u][x] = k]
    PROVE  /\ task' \in [Users -> [Tasks -> Jobs]] /\ Alone(u)'
           /\ GoodJob(u, k)' => \A y \in Tasks : GoodJob(u, task[u][y])'
           /\ task'[u][x] = k /\ \A y \in Tasks \ {x} : task'[u][y] = Idle
           /\ \A w \in Users \ {u} : task'[w] = task[w]
<1>1. task \in [Users -> [Tasks -> Jobs]]
    BY DEF SocialTypeInv
<1>2. /\ task' \in [Users -> [Tasks -> Jobs]]
      /\ task'[u][x] = k /\ \A y \in Tasks \ {x} : task'[u][y] = Idle
      /\ \A w \in Users \ {u} : task'[w] = task[w]
    BY <1>1
<1>3. Alone(u)'
    BY <1>2 DEF Alone
<1>4. GoodJob(u, k)' => \A y \in Tasks : GoodJob(u, task[u][y])'
    <2>1. ASSUME GoodJob(u, k)', NEW y \in Tasks PROVE GoodJob(u, task[u][y])'
        <3>1. task'[u][y] = k \/ task'[u][y] = Idle
            BY <1>2
        <3>2. GoodJob(u, Idle)'
            BY IdleGood
        <3> QED
            BY <2>1, <3>1, <3>2 DEF GoodJob
    <2> QED
        BY <2>1
<1> QED
    BY <1>2, <1>3, <1>4

LEMMA JobsGood ==
    ASSUME NEW u, NEW k \in Jobs, (k.snap # Nothing => WasRead(u, Head(k.todo), k.snap))'
    PROVE  /\ (/\ k.todo \in InsertPlans \cup {RecordPlan} /\ k.arg \in Entries /\ GoodEntry(u, k.arg)'
               /\ k.todo \in InsertPlans => (HasRecord(u, k.arg.id) \/ Faulty("record"))'
               /\ (\A i \in DOMAIN feed[u] : feed[u][i].id # k.arg.id)')
              => GoodJob(u, k)'
           /\ (k.todo \in FilterPlans \cup IndexPlans /\ k.arg \in Id) => GoodJob(u, k)'
           /\ (k.todo \in IndexPlans /\ Head(k.todo) = "index") => GoodJob(u, k)'
           /\ (k.todo \in HeadPlans /\ k.arg \in SUBSET PostsOf(u)') => GoodJob(u, k)'
           /\ (k.todo = MergePlan /\ \E v \in Users \ {u} : k.arg \in SUBSET PostsOf(v)') => GoodJob(u, k)'
           /\ (k.todo \in UserPlans /\ k.arg \in Users) => GoodJob(u, k)'
<1>0. k.todo \in Plans /\ <<"tell", "index", "head", "announce">> \in IndexPlans
    BY DEF Jobs, IndexPlans
<1>1. /\ k.todo \in InsertPlans <=> (k.todo # <<>> /\ Head(k.todo) = "insert")
      /\ k.todo \in FilterPlans <=> (k.todo # <<>> /\ Head(k.todo) = "filter")
      /\ k.todo \in IndexPlans <=> (k.todo # <<>> /\ Head(k.todo) \in {"tell", "index"})
      /\ k.todo \in HeadPlans <=> (k.todo # <<>> /\ Head(k.todo) \in {"head", "announce"})
      /\ k.todo = MergePlan <=> (k.todo # <<>> /\ Head(k.todo) = "merge")
      /\ k.todo = RecordPlan <=> (k.todo # <<>> /\ Head(k.todo) = "record")
      /\ k.todo \in UserPlans <=>
           (k.todo # <<>> /\ Head(k.todo) \in FollowsStages \cup {"mirror", "request", "goodbye", "hand", "notify"})
    BY <1>0, PlanKinds
<1>2. k.todo = <<"tell", "index", "head", "announce">> => Head(k.todo) = "tell" /\ k.todo # <<>>
    BY FourLeft
<1> HIDE DEF MergePlan, RecordPlan
<1>3. (/\ k.todo \in InsertPlans \cup {RecordPlan} /\ k.arg \in Entries /\ GoodEntry(u, k.arg)'
       /\ k.todo \in InsertPlans => (HasRecord(u, k.arg.id) \/ Faulty("record"))'
       /\ (\A i \in DOMAIN feed[u] : feed[u][i].id # k.arg.id)')
      => GoodJob(u, k)'
    BY <1>1, <1>2 DEF GoodJob, FollowsStages
<1>4. (k.todo \in FilterPlans \cup IndexPlans /\ k.arg \in Id) => GoodJob(u, k)'
    BY <1>1, <1>2 DEF GoodJob, FollowsStages
<1>5. (k.todo \in IndexPlans /\ Head(k.todo) = "index") => GoodJob(u, k)'
    BY <1>1, <1>2 DEF GoodJob, FollowsStages
<1>6. (k.todo \in HeadPlans /\ k.arg \in SUBSET PostsOf(u)') => GoodJob(u, k)'
    BY <1>1, <1>2 DEF GoodJob, FollowsStages
<1>7. (k.todo = MergePlan /\ \E v \in Users \ {u} : k.arg \in SUBSET PostsOf(v)') => GoodJob(u, k)'
    BY <1>1, <1>2 DEF GoodJob, FollowsStages
<1>8. (k.todo \in UserPlans /\ k.arg \in Users) => GoodJob(u, k)'
    BY <1>1, <1>2 DEF GoodJob, FollowsStages
<1> QED
    BY <1>3, <1>4, <1>5, <1>6, <1>7, <1>8

\* What is left of an operation is one of the plans.
LEMMA PlanTail ==
    ASSUME NEW t \in Plans, t # <<>>, Len(t) # 1
    PROVE  /\ Tail(t) \in Plans
           /\ t \in InsertPlans \cup {<<"tell", "index", "head", "announce">>} =>
                Tail(t) \in IndexPlans /\ Head(Tail(t)) = "index"
           /\ t \in FilterPlans => Tail(t) \in IndexPlans
           /\ (t \in IndexPlans /\ Head(t) = "index") => Tail(t) \in HeadPlans
           /\ t \in HeadPlans => Tail(t) \in HeadPlans
           /\ t # MergePlan
           /\ t = RecordPlan => Tail(t) \in InsertPlans
           /\ t \in UserPlans => Tail(t) \in UserPlans
<1>0. t = RecordPlan => Tail(t) \in InsertPlans
    BY RecordPlanOnly DEF InsertPlans
<1>1. t \in InsertPlans \cup {<<"tell", "index", "head", "announce">>} =>
        Tail(t) = <<"index", "head", "announce">> /\ Head(Tail(t)) = "index"
    <2>1. t \in InsertPlans => Tail(t) = <<"index", "head", "announce">>
        BY InsertPlan
    <2>2. t = <<"tell", "index", "head", "announce">> => Tail(t) = <<"index", "head", "announce">>
        BY FourLeft
    <2>3. Head(<<"index", "head", "announce">>) = "index"
        BY ThreeLeft
    <2> QED
        BY <2>1, <2>2, <2>3
<1>2. t \in FilterPlans => Tail(t) = <<"tell", "index", "head", "announce">>
    BY FilterPlan
<1>3. t \in IndexPlans => Tail(t) \in {<<"index", "head", "announce">>, <<"head", "announce">>, <<"head">>}
    BY IndexPlan
<1>4. (t \in IndexPlans /\ Head(t) = "index") => Tail(t) \in {<<"head", "announce">>, <<"head">>}
    BY IndexPlan
<1>5. t \in HeadPlans => Tail(t) = <<"announce">>
    BY HeadPlan
<1>6. t # MergePlan
    BY MergePlanOnly
<1>7. t \in UserPlans => Tail(t) \in {<<"mirror", "request">>, <<"mirror", "goodbye">>, <<"mirror", "hand", "notify">>,
                                      <<"mirror">>, <<"request">>, <<"goodbye">>, <<"hand", "notify">>, <<"notify">>}
    BY UserPlan
<1>8. /\ <<"index", "head", "announce">> \in IndexPlans /\ <<"tell", "index", "head", "announce">> \in IndexPlans
      /\ <<"head", "announce">> \in HeadPlans /\ <<"head">> \in HeadPlans /\ <<"announce">> \in HeadPlans
    BY DEF IndexPlans, HeadPlans
<1>9. {<<"mirror", "request">>, <<"mirror", "goodbye">>, <<"mirror", "hand", "notify">>,
       <<"mirror">>, <<"request">>, <<"goodbye">>, <<"hand", "notify">>, <<"notify">>} \subseteq UserPlans
    BY DEF UserPlans
<1>10. /\ t \in InsertPlans \cup {<<"tell", "index", "head", "announce">>} =>
            Tail(t) \in IndexPlans /\ Head(Tail(t)) = "index"
       /\ t \in FilterPlans => Tail(t) \in IndexPlans
       /\ t \in IndexPlans => Tail(t) \in IndexPlans \cup HeadPlans
       /\ (t \in IndexPlans /\ Head(t) = "index") => Tail(t) \in HeadPlans
       /\ t \in HeadPlans => Tail(t) \in HeadPlans
       /\ t \in UserPlans => Tail(t) \in UserPlans
    BY <1>1, <1>2, <1>3, <1>4, <1>5, <1>7, <1>8, <1>9
<1>11. Tail(t) \in Plans
    BY <1>0, <1>6, <1>10 DEF Plans
<1> QED
    BY <1>0, <1>6, <1>10, <1>11

\* A task that goes on.
LEMMA GoesOn ==
    ASSUME SocialInv, NEW u \in Users, NEW x \in Tasks, Stage(u, x) # "done",
           NEW arg \in Entries \cup Id \cup (SUBSET Nat) \cup Users \cup {Nothing}, Advance(u, x, arg)
    PROVE  /\ \A y \in Tasks \ {x} : task[u][y] = Idle
           /\ task[u][x] \in Jobs /\ task[u][x].todo # <<>> /\ Stage(u, x) = Head(task[u][x].todo)
           /\ \E k \in Jobs : /\ task' = [task EXCEPT ![u][x] = k] /\ k.snap = Nothing
                              /\ \/ k = Idle /\ Len(task[u][x].todo) = 1
                                 \/ /\ Len(task[u][x].todo) # 1 /\ k.todo = Tail(task[u][x].todo) /\ k.arg = arg
<1>1. task[u][x] \in Jobs /\ task[u][x].todo # <<>> /\ Stage(u, x) = Head(task[u][x].todo)
    BY DEF Stage, SocialInv, SocialTypeInv
<1>2. \A y \in Tasks \ {x} : task[u][y] = Idle
    BY <1>1 DEF SocialInv, UserInv, Alone, Idle
<1>3. PICK t : t = task[u][x].todo
    OBVIOUS
<1>4. t \in Plans /\ t # <<>>
    BY <1>1, <1>3 DEF Jobs
<1>5. CASE Len(t) = 1
    <2>1. task' = [task EXCEPT ![u][x] = Idle]
        BY <1>3, <1>5 DEF Advance, SocialInv, SocialTypeInv
    <2>2. Idle \in Jobs /\ Idle.snap = Nothing
        BY DEF Idle, Jobs, Plans
    <2> QED
        BY <1>1, <1>2, <1>3, <1>5, <2>1, <2>2
<1>6. CASE Len(t) # 1
    <2> DEFINE k == [todo |-> Tail(t), arg |-> arg, snap |-> Nothing]
    <2>1. k \in Jobs /\ k.snap = Nothing /\ k.todo = Tail(t) /\ k.arg = arg
        BY <1>4, <1>6, PlanTail DEF Jobs
    <2>2. task' = [task EXCEPT ![u][x] = k]
        BY <1>3, <1>6 DEF Advance, SocialInv, SocialTypeInv
    <2> HIDE DEF k
    <2> QED
        BY <1>1, <1>2, <1>3, <1>6, <2>1, <2>2
<1> QED
    BY <1>5, <1>6

-----------------------------------------------------------------------------
(* Events.                                                                 *)

LEMMA QueueStays ==
    ASSUME SocialInv, \A v \in Users : PostsOf(v) \subseteq PostsOf(v)', queue' = queue
    PROVE  QueueInv'
<1>1. \A u : \A e \in Events : GoodEvent(u, e) => GoodEvent(u, e)'
    BY DEF GoodEvent, Events
<1>2. \A u \in Users : \A t \in Users \cup {Inbox} : \A i \in DOMAIN queue[u][t] : queue[u][t][i] \in Events
    BY DEF SocialInv, SocialTypeInv
<1> QED
    BY <1>1, <1>2 DEF SocialInv, QueueInv

LEMMA DrainFacts ==
    ASSUME SocialInv, NEW u \in Users, NEW t \in Users \cup {Inbox}, queue[u][t] # <<>>, Drained(u, t),
           made' = made
    PROVE  /\ queue' \in [Users -> [Users \cup {Inbox} -> Seq(Events)]] /\ QueueInv'
           /\ Head(queue[u][t]) \in Events /\ GoodEvent(u, Head(queue[u][t]))
<1> DEFINE q == queue[u][t]
<1>1. q \in Seq(Events) /\ q # <<>>
    BY DEF SocialInv, SocialTypeInv
<1>2. PICK r : r = Tail(q)
    OBVIOUS
<1>3. r \in Seq(Events) /\ \A i \in DOMAIN r : r[i] = q[i + 1] /\ i + 1 \in DOMAIN q
    BY <1>1, <1>2
<1>4. queue' = [queue EXCEPT ![u][t] = r]
    BY <1>2 DEF Drained, SocialInv, SocialTypeInv
<1>5. queue' \in [Users -> [Users \cup {Inbox} -> Seq(Events)]]
    BY <1>3, <1>4 DEF SocialInv, SocialTypeInv
<1>6. \A w \in Users : \A s \in Users \cup {Inbox} :
        (w = u /\ s = t /\ queue'[w][s] = r) \/ queue'[w][s] = queue[w][s]
    BY <1>4 DEF SocialInv, SocialTypeInv
<1>7. \A i \in DOMAIN r : GoodEvent(u, r[i])
    BY <1>3 DEF SocialInv, QueueInv
<1>8. \A w, e : GoodEvent(w, e) => GoodEvent(w, e)'
    BY DEF GoodEvent, PostsOf
<1>9. QueueInv'
    BY <1>6, <1>7, <1>8 DEF SocialInv, QueueInv
<1>10. Head(q) \in Events /\ GoodEvent(u, Head(q))
    <2>1. 1 \in DOMAIN q /\ Head(q) = q[1]
        BY <1>1
    <2> QED
        BY <1>1, <2>1 DEF SocialInv, QueueInv
<1> QED
    BY <1>5, <1>9, <1>10

\* Whoever was to hear of an event and did not lost it.
LEMMA Unlost ==
    ASSUME SocialInv, NEW receivers \in SUBSET Users, NEW t, NEW e, PublishTo(receivers, t, e)
    PROVE  /\ \A k : Faulty(k) => Faulty(k)'
           /\ ~Faulty("lost")' =>
                queue' = [u \in Users |-> IF u \in receivers THEN [queue[u] EXCEPT ![t] = Append(@, e)] ELSE queue[u]]
<1>1. PICK hear \in SUBSET receivers :
         /\ Fault("lost", Cardinality(receivers \ hear))
         /\ queue' = [u \in Users |-> IF u \in hear THEN [queue[u] EXCEPT ![t] = Append(@, e)] ELSE queue[u]]
    BY DEF PublishTo
<1>2. IsFiniteSet(receivers \ hear) /\ Cardinality(receivers \ hear) \in Nat
    <2>1. IsFiniteSet(Users) /\ receivers \ hear \in SUBSET Users
        BY SocialConstants DEF SocialConstants
    <2> QED
        BY <2>1, FS_Subset, FS_CardinalityType
<1>3. /\ \A k : Faulty(k) => Faulty(k)'
      /\ Cardinality(receivers \ hear) # 0 => Faulty("lost")'
    <2>1. faults \in Seq(Kinds)
        BY DEF SocialInv, SocialTypeInv
    <2>2. PICK n \in Nat : n = Cardinality(receivers \ hear)
        BY <1>2
    <2>3. Fault("lost", n)
        BY <1>1, <2>2 DEF Fault
    <2>4. "lost" \in Kinds
        BY DEF Kinds
    <2> QED
        BY <2>1, <2>2, <2>3, <2>4, FaultFacts
<1>4. ~Faulty("lost")' => hear = receivers
    <2>1. Cardinality(receivers \ hear) = 0 => receivers \ hear = {}
        BY <1>2, FS_EmptySet
    <2> QED
        BY <2>1, <1>1, <1>3
<1> QED
    BY <1>1, <1>3, <1>4

\* An event reaches all receivers, or the mesh lost it for some.
LEMMA PublishFacts ==
    ASSUME SocialInv, \A v \in Users : PostsOf(v) \subseteq PostsOf(v)',
           NEW receivers \in SUBSET Users, NEW t, NEW e \in Events,
           \A r \in receivers : GoodEvent(r, e)', PublishTo(receivers, t, e)
    PROVE  /\ queue' \in [Users -> [Users \cup {Inbox} -> Seq(Events)]] /\ QueueInv'
           /\ faults' \in Seq(Kinds) /\ \A k : Faulty(k) => Faulty(k)'
           /\ ~Faulty("lost")' =>
                queue' = [u \in Users |-> IF u \in receivers THEN [queue[u] EXCEPT ![t] = Append(@, e)] ELSE queue[u]]
<1>1. PICK hear \in SUBSET receivers :
         /\ Fault("lost", Cardinality(receivers \ hear))
         /\ queue' = [u \in Users |-> IF u \in hear THEN [queue[u] EXCEPT ![t] = Append(@, e)] ELSE queue[u]]
    BY DEF PublishTo
<1>2. IsFiniteSet(receivers \ hear) /\ Cardinality(receivers \ hear) \in Nat
    <2>1. IsFiniteSet(Users) /\ receivers \ hear \in SUBSET Users
        BY SocialConstants DEF SocialConstants
    <2> QED
        BY <2>1, FS_Subset, FS_CardinalityType
<1>3. /\ faults' \in Seq(Kinds) /\ \A k : Faulty(k) => Faulty(k)'
      /\ Cardinality(receivers \ hear) # 0 => Faulty("lost")'
    <2>1. faults \in Seq(Kinds)
        BY DEF SocialInv, SocialTypeInv
    <2>2. PICK n \in Nat : n = Cardinality(receivers \ hear)
        BY <1>2
    <2>3. Fault("lost", n)
        BY <1>1, <2>2 DEF Fault
    <2>4. "lost" \in Kinds
        BY DEF Kinds
    <2> QED
        BY <2>1, <2>2, <2>3, <2>4, FaultFacts
<1>4. ~Faulty("lost")' => hear = receivers
    <2>1. Cardinality(receivers \ hear) = 0 => receivers \ hear = {}
        BY <1>2, FS_EmptySet
    <2> QED
        BY <2>1, <1>1, <1>3
<1>5. \A u \in Users : /\ queue'[u] \in [Users \cup {Inbox} -> Seq(Events)]
                       /\ \A s \in Users \cup {Inbox} :
                            \/ queue'[u][s] = queue[u][s]
                            \/ u \in receivers /\ queue'[u][s] = Append(queue[u][s], e)
    <2> TAKE u \in Users
    <2>1. queue[u] \in [Users \cup {Inbox} -> Seq(Events)]
        BY DEF SocialInv, SocialTypeInv
    <2>2. queue'[u] = queue[u] \/ (u \in receivers /\ queue'[u] = [queue[u] EXCEPT ![t] = Append(@, e)])
        BY <1>1
    <2>3. t \in Users \cup {Inbox} => Append(queue[u][t], e) \in Seq(Events)
        BY <2>1
    <2> QED
        BY <2>1, <2>2, <2>3
<1>6. queue' \in [Users -> [Users \cup {Inbox} -> Seq(Events)]]
    BY <1>1, <1>5
<1>7. \A u : \A f \in Events : GoodEvent(u, f) => GoodEvent(u, f)'
    BY DEF GoodEvent, Events
<1>8. ASSUME NEW u \in Users, NEW s \in Users \cup {Inbox}, NEW i \in DOMAIN queue'[u][s]
      PROVE  GoodEvent(u, queue[u][s][i])'
    <2>1. queue[u][s] \in Seq(Events)
        BY DEF SocialInv, SocialTypeInv
    <2>2. \/ i \in DOMAIN queue[u][s] /\ queue'[u][s][i] = queue[u][s][i]
          \/ u \in receivers /\ queue'[u][s][i] = e
        <3>1. CASE queue'[u][s] = queue[u][s]
            BY <3>1, <1>8
        <3>2. CASE u \in receivers /\ queue'[u][s] = Append(queue[u][s], e)
            <4>1. PICK q \in Seq(Events) : q = queue[u][s]
                BY <2>1
            <4>2. PICK r : r = Append(q, e)
                OBVIOUS
            <4>3. i \in DOMAIN r => (i \in DOMAIN q /\ r[i] = q[i]) \/ r[i] = e
                BY <4>1, <4>2
            <4> QED
                BY <4>1, <4>2, <4>3, <3>2, <1>8
        <3> QED
            BY <3>1, <3>2, <1>5
    <2>3. i \in DOMAIN queue[u][s] => queue[u][s][i] \in Events /\ GoodEvent(u, queue[u][s][i])
        BY <2>1 DEF SocialInv, QueueInv
    <2>4. PICK f : f = queue'[u][s][i]
        OBVIOUS
    <2>5. GoodEvent(u, f)'
        BY <1>7, <2>2, <2>3, <2>4
    <2> QED
        BY <2>4, <2>5 DEF GoodEvent
<1>9. QueueInv'
    BY <1>8 DEF QueueInv
<1> QED
    BY <1>1, <1>3, <1>4, <1>6, <1>9

-----------------------------------------------------------------------------
(* The steps.                                                              *)

Args == Entries \cup Id \cup (SUBSET Nat) \cup Users \cup {Nothing}

\* Of what a user's feed lists, what may have no record is being deleted.
Kept(u, id) == HasRecord(u, id) \/ Deleting(u, id)

LEMMA MadeStays ==
    ASSUME made' = made, \A k : Faulty(k) => Faulty(k)'
    PROVE  Grown
    BY DEF Grown, PostsOf

LEMMA NothingHappened ==
    ASSUME faults' = faults
    PROVE  \A k : Faulty(k) => Faulty(k)'
    BY DEF Faulty

LEMMA FaultHappened ==
    ASSUME SocialInv, NEW n \in Nat, NEW kind \in Kinds, Fault(kind, n)
    PROVE  faults' \in Seq(Kinds) /\ \A k : Faulty(k) => Faulty(k)'
<1>1. faults \in Seq(Kinds)
    BY DEF SocialInv, SocialTypeInv
<1> QED
    BY <1>1, FaultFacts

\* A task begins an operation when no other is under way.
LEMMA TaskStarts ==
    ASSUME SocialInv, ~Overlap, NEW u \in Users, NEW x \in Tasks, NEW k \in Jobs,
           Free(u, x), task' = [task EXCEPT ![u][x] = k]
    PROVE  /\ task' \in [Users -> [Tasks -> Jobs]] /\ Alone(u)'
           /\ \A w \in Users \ {u} : task'[w] = task[w]
           /\ \A id : ~Deleting(u, id)
           /\ k.todo \in FilterPlans => Deleting(u, k.arg)'
           /\ GoodJob(u, k)' => (\A y \in Tasks : GoodJob(u, task[u][y]))'
<1>1. \A y \in Tasks : task[u][y] = Idle
    BY Zenon DEF Free
<1>2. SocialTypeInv
    BY DEF SocialInv
<1>3. /\ task' \in [Users -> [Tasks -> Jobs]] /\ Alone(u)'
      /\ GoodJob(u, k)' => \A y \in Tasks : GoodJob(u, task[u][y])'
      /\ task'[u][x] = k /\ \A w \in Users \ {u} : task'[w] = task[w]
    BY <1>1, <1>2, TaskMoves
<1>4. \A id : ~Deleting(u, id)
    <2>1. <<>> \notin FilterPlans
        BY FilterPlan
    <2> QED
        BY <1>1, <2>1 DEF Deleting, Idle
<1>5. k.todo \in FilterPlans => Deleting(u, k.arg)'
    BY <1>3 DEF Deleting
<1> QED
    BY <1>3, <1>4, <1>5

\* A task goes on to its next stage.
LEMMA Goes ==
    ASSUME SocialInv, NEW u \in Users, NEW x \in Tasks, Stage(u, x) \notin {"done", "record"}, NEW arg \in Args,
           Advance(u, x, arg), Stage(u, x) \in {"index", "head"} => arg \in SUBSET PostsOf(u)',
           Stage(u, x) = "filter" => arg \in Id,
           task[u][x].todo \in UserPlans => arg \in Users \/ Len(task[u][x].todo) = 1
    PROVE  /\ task' \in [Users -> [Tasks -> Jobs]] /\ Alone(u)'
           /\ \A w \in Users \ {u} : task'[w] = task[w]
           /\ \A id : Deleting(u, id) => Stage(u, x) = "filter" /\ id = task[u][x].arg
           /\ (\A y \in Tasks : GoodJob(u, task[u][y]))'
<1>1. arg \in Entries \cup Id \cup (SUBSET Nat) \cup Users \cup {Nothing}
    BY DEF Args
<1>2. /\ \A y \in Tasks \ {x} : task[u][y] = Idle
      /\ task[u][x] \in Jobs /\ task[u][x].todo # <<>> /\ Stage(u, x) = Head(task[u][x].todo)
    BY <1>1, GoesOn
<1>3. PICK k \in Jobs : /\ task' = [task EXCEPT ![u][x] = k] /\ k.snap = Nothing
                        /\ \/ k = Idle /\ Len(task[u][x].todo) = 1
                           \/ /\ Len(task[u][x].todo) # 1 /\ k.todo = Tail(task[u][x].todo) /\ k.arg = arg
    BY <1>1, GoesOn
<1>4. SocialTypeInv
    BY DEF SocialInv
<1>5. /\ task' \in [Users -> [Tasks -> Jobs]] /\ Alone(u)'
      /\ GoodJob(u, k)' => \A y \in Tasks : GoodJob(u, task[u][y])'
      /\ task'[u][x] = k /\ \A w \in Users \ {u} : task'[w] = task[w]
    BY <1>2, <1>3, <1>4, TaskMoves
<1>6. PICK t : t = task[u][x].todo
    OBVIOUS
<1>7. t \in Plans /\ t # <<>> /\ Stage(u, x) = Head(t)
    BY <1>2, <1>6 DEF Jobs
<1>8. \A id : Deleting(u, id) => Stage(u, x) = "filter" /\ id = task[u][x].arg
    <2>1. <<>> \notin FilterPlans /\ t \in FilterPlans => Head(t) = "filter"
        BY FilterPlan
    <2> QED
        BY <1>2, <1>6, <1>7, <2>1, FilterPlan DEF Deleting, Idle
<1>9. GoodJob(u, k)'
    <2>1. CASE k = Idle
        BY <2>1, IdleGood DEF GoodJob
    <2>2. CASE Len(t) # 1 /\ k.todo = Tail(t) /\ k.arg = arg
        <3>1. /\ k.todo \in Plans
              /\ t \in InsertPlans \cup {<<"tell", "index", "head", "announce">>} =>
                   k.todo \in IndexPlans /\ Head(k.todo) = "index"
              /\ t \in FilterPlans => k.todo \in IndexPlans
              /\ (t \in IndexPlans /\ Head(t) = "index") => k.todo \in HeadPlans
              /\ t \in HeadPlans => k.todo \in HeadPlans
              /\ t # MergePlan
              /\ t \in UserPlans => k.todo \in UserPlans
            BY <1>7, <2>2, PlanTail
        <3>2. /\ (k.todo \in FilterPlans \cup IndexPlans /\ k.arg \in Id) => GoodJob(u, k)'
              /\ (k.todo \in IndexPlans /\ Head(k.todo) = "index") => GoodJob(u, k)'
              /\ (k.todo \in HeadPlans /\ k.arg \in SUBSET PostsOf(u)') => GoodJob(u, k)'
              /\ (k.todo \in UserPlans /\ k.arg \in Users) => GoodJob(u, k)'
            BY <1>3, JobsGood
        <3>3. CASE t \in InsertPlans \cup {<<"tell", "index", "head", "announce">>}
            BY <3>1, <3>2, <3>3
        <3>4. CASE t \in FilterPlans
            <4>1. Head(t) = "filter"
                BY <3>4, FilterPlan
            <4> QED
                BY <1>7, <2>2, <3>1, <3>2, <3>4, <4>1
        <3>5. CASE t \in IndexPlans /\ Head(t) = "index"
            BY <1>7, <2>2, <3>1, <3>2, <3>5
        <3>6. CASE t \in HeadPlans
            <4>1. Head(t) = "head"
                BY <2>2, <3>6, HeadPlan
            <4> QED
                BY <1>7, <2>2, <3>1, <3>2, <3>6, <4>1
        <3>7. CASE t \in UserPlans
            BY <1>6, <2>2, <3>1, <3>2, <3>7
        <3>8. t \in IndexPlans => t = <<"tell", "index", "head", "announce">> \/ Head(t) = "index"
            BY IndexPlan
        <3>9. t # RecordPlan
            BY <1>7, RecordPlanOnly
        <3> QED
            BY <1>7, <3>1, <3>3, <3>4, <3>5, <3>6, <3>7, <3>8, <3>9 DEF Plans
    <2> QED
        BY <1>3, <1>6, <2>1, <2>2
<1>10. (\A y \in Tasks : GoodJob(u, task[u][y]))'
    BY <1>5, <1>9
<1> QED
    BY <1>5, <1>8, <1>10

\* A step of u that writes no feed.
LEMMA FeedStays ==
    ASSUME SocialInv, NEW u \in Users, Grown, SocialTypeInv', QueueInv', feed' = feed,
           Spoiled' \/ \A id : Kept(u, id) => Kept(u, id)',
           profile'[u].head # Nothing => profile'[u].head \subseteq PostsOf(u)',
           \A v \in Users : heads'[u][v] # Nothing => heads'[u][v] \subseteq PostsOf(v)' /\ v # u,
           Alone(u)', (\A y \in Tasks : GoodJob(u, task[u][y]))',
           \A w \in Users \ {u} : /\ posts'[w] = posts[w] /\ follows'[w] = follows[w]
                                  /\ profile'[w] = profile[w] /\ heads'[w] = heads[w] /\ task'[w] = task[w]
    PROVE  SocialInv'
<1>1. UserInv(u)
    BY DEF SocialInv
<1>2. \A e \in Entries : GoodEntry(u, e) => GoodEntry(u, e)'
    BY DEF Grown, GoodEntry, Entries
<1>3. \A i \in DOMAIN feed[u] : feed[u][i] \in Entries
    BY DEF SocialInv, SocialTypeInv
<1>4. Distinct(feed[u])' /\ (\A i \in DOMAIN feed[u] : GoodEntry(u, feed[u][i]))'
    BY <1>1, <1>2, <1>3 DEF UserInv, Distinct
<1>5. (Spoiled \/ \A i \in DOMAIN feed[u] : HasRecord(u, feed[u][i].id) \/ Deleting(u, feed[u][i].id))'
    <2>1. CASE Spoiled'
        BY <2>1
    <2>2. CASE ~Spoiled'
        <3>1. ~Spoiled
            BY <2>2 DEF Grown, Spoiled
        <3>2. ASSUME NEW i \in DOMAIN feed[u]
              PROVE  (HasRecord(u, feed[u][i].id) \/ Deleting(u, feed[u][i].id))'
            <4>1. PICK id : id = feed[u][i].id
                OBVIOUS
            <4>2. Kept(u, id)
                BY <1>1, <3>1, <4>1 DEF UserInv, Kept
            <4>3. Kept(u, id)'
                BY <2>2, <4>2
            <4>4. (feed[u][i].id)' = id
                BY <4>1
            <4> QED
                BY <4>3, <4>4 DEF Kept, HasRecord, Deleting
        <3> QED
            BY <3>2
    <2> QED
        BY <2>1, <2>2
<1>6. UserInv(u)'
    BY <1>4, <1>5 DEF UserInv
<1>7. \A w \in Users \ {u} : feed'[w] = feed[w]
    OBVIOUS
<1> QED
    BY <1>6, <1>7, OneUser

\* No task of u goes on in the step.
LEMMA TasksStay ==
    ASSUME SocialInv, NEW u \in Users, Grown, task' = task, feed'[u] = feed[u], follows'[u] = follows[u],
           profile'[u] = profile[u], \A id : HasRecord(u, id) => HasRecord(u, id)'
    PROVE  /\ Alone(u)' /\ (\A y \in Tasks : GoodJob(u, task[u][y]))'
           /\ \A id : Kept(u, id) => Kept(u, id)'
<1>1. Alone(u) /\ \A y \in Tasks : GoodJob(u, task[u][y]) /\ task[u][y] \in Jobs
    BY DEF SocialInv, UserInv, SocialTypeInv
<1>2. \A e \in Entries : GoodEntry(u, e) => GoodEntry(u, e)'
    BY DEF Grown, GoodEntry, Entries
<1>3. \A stage, f : WasRead(u, stage, f) => WasRead(u, stage, f)'
    <2>1. \A stage : FileOf(u, stage)' = FileOf(u, stage) /\ Unread(u, stage)' = Unread(u, stage)
        BY DEF FileOf, Unread
    <2> QED
        BY <2>1 DEF WasRead, Grown
<1>4. \A k \in Jobs : GoodJob(u, k) => GoodJob(u, k)'
    BY <1>2, <1>3 DEF GoodJob, Grown
<1>5. (\A y \in Tasks : GoodJob(u, task[u][y]))'
    BY <1>1, <1>4
<1>6. Alone(u)'
    BY <1>1 DEF Alone
<1>7. \A id : Deleting(u, id) => Deleting(u, id)'
    BY DEF Deleting
<1> QED
    BY <1>5, <1>6, <1>7 DEF Kept

\* A task of u that goes no further.
LEMMA AbandonStep ==
    ASSUME SocialInv, NEW u \in Users, NEW x \in Tasks, Stage(u, x) # "done", Abandon(u, x),
           UNCHANGED <<feed, follows, profile, heads, queue, made>>,
           posts' \in [Users -> SUBSET Records], \A w \in Users \ {u} : posts'[w] = posts[w],
           faults' \in Seq(Kinds), \A k : Faulty(k) => Faulty(k)',
           Spoiled' \/ (Stage(u, x) # "filter" /\ posts' = posts)
    PROVE  SocialInv'
<1>1. Stage(u, x) = Head(task[u][x].todo) /\ task[u][x].todo # <<>>
    BY DEF Stage
<1>2. \A y \in Tasks \ {x} : task[u][y] = Idle
    BY <1>1 DEF SocialInv, UserInv, Alone, Idle
<1>3. Idle \in Jobs
    BY DEF Idle, Jobs, Plans
<1>4. SocialTypeInv
    BY DEF SocialInv
<1>5. /\ task' \in [Users -> [Tasks -> Jobs]] /\ Alone(u)'
      /\ GoodJob(u, Idle)' => \A y \in Tasks : GoodJob(u, task[u][y])'
      /\ \A w \in Users \ {u} : task'[w] = task[w]
    BY <1>2, <1>3, <1>4, TaskMoves DEF Abandon
<1>6. (\A y \in Tasks : GoodJob(u, task[u][y]))'
    BY <1>5, IdleGood
<1>7. Stage(u, x) # "filter" => \A id : ~Deleting(u, id)
    <2>1. <<>> \notin FilterPlans
        BY FilterPlan
    <2> QED
        BY <1>1, <1>2, <2>1, FilterPlan DEF Deleting, Idle
<1>8. Spoiled' \/ \A id : Kept(u, id) => Kept(u, id)'
    BY <1>7 DEF Kept, HasRecord
<1>9. Grown
    BY MadeStays
<1>10. SocialTypeInv'
    BY <1>5 DEF SocialInv, SocialTypeInv
<1>11. /\ profile'[u].head # Nothing => profile'[u].head \subseteq PostsOf(u)'
       /\ \A v \in Users : heads'[u][v] # Nothing => heads'[u][v] \subseteq PostsOf(v)' /\ v # u
    BY DEF SocialInv, UserInv, PostsOf
<1>12. QueueInv'
    BY QueueStays DEF PostsOf
<1> QED
    BY <1>5, <1>6, <1>8, <1>9, <1>10, <1>11, <1>12, FeedStays

LEMMA SubscribersFacts ==
    ASSUME NEW t, NEW w
    PROVE  Subscribers(t, w) \in SUBSET Users /\ w \notin Subscribers(t, w)
    BY DEF Subscribers

LEMMA CreateStep ==
    ASSUME SocialInv, ~Overlap, NEW u \in Users, NEW pinned \in BOOLEAN, create_post(u, pinned)
    PROVE  SocialInv'
<1>1. PICK p : p = Len(made) + 1
    OBVIOUS
<1>2. PICK cid : cid = IF pinned THEN p ELSE Nothing
    OBVIOUS
<1>3. PICK e : e = [id |-> IdOf(u, p), cid |-> cid, author |-> u]
    OBVIOUS
<1>4. /\ Free(u, "ui") /\ Begin(u, "ui", RecordPlan, e) /\ made' = Append(made, u)
      /\ IF pinned THEN sign_and_publish(u, u, "post.create.v2", p)
         ELSE Fault("unpinned", 1) /\ UNCHANGED queue
      /\ UNCHANGED <<feed, posts, follows, profile, heads, notes, joined, booted>>
    BY <1>1, <1>2, <1>3 DEF create_post, files, RecordPlan
<1>5. /\ made' \in Seq(Users) /\ (\A v \in Users : PostsOf(v) \subseteq PostsOf(v)')
      /\ p \in Nat /\ p \notin DOMAIN made /\ p \in PostsOf(u)'
    <2>1. SocialTypeInv
        BY DEF SocialInv
    <2>2. PICK m \in Seq(Users) : m = made
        BY <2>1 DEF SocialTypeInv
    <2>3. PICK q : q = Append(m, u)
        OBVIOUS
    <2>4. /\ q \in Seq(Users) /\ p \in Nat /\ p \notin DOMAIN m
          /\ p \in DOMAIN q /\ q[p] = u /\ \A i \in DOMAIN m : i \in DOMAIN q /\ q[i] = m[i]
        BY <1>1, <2>2, <2>3
    <2>5. made' = q
        BY <1>4, <2>2, <2>3
    <2> QED
        BY <2>2, <2>4, <2>5 DEF PostsOf
<1>6. /\ queue' \in [Users -> [Users \cup {Inbox} -> Seq(Events)]] /\ QueueInv'
      /\ faults' \in Seq(Kinds) /\ \A k : Faulty(k) => Faulty(k)'
    <2>1. CASE pinned
        <3> DEFINE ev == [type |-> "post.create.v2", from |-> u, data |-> p]
        <3>1. ev \in Events /\ ev.type = "post.create.v2" /\ ev.from = u /\ ev.data = p
            BY <1>5 DEF Events, EventTypes
        <3>2. PublishTo(Subscribers(u, u), u, ev)
            BY <1>4, <2>1 DEF sign_and_publish
        <3> HIDE DEF ev
        <3>3. \A r \in Subscribers(u, u) : GoodEvent(r, ev)'
            BY <1>5, <3>1, SubscribersFacts DEF GoodEvent
        <3>4. PICK S \in SUBSET Users : S = Subscribers(u, u)
            BY SubscribersFacts
        <3> QED
            BY <1>5, <3>1, <3>2, <3>3, <3>4, PublishFacts
    <2>2. CASE ~pinned
        <3>1. Fault("unpinned", 1) /\ queue' = queue
            BY <1>4, <2>2
        <3>2. "unpinned" \in Kinds
            BY DEF Kinds
        <3> QED
            BY <1>5, <3>1, <3>2, FaultHappened, QueueStays DEF SocialInv, SocialTypeInv
    <2> QED
        BY <2>1, <2>2
<1>7. Grown
    BY <1>5, <1>6 DEF Grown
<1>8. e \in Entries /\ e.id = <<u, p>> /\ e.cid = cid /\ e.author = u
    BY <1>2, <1>3, <1>5 DEF Entries, Id, IdOf
<1>9. PICK k : k = [todo |-> RecordPlan, arg |-> e, snap |-> Nothing]
    OBVIOUS
<1>10. k \in Jobs /\ k.todo = RecordPlan /\ k.arg = e /\ k.snap = Nothing
    BY <1>8, <1>9 DEF Jobs, Plans
<1>11. /\ task' \in [Users -> [Tasks -> Jobs]] /\ Alone(u)'
       /\ \A w \in Users \ {u} : task'[w] = task[w]
       /\ \A id : ~Deleting(u, id)
       /\ GoodJob(u, k)' => (\A y \in Tasks : GoodJob(u, task[u][y]))'
    <2>1. "ui" \in Tasks
        BY DEF Tasks
    <2>2. task' = [task EXCEPT ![u]["ui"] = k]
        BY <1>4, <1>9 DEF Begin
    <2> QED
        BY <1>4, <1>10, <2>1, <2>2, TaskStarts
<1>12. (\A i \in DOMAIN feed[u] : feed[u][i].id # e.id)'
    <2>1. \A i \in DOMAIN feed[u] : feed[u][i].id[2] \in DOMAIN made
        BY DEF SocialInv, UserInv, GoodEntry, PostsOf
    <2> QED
        BY <1>4, <1>5, <1>8, <2>1
<1>13. GoodEntry(u, e)'
    BY <1>2, <1>5, <1>8 DEF GoodEntry
<1>14. (\A y \in Tasks : GoodJob(u, task[u][y]))'
    <2>1. k.todo \notin InsertPlans
        BY <1>10, InsertPlan, RecordPlanOnly
    <2> HIDE DEF RecordPlan
    <2>2. GoodJob(u, k)'
        BY <1>8, <1>10, <1>12, <1>13, <2>1, JobsGood
    <2> QED
        BY <1>11, <2>2
<1>15. SocialTypeInv'
    BY <1>4, <1>5, <1>6, <1>11 DEF SocialInv, SocialTypeInv
<1>16. \A id : Kept(u, id) => Kept(u, id)'
    BY <1>4, <1>11 DEF Kept, HasRecord
<1>17. /\ profile'[u].head # Nothing => profile'[u].head \subseteq PostsOf(u)'
       /\ \A v \in Users : heads'[u][v] # Nothing => heads'[u][v] \subseteq PostsOf(v)' /\ v # u
    BY <1>4, <1>5 DEF SocialInv, UserInv
<1> QED
    BY <1>4, <1>6, <1>7, <1>11, <1>14, <1>15, <1>16, <1>17, FeedStays

\* A step in which a task of u begins an operation on the posts there are; of
\* the follows, it may have read them already, and failed to.
LEMMA BeginWith ==
    ASSUME SocialInv, ~Overlap, NEW u \in Users, NEW x \in Tasks, NEW k \in Jobs, k.todo # <<>>,
           Free(u, x), task' = [task EXCEPT ![u][x] = k],
           k.snap # Nothing => Faulty("follows")' /\ Head(k.todo) \in FollowsStages /\ k.snap = NoFollows,
           made' = made, feed' = feed, follows' = follows, profile' = profile, QueueInv',
           queue' \in [Users -> [Users \cup {Inbox} -> Seq(Events)]],
           faults' \in Seq(Kinds), \A c : Faulty(c) => Faulty(c)',
           posts' \in [Users -> SUBSET Records],
           heads' \in [Users -> [Users -> (SUBSET Nat) \cup {Nothing}]],
           \A v \in Users : heads'[u][v] # Nothing => heads'[u][v] \subseteq PostsOf(v) /\ v # u,
           \A w \in Users \ {u} : posts'[w] = posts[w] /\ heads'[w] = heads[w],
           \A id : HasRecord(u, id) => HasRecord(u, id)' \/ (k.todo \in FilterPlans /\ id = k.arg),
           k.todo # RecordPlan,
           k.todo \in InsertPlans => /\ k.arg \in Entries /\ GoodEntry(u, k.arg)
                                     /\ HasRecord(u, k.arg.id)' \/ Faulty("record")'
                                     /\ \A i \in DOMAIN feed[u] : feed[u][i].id # k.arg.id,
           k.todo \in FilterPlans => k.arg \in Id,
           k.todo \in IndexPlans => Head(k.todo) = "index",
           k.todo \notin HeadPlans,
           k.todo = MergePlan => \E v \in Users \ {u} : k.arg \in SUBSET PostsOf(v),
           k.todo \in UserPlans => k.arg \in Users
    PROVE  SocialInv'
<1>1. Grown
    BY MadeStays
<1>2. /\ task' \in [Users -> [Tasks -> Jobs]] /\ Alone(u)'
      /\ \A w \in Users \ {u} : task'[w] = task[w]
      /\ \A id : ~Deleting(u, id)
      /\ k.todo \in FilterPlans => Deleting(u, k.arg)'
      /\ GoodJob(u, k)' => (\A y \in Tasks : GoodJob(u, task[u][y]))'
    BY TaskStarts
<1>3. (k.snap # Nothing => WasRead(u, Head(k.todo), k.snap))'
    BY DEF WasRead, Unread, FollowsStages
<1>4. \A v : PostsOf(v)' = PostsOf(v)
    BY DEF PostsOf
<1>5. GoodJob(u, k)'
    <2> HIDE DEF RecordPlan, MergePlan
    <2>1. CASE k.todo \in InsertPlans
        <3>1. GoodEntry(u, k.arg)' /\ (\A i \in DOMAIN feed[u] : feed[u][i].id # k.arg.id)'
            BY <2>1, <1>4 DEF GoodEntry
        <3> QED
            BY <2>1, <3>1, <1>3, JobsGood
    <2>2. CASE k.todo \in FilterPlans
        BY <2>2, <1>3, JobsGood
    <2>3. CASE k.todo \in IndexPlans
        BY <2>3, <1>3, JobsGood
    <2>4. CASE k.todo = MergePlan
        BY <2>4, <1>3, <1>4, JobsGood
    <2>5. CASE k.todo \in UserPlans
        BY <2>5, <1>3, JobsGood
    <2>6. k.todo \in Plans
        BY DEF Jobs
    <2> QED
        BY <2>1, <2>2, <2>3, <2>4, <2>5, <2>6 DEF Plans
<1>6. (\A y \in Tasks : GoodJob(u, task[u][y]))'
    BY <1>2, <1>5
<1>7. SocialTypeInv'
    BY <1>2 DEF SocialInv, SocialTypeInv
<1>8. \A id : Kept(u, id) => Kept(u, id)'
    BY <1>2 DEF Kept
<1>9. /\ profile'[u].head # Nothing => profile'[u].head \subseteq PostsOf(u)'
      /\ \A v \in Users : heads'[u][v] # Nothing => heads'[u][v] \subseteq PostsOf(v)' /\ v # u
    BY <1>4 DEF SocialInv, UserInv
<1> QED
    BY <1>1, <1>2, <1>6, <1>7, <1>8, <1>9, FeedStays

LEMMA BeginStep ==
    ASSUME SocialInv, ~Overlap, NEW u \in Users, NEW x \in Tasks, NEW todo \in Plans, todo # <<>>, NEW arg \in Args,
           Free(u, x), Begin(u, x, todo, arg),
           made' = made, feed' = feed, follows' = follows, profile' = profile, QueueInv',
           queue' \in [Users -> [Users \cup {Inbox} -> Seq(Events)]],
           faults' \in Seq(Kinds), \A k : Faulty(k) => Faulty(k)',
           posts' \in [Users -> SUBSET Records],
           heads' \in [Users -> [Users -> (SUBSET Nat) \cup {Nothing}]],
           \A v \in Users : heads'[u][v] # Nothing => heads'[u][v] \subseteq PostsOf(v) /\ v # u,
           \A w \in Users \ {u} : posts'[w] = posts[w] /\ heads'[w] = heads[w],
           \A id : HasRecord(u, id) => HasRecord(u, id)' \/ (todo \in FilterPlans /\ id = arg),
           todo # RecordPlan,
           todo \in InsertPlans => /\ arg \in Entries /\ GoodEntry(u, arg)
                                   /\ HasRecord(u, arg.id)' \/ Faulty("record")'
                                   /\ \A i \in DOMAIN feed[u] : feed[u][i].id # arg.id,
           todo \in FilterPlans => arg \in Id,
           todo \in IndexPlans => Head(todo) = "index",
           todo \notin HeadPlans,
           todo = MergePlan => \E v \in Users \ {u} : arg \in SUBSET PostsOf(v),
           todo \in UserPlans => arg \in Users
    PROVE  SocialInv'
<1> HIDE DEF RecordPlan, MergePlan
<1>1. PICK k : k = [todo |-> todo, arg |-> arg, snap |-> Nothing]
    OBVIOUS
<1>2. k \in Jobs /\ k.todo = todo /\ k.arg = arg /\ k.snap = Nothing
    BY <1>1 DEF Jobs, Args
<1>3. task' = [task EXCEPT ![u][x] = k]
    BY <1>1 DEF Begin
<1> QED
    BY <1>2, <1>3, BeginWith

\* What u heard of is good until he hears more.
LEMMA HeadsKept ==
    ASSUME SocialInv, NEW u \in Users
    PROVE  /\ \A v \in Users : heads[u][v] # Nothing => heads[u][v] \subseteq PostsOf(v) /\ v # u
           /\ heads \in [Users -> [Users -> (SUBSET Nat) \cup {Nothing}]]
           /\ posts \in [Users -> SUBSET Records] /\ faults \in Seq(Kinds)
           /\ queue \in [Users -> [Users \cup {Inbox} -> Seq(Events)]]
    BY DEF SocialInv, UserInv, SocialTypeInv

\* A step that begins an operation and does nothing else but publish nothing.
LEMMA QuietBegin ==
    ASSUME SocialInv, ~Overlap, NEW u \in Users, NEW x \in Tasks, NEW todo \in Plans, todo # <<>>, NEW arg \in Args,
           Free(u, x), Begin(u, x, todo, arg), NoEvent, UNCHANGED <<files, made>>,
           todo \notin InsertPlans \cup FilterPlans \cup HeadPlans, todo # RecordPlan,
           todo \in IndexPlans => Head(todo) = "index",
           todo = MergePlan => \E v \in Users \ {u} : arg \in SUBSET PostsOf(v),
           todo \in UserPlans => arg \in Users
    PROVE  SocialInv'
<1>1. /\ made' = made /\ feed' = feed /\ follows' = follows /\ profile' = profile /\ posts' = posts
      /\ heads' = heads /\ queue' = queue /\ faults' = faults
    BY DEF NoEvent, files
<1>2. \A k : Faulty(k) => Faulty(k)'
    BY <1>1, NothingHappened
<1>3. QueueInv'
    BY <1>1, QueueStays DEF PostsOf
<1>4. \A id : HasRecord(u, id) => HasRecord(u, id)'
    BY <1>1 DEF HasRecord
<1> HIDE DEF MergePlan, RecordPlan
<1> QED
    BY <1>1, <1>2, <1>3, <1>4, HeadsKept, BeginStep

\* The removal of a record may fail.
LEMMA RemovedFacts ==
    ASSUME SocialInv, NEW u \in Users, NEW id, Removed(u, id)
    PROVE  /\ faults' \in Seq(Kinds) /\ \A k : Faulty(k) => Faulty(k)'
           /\ \/ posts' = [posts EXCEPT ![u] = {r \in @ : r.id # id}]
              \/ posts' = posts /\ Faulty("record")'
<1>1. CASE posts' = [posts EXCEPT ![u] = {r \in @ : r.id # id}] /\ UNCHANGED faults
    BY <1>1, NothingHappened DEF SocialInv, SocialTypeInv
<1>2. CASE UNCHANGED posts /\ Fault("record", 1)
    <2>1. "record" \in Kinds
        BY DEF Kinds
    <2> QED
        BY <1>2, <2>1, FaultFacts DEF SocialInv, SocialTypeInv
<1> QED
    BY <1>1, <1>2 DEF Removed

LEMMA DeleteStep ==
    ASSUME SocialInv, ~Overlap, NEW u \in Users, NEW p \in DOMAIN made, delete_post(u, p)
    PROVE  SocialInv'
<1> DEFINE todo == <<"filter", "tell", "index", "head", "announce">>
<1>1. PICK id : id = IdOf(u, p)
    OBVIOUS
<1>2. /\ Free(u, "ui") /\ Begin(u, "ui", todo, id) /\ "ui" \in Tasks
      /\ Removed(u, id)
      /\ made' = made /\ feed' = feed /\ follows' = follows /\ profile' = profile
      /\ heads' = heads /\ queue' = queue
    BY <1>1 DEF delete_post, Tasks
<1>3. id \in Id
    <2>1. made \in Seq(Users)
        BY DEF SocialInv, SocialTypeInv
    <2>2. p \in Nat
        BY <2>1
    <2> QED
        BY <1>1, <2>2 DEF Id, IdOf
<1>4. todo \in Plans /\ todo # <<>> /\ todo \in FilterPlans /\ id \in Args
    BY <1>3, FiveLeft DEF Plans, FilterPlans, Args
<1>5. /\ todo \notin InsertPlans /\ todo \notin IndexPlans /\ todo \notin HeadPlans /\ todo \notin UserPlans
      /\ todo # MergePlan /\ todo # RecordPlan
    BY <1>4, FilterPlan, InsertPlan, IndexPlan, HeadPlan, MergePlanOnly, RecordPlanOnly, UserPlan DEF FollowsStages
<1> HIDE DEF todo, MergePlan, RecordPlan
<1>6. /\ faults' \in Seq(Kinds) /\ \A k : Faulty(k) => Faulty(k)'
      /\ posts' = posts \/ posts' = [posts EXCEPT ![u] = {r \in @ : r.id # id}]
    BY <1>2, RemovedFacts
<1>7. QueueInv'
    BY <1>2, QueueStays DEF PostsOf
<1>8. posts' \in [Users -> SUBSET Records] /\ \A w \in Users \ {u} : posts'[w] = posts[w]
    BY <1>6 DEF SocialInv, SocialTypeInv
<1>9. posts'[u] = posts[u] \/ posts'[u] = {r \in posts[u] : r.id # id}
    BY <1>6 DEF SocialInv, SocialTypeInv
<1>10. \A i : HasRecord(u, i) => HasRecord(u, i)' \/ i = id
    BY <1>9 DEF HasRecord
<1>11. /\ \A v \in Users : heads'[u][v] # Nothing => heads'[u][v] \subseteq PostsOf(v) /\ v # u
       /\ heads' \in [Users -> [Users -> (SUBSET Nat) \cup {Nothing}]]
       /\ queue' \in [Users -> [Users \cup {Inbox} -> Seq(Events)]]
       /\ \A w \in Users \ {u} : posts'[w] = posts[w] /\ heads'[w] = heads[w]
    BY <1>2, <1>8, HeadsKept
<1>12. \A i : HasRecord(u, i) => HasRecord(u, i)' \/ (todo \in FilterPlans /\ i = id)
    BY <1>4, <1>10
<1> QED
    BY <1>2, <1>3, <1>4, <1>5, <1>6, <1>7, <1>8, <1>11, <1>12, BeginStep

LEMMA FollowStep ==
    ASSUME SocialInv, ~Overlap, NEW u \in Users, NEW v \in Users,
           follow_user_with(u, v) \/ unfollow_user(u, v)
    PROVE  SocialInv'
<1>1. PICK todo \in {<<"follow", "mirror", "request">>, <<"unfollow", "mirror", "goodbye">>} :
        /\ Free(u, "ui") /\ Begin(u, "ui", todo, v) /\ NoEvent /\ UNCHANGED <<files, made>>
    BY DEF follow_user_with, unfollow_user
<1>2. todo \in UserPlans /\ todo \in Plans /\ todo # <<>> /\ "ui" \in Tasks /\ v \in Args
    BY UserPlan DEF Plans, UserPlans, Tasks, Args
<1>3. /\ todo \notin InsertPlans /\ todo \notin FilterPlans /\ todo \notin IndexPlans /\ todo \notin HeadPlans
      /\ todo # MergePlan /\ todo # RecordPlan
    BY <1>2, FilterPlan, InsertPlan, IndexPlan, HeadPlan, MergePlanOnly, RecordPlanOnly, UserPlan DEF FollowsStages
<1> HIDE DEF MergePlan, RecordPlan
<1> QED
    BY <1>1, <1>2, <1>3, QuietBegin

LEMMA BackfillStep ==
    ASSUME SocialInv, ~Overlap, NEW u \in Users, maybe_backfill_known_heads(u)
    PROVE  SocialInv'
<1>0. "fill" \in Tasks
    BY DEF Tasks
<1>1. CASE PublishOwnOnce(u)
    <2> DEFINE todo == <<"index", "head">>
    <2>1. Free(u, "fill") /\ Begin(u, "fill", todo, Nothing) /\ NoEvent /\ UNCHANGED <<files, made>>
        BY <1>1 DEF PublishOwnOnce, counts
    <2>2. todo \in IndexPlans /\ todo \in Plans /\ todo # <<>> /\ Head(todo) = "index" /\ Nothing \in Args
        BY TwoLeft DEF Plans, IndexPlans, Args
    <2> HIDE DEF todo
    <2>3. /\ todo \notin InsertPlans /\ todo \notin FilterPlans /\ todo \notin UserPlans /\ todo \notin HeadPlans
          /\ todo # MergePlan /\ todo # RecordPlan
        BY <2>2, FilterPlan, InsertPlan, HeadPlan, MergePlanOnly, RecordPlanOnly, UserPlan DEF FollowsStages
    <2> HIDE DEF MergePlan, RecordPlan
    <2> QED
        BY <1>0, <2>1, <2>2, <2>3, QuietBegin
<1>2. CASE MergeKnownHeads(u)
    <2>1. PICK v \in Users : heads[u][v] # Nothing /\ Begin(u, "fill", MergePlan, heads[u][v])
        BY <1>2 DEF MergeKnownHeads, MergePlan
    <2>2. Free(u, "fill") /\ NoEvent /\ UNCHANGED <<files, made>>
        BY <1>2 DEF MergeKnownHeads, counts
    <2>3. PICK head : head = heads[u][v]
        OBVIOUS
    <2>4. head \in SUBSET PostsOf(v) /\ v # u /\ head \in SUBSET Nat
        BY <2>1, <2>3, HeadsKept
    <2>5. /\ MergePlan \in Plans /\ MergePlan # <<>> /\ head \in Args
          /\ MergePlan \notin InsertPlans /\ MergePlan \notin FilterPlans /\ MergePlan \notin IndexPlans
          /\ MergePlan \notin HeadPlans /\ MergePlan \notin UserPlans /\ MergePlan # RecordPlan
        BY <2>4, FilterPlan, InsertPlan, IndexPlan, HeadPlan, MergePlanOnly, RecordPlanOnly, UserPlan DEF Plans, FollowsStages, Args
    <2>6. Begin(u, "fill", MergePlan, head)
        BY <2>1, <2>3
    <2> HIDE DEF MergePlan, RecordPlan
    <2> QED
        BY <1>0, <2>2, <2>4, <2>5, <2>6, QuietBegin
<1> QED
    BY <1>1, <1>2 DEF maybe_backfill_known_heads

LEMMA OverlayStep ==
    ASSUME SocialInv, NEW u \in Users, NEW r \in posts[u], NEW kind \in {"post.react", "post.comment"},
           Overlay(u, r, kind)
    PROVE  SocialInv'
<1> DEFINE new == IF kind = "post.react" THEN [r EXCEPT !.likes = Toggled(@, u)]
                  ELSE [r EXCEPT !.comments = @ + 1]
           ev == [type |-> kind, from |-> u, data |-> <<r.id, u>>]
           S == Subscribers(made[r.id[2]], u)
<1>1. r \in Records
    BY DEF SocialInv, SocialTypeInv
<1>2. new \in Records /\ new.id = r.id
    BY <1>1 DEF Records, Toggled
<1>3. ev \in Events /\ ev.type \in {"post.react", "post.comment"} /\ ev.from = u /\ ev.data \in Id \X Users
    BY <1>1 DEF Events, EventTypes, Records
<1>4. /\ posts' = [posts EXCEPT ![u] = (@ \ {r}) \cup {new}]
      /\ PublishTo(S, made[r.id[2]], ev)
      /\ feed' = feed /\ follows' = follows /\ profile' = profile /\ heads' = heads /\ task' = task
      /\ made' = made
    BY DEF Overlay, sign_and_publish
<1>5. S \in SUBSET Users /\ u \notin S
    BY SubscribersFacts
<1> HIDE DEF new, ev, S
<1>6. \A s \in S : GoodEvent(s, ev)'
    BY <1>3, <1>5 DEF GoodEvent
<1>7. PICK t : t = made[r.id[2]]
    OBVIOUS
<1>8. PublishTo(S, t, ev) /\ \A v \in Users : PostsOf(v) \subseteq PostsOf(v)'
    BY <1>4, <1>7 DEF PostsOf
<1>9. PICK R \in SUBSET Users : R = S
    BY <1>5
<1>10. PICK e \in Events : e = ev
    BY <1>3
<1>11. /\ queue' \in [Users -> [Users \cup {Inbox} -> Seq(Events)]] /\ QueueInv'
       /\ faults' \in Seq(Kinds) /\ \A k : Faulty(k) => Faulty(k)'
    <2>1. PublishTo(R, t, e) /\ \A s \in R : GoodEvent(s, e)'
        BY <1>6, <1>8, <1>9, <1>10 DEF GoodEvent
    <2> QED
        BY <1>8, <2>1, PublishFacts
<1>12. Grown
    BY <1>4, <1>11, MadeStays
<1>13. posts' \in [Users -> SUBSET Records] /\ \A w \in Users \ {u} : posts'[w] = posts[w]
    BY <1>2, <1>4 DEF SocialInv, SocialTypeInv
<1>14. posts'[u] = (posts[u] \ {r}) \cup {new}
    BY <1>4 DEF SocialInv, SocialTypeInv
<1>15. \A id : HasRecord(u, id) => HasRecord(u, id)'
    BY <1>2, <1>14 DEF HasRecord
<1>16. /\ Alone(u)' /\ (\A y \in Tasks : GoodJob(u, task[u][y]))'
       /\ \A id : Kept(u, id) => Kept(u, id)'
    BY <1>4, <1>12, <1>15, TasksStay
<1>17. SocialTypeInv'
    BY <1>4, <1>11, <1>13 DEF SocialInv, SocialTypeInv
<1>18. /\ profile'[u].head # Nothing => profile'[u].head \subseteq PostsOf(u)'
       /\ \A v \in Users : heads'[u][v] # Nothing => heads'[u][v] \subseteq PostsOf(v)' /\ v # u
    BY <1>4 DEF SocialInv, UserInv, PostsOf
<1> QED
    BY <1>4, <1>11, <1>12, <1>13, <1>16, <1>17, <1>18, FeedStays

\* A step that changes nothing of what the invariant speaks of.
LEMMA NothingStep ==
    ASSUME SocialInv, UNCHANGED <<feed, posts, follows, profile, heads, queue, task, made, faults>>
    PROVE  SocialInv'
<1>1. SocialTypeInv'
    BY DEF SocialInv, SocialTypeInv
<1>2. QueueInv'
    BY QueueStays DEF PostsOf
<1>3. Grown
    BY MadeStays, NothingHappened
<1>4. ASSUME NEW u \in Users PROVE UserInv(u)'
    BY <1>3, UserStays DEF SocialInv
<1> QED
    BY <1>1, <1>2, <1>4 DEF SocialInv

LEMMA ReadStep ==
    ASSUME SocialInv, NEW u \in Users, mark_all_read(u)
    PROVE  SocialInv'
    BY NothingStep DEF mark_all_read, NoEvent

\* What a stage reads.
LEMMA FileRead ==
    ASSUME SocialInv, NEW u \in Users,
           NEW stage \in FeedStages \cup FollowsStages \cup ProfileStages
    PROVE  /\ FileOf(u, stage) \in Seq(Entries) \cup FollowTables \cup Profiles
           /\ stage \in FeedStages => FileOf(u, stage) = feed[u]
           /\ stage \in FollowsStages => FileOf(u, stage) = follows[u]
           /\ stage = "head" => FileOf(u, stage) = profile[u]
           /\ stage = "mirror" => FileOf(u, stage) = [profile[u] EXCEPT !.followers = follows[u].followers,
                                                                        !.following = follows[u].following]
<1>1. feed[u] \in Seq(Entries) /\ follows[u] \in FollowTables /\ profile[u] \in Profiles
    BY DEF SocialInv, SocialTypeInv
<1>2. [profile[u] EXCEPT !.followers = follows[u].followers, !.following = follows[u].following] \in Profiles
    BY <1>1 DEF FollowTables, Profiles
<1>3. CASE stage \in FeedStages
    <2>1. stage \notin FollowsStages /\ stage # "head" /\ stage # "mirror"
        BY <1>3 DEF FeedStages, FollowsStages
    <2> QED
        BY <1>1, <1>3, <2>1 DEF FileOf
<1>4. CASE stage \in FollowsStages
    <2>1. stage \notin FeedStages /\ stage # "head" /\ stage # "mirror"
        BY <1>4 DEF FeedStages, FollowsStages
    <2> QED
        BY <1>1, <1>4, <2>1 DEF FileOf
<1>5. CASE stage = "head"
    <2>1. stage \notin FeedStages /\ stage \notin FollowsStages /\ stage # "mirror"
        BY <1>5 DEF FeedStages, FollowsStages
    <2> QED
        BY <1>1, <1>5, <2>1 DEF FileOf
<1>6. CASE stage = "mirror"
    <2>1. stage \notin FeedStages /\ stage \notin FollowsStages /\ stage # "head"
        BY <1>6 DEF FeedStages, FollowsStages
    <2> QED
        BY <1>2, <1>6, <2>1 DEF FileOf
<1> QED
    BY <1>3, <1>4, <1>5, <1>6 DEF ProfileStages

\* A task has read a file, or takes it for empty.
LEMMA SnapStep ==
    ASSUME SocialInv, NEW u \in Users, NEW x \in Tasks, NEW stage \in FeedStages \cup FollowsStages \cup ProfileStages,
           stage = Stage(u, x), NEW f \in Seq(Entries) \cup FollowTables \cup Profiles, WasRead(u, stage, f)',
           task' = [task EXCEPT ![u][x].snap = f], faults' \in Seq(Kinds), \A c : Faulty(c) => Faulty(c)',
           UNCHANGED <<feed, posts, follows, profile, heads, queue, made>>
    PROVE  SocialInv'
<1>3. PICK j : j = task[u][x]
    OBVIOUS
<1>4. task' = [task EXCEPT ![u][x] = [@ EXCEPT !.snap = f]]
    OBVIOUS
<1>5. j \in Jobs /\ GoodJob(u, j) /\ j.todo # <<>> /\ stage = Head(j.todo)
    <2>1. stage # "done"
        BY DEF FeedStages, FollowsStages, ProfileStages
    <2> QED
        BY <1>3, <2>1 DEF SocialInv, SocialTypeInv, UserInv, Stage
<1> DEFINE k == [j EXCEPT !.snap = f]
<1>6. k \in Jobs /\ k.todo = j.todo /\ k.arg = j.arg /\ k.snap = f
    BY <1>5 DEF Jobs
<1>7. task' = [task EXCEPT ![u][x] = k]
    BY <1>3, <1>4 DEF SocialInv, SocialTypeInv
<1> HIDE DEF k
<1>8. \A y \in Tasks \ {x} : task[u][y] = Idle
    BY <1>3, <1>5 DEF SocialInv, UserInv, Alone, Idle
<1>9. SocialTypeInv
    BY DEF SocialInv
<1>10. /\ task' \in [Users -> [Tasks -> Jobs]] /\ Alone(u)'
       /\ GoodJob(u, k)' => \A y \in Tasks : GoodJob(u, task[u][y])'
       /\ task'[u][x] = k /\ \A y \in Tasks \ {x} : task'[u][y] = Idle
       /\ \A w \in Users \ {u} : task'[w] = task[w]
    BY <1>6, <1>7, <1>8, <1>9, TaskMoves
<1>11. /\ \A e \in Entries : GoodEntry(u, e) <=> GoodEntry(u, e)'
       /\ \A id : HasRecord(u, id) <=> HasRecord(u, id)'
       /\ \A v : PostsOf(v)' = PostsOf(v)
    BY DEF GoodEntry, PostsOf, HasRecord
<1>13. GoodJob(u, k)'
    <2>1. WasRead(u, Head(k.todo), k.snap)'
        BY <1>5, <1>6 DEF WasRead, FileOf, Unread
    <2>2. k.todo # <<>>
        BY <1>5, <1>6
    <2>3. k.todo \in InsertPlans => HasRecord(u, k.arg.id)' \/ Faulty("record")'
        BY <1>5, <1>6, <1>11 DEF GoodJob
    <2> QED
        BY <1>5, <1>6, <1>11, <2>1, <2>2, <2>3 DEF GoodJob
<1>14. (\A y \in Tasks : GoodJob(u, task[u][y]))'
    BY <1>10, <1>13
<1>15. \A id : Deleting(u, id) => Deleting(u, id)'
    <2>1. <<>> \notin FilterPlans
        BY FilterPlan
    <2> QED
        BY <1>3, <1>6, <1>8, <1>10, <2>1 DEF Deleting, Idle
<1>16. \A id : Kept(u, id) => Kept(u, id)'
    BY <1>11, <1>15 DEF Kept
<1>17. Grown
    BY MadeStays
<1>18. QueueInv'
    BY <1>11, QueueStays
<1>19. SocialTypeInv'
    BY <1>10 DEF SocialInv, SocialTypeInv
<1>20. /\ profile'[u].head # Nothing => profile'[u].head \subseteq PostsOf(u)'
       /\ \A v \in Users : heads'[u][v] # Nothing => heads'[u][v] \subseteq PostsOf(v)' /\ v # u
    BY <1>11 DEF SocialInv, UserInv
<1> QED
    BY <1>10, <1>14, <1>16, <1>17, <1>18, <1>19, <1>20, FeedStays

LEMMA ReadFileStep ==
    ASSUME SocialInv, NEW u \in Users, NEW x \in Tasks, ReadFile(u, x)
    PROVE  SocialInv'
<1>1. PICK stage : stage = Stage(u, x)
    OBVIOUS
<1>2. PICK f : f = FileOf(u, stage)
    OBVIOUS
<1>3. /\ stage \in FeedStages \cup FollowsStages \cup ProfileStages
      /\ task' = [task EXCEPT ![u][x].snap = f]
      /\ UNCHANGED <<feed, posts, follows, profile, heads, queue, made, faults>>
    BY <1>1, <1>2 DEF ReadFile, NoEvent, files, counts
<1>4. f \in Seq(Entries) \cup FollowTables \cup Profiles
    BY <1>2, <1>3, FileRead
<1>5. WasRead(u, stage, f)'
    BY <1>2, <1>3 DEF WasRead, FileOf
<1>6. faults' \in Seq(Kinds) /\ \A c : Faulty(c) => Faulty(c)'
    BY <1>3, NothingHappened DEF SocialInv, SocialTypeInv
<1> QED
    BY <1>1, <1>3, <1>4, <1>5, <1>6, SnapStep

LEMMA ReloadStep ==
    ASSUME SocialInv, NEW u \in Users, Reload(u)
    PROVE  SocialInv'
<1>1. /\ Fault("reload", 1) /\ task' = [task EXCEPT ![u] = [x \in Tasks |-> Idle]]
      /\ feed' = feed /\ posts' = posts /\ follows' = follows /\ profile' = profile /\ heads' = heads
      /\ queue' = queue /\ made' = made
    BY DEF Reload, files, counts
<1>2. "reload" \in Kinds
    BY DEF Kinds
<1>3. faults' \in Seq(Kinds) /\ (\A k : Faulty(k) => Faulty(k)') /\ Faulty("reload")'
    BY <1>1, <1>2, FaultFacts DEF SocialInv, SocialTypeInv
<1>4. Idle \in Jobs
    BY DEF Idle, Jobs, Plans
<1>5. /\ task' \in [Users -> [Tasks -> Jobs]]
      /\ \A w \in Users \ {u} : task'[w] = task[w]
      /\ \A y \in Tasks : task'[u][y] = Idle
    BY <1>1, <1>4 DEF SocialInv, SocialTypeInv
<1>6. Alone(u)'
    BY <1>5 DEF Alone
<1>7. (\A y \in Tasks : GoodJob(u, task[u][y]))'
    <2> SUFFICES ASSUME NEW y \in Tasks PROVE GoodJob(u, task[u][y])'
        OBVIOUS
    <2>1. task'[u][y] = Idle
        BY <1>5
    <2>2. GoodJob(u, Idle)'
        BY IdleGood
    <2> QED
        BY <2>1, <2>2 DEF GoodJob
<1>8. Grown
    BY <1>1, <1>3, MadeStays
<1>9. QueueInv'
    BY <1>1, QueueStays DEF PostsOf
<1>10. SocialTypeInv'
    BY <1>1, <1>3, <1>5 DEF SocialInv, SocialTypeInv
<1>11. /\ profile'[u].head # Nothing => profile'[u].head \subseteq PostsOf(u)'
       /\ \A v \in Users : heads'[u][v] # Nothing => heads'[u][v] \subseteq PostsOf(v)' /\ v # u
    BY <1>1 DEF SocialInv, UserInv, PostsOf
<1> QED
    BY <1>1, <1>3, <1>5, <1>6, <1>7, <1>8, <1>9, <1>10, <1>11, FeedStays DEF Spoiled

\* A step of u that writes the feed, in the last stage of a task on it.
LEMMA FeedWritten ==
    ASSUME SocialInv, NEW u \in Users, NEW x \in Tasks, Stage(u, x) \in FeedStages, Advance(u, x, task[u][x].arg),
           feed' \in [Users -> Seq(Entries)], posts' \in [Users -> SUBSET Records],
           faults' \in Seq(Kinds), \A k : Faulty(k) => Faulty(k)',
           UNCHANGED <<follows, profile, heads, queue, made>>,
           \A w \in Users \ {u} : feed'[w] = feed[w] /\ posts'[w] = posts[w],
           Distinct(feed'[u]), \A i \in DOMAIN feed'[u] : GoodEntry(u, feed'[u][i]),
           (Spoiled \/ \A i \in DOMAIN feed[u] : HasRecord(u, feed[u][i].id))'
    PROVE  SocialInv'
<1>1. PICK j : j = task[u][x]
    OBVIOUS
<1>2. j \in Jobs /\ GoodJob(u, j) /\ j.todo # <<>> /\ Stage(u, x) = Head(j.todo) /\ Stage(u, x) # "done"
    <2>1. Stage(u, x) # "done"
        BY DEF FeedStages
    <2> QED
        BY <1>1, <2>1 DEF SocialInv, SocialTypeInv, UserInv, Stage
<1>3. j.todo \in Plans
    BY <1>2 DEF Jobs
<1>4. /\ j.todo \in FilterPlans <=> Stage(u, x) = "filter"
      /\ j.todo \notin UserPlans
      /\ Stage(u, x) \notin {"index", "head", "record"}
    <2>1. Stage(u, x) \notin FollowsStages \cup {"mirror", "request", "goodbye", "hand", "notify"}
        BY DEF FeedStages, FollowsStages
    <2> QED
        BY <1>2, <1>3, <2>1, PlanKinds DEF FeedStages
<1>5. j.arg \in Args /\ (Stage(u, x) = "filter" => j.arg \in Id)
    BY <1>2, <1>4 DEF Jobs, Args, GoodJob
<1>6. Advance(u, x, j.arg)
    BY <1>1
<1>7. /\ task' \in [Users -> [Tasks -> Jobs]] /\ Alone(u)'
      /\ \A w \in Users \ {u} : task'[w] = task[w]
      /\ (\A y \in Tasks : GoodJob(u, task[u][y]))'
    BY <1>1, <1>2, <1>4, <1>5, <1>6, Goes
<1>8. Grown
    BY MadeStays
<1>9. QueueInv'
    BY QueueStays DEF PostsOf
<1>10. SocialTypeInv'
    BY <1>7 DEF SocialInv, SocialTypeInv
<1>11. \A e : GoodEntry(u, e) => GoodEntry(u, e)'
    BY DEF GoodEntry, PostsOf
<1>12. Distinct(feed[u])' /\ (\A i \in DOMAIN feed[u] : GoodEntry(u, feed[u][i]))'
    <2>1. Distinct(feed[u])'
        BY DEF Distinct
    <2> QED
        BY <1>11, <2>1
<1>13. (Spoiled \/ \A i \in DOMAIN feed[u] : HasRecord(u, feed[u][i].id) \/ Deleting(u, feed[u][i].id))'
    OBVIOUS
<1>14. (profile[u].head # Nothing => profile[u].head \subseteq PostsOf(u))'
    BY DEF SocialInv, UserInv, PostsOf
<1>15. (\A v \in Users : heads[u][v] # Nothing => heads[u][v] \subseteq PostsOf(v) /\ v # u)'
    BY DEF SocialInv, UserInv, PostsOf
<1>16. UserInv(u)'
    BY <1>7, <1>12, <1>13, <1>14, <1>15 DEF UserInv
<1>17. \A w \in Users \ {u} : /\ feed'[w] = feed[w] /\ posts'[w] = posts[w] /\ follows'[w] = follows[w]
                              /\ profile'[w] = profile[w] /\ heads'[w] = heads[w] /\ task'[w] = task[w]
    BY <1>7
<1> QED
    BY <1>8, <1>9, <1>10, <1>16, <1>17, OneUser

\* What the feed lists has a record, but for the post that a deletion is at.
LEMMA ListedRecorded ==
    ASSUME SocialInv, NEW u \in Users, NEW x \in Tasks, Stage(u, x) \in FeedStages
    PROVE  Spoiled \/ \A i \in DOMAIN feed[u] :
              HasRecord(u, feed[u][i].id) \/ (Stage(u, x) = "filter" /\ feed[u][i].id = task[u][x].arg)
<1>1. task[u][x] \in Jobs /\ task[u][x].todo # <<>> /\ Stage(u, x) = Head(task[u][x].todo)
    BY DEF FeedStages, Stage, SocialInv, SocialTypeInv
<1>2. \A y \in Tasks \ {x} : task[u][y] = Idle
    BY <1>1 DEF SocialInv, UserInv, Alone, Idle
<1>3. \A id : Deleting(u, id) => Stage(u, x) = "filter" /\ id = task[u][x].arg
    <2>1. <<>> \notin FilterPlans
        BY FilterPlan
    <2> QED
        BY <1>1, <1>2, <2>1, FilterPlan DEF Deleting, Idle
<1> QED
    BY <1>3 DEF SocialInv, UserInv

LEMMA InsertStep ==
    ASSUME SocialInv, NEW u \in Users, NEW x \in Tasks, WriteFeed(u, x), Stage(u, x) = "insert"
    PROVE  SocialInv'
<1>1. PICK j : j = task[u][x]
    OBVIOUS
<1>2. PICK a : a = j.arg
    OBVIOUS
<1>3. /\ feed' = [feed EXCEPT ![u] = <<a>> \o j.snap] /\ posts' = posts /\ faults' = faults
      /\ j.snap # Nothing /\ Advance(u, x, task[u][x].arg)
      /\ UNCHANGED <<follows, profile, heads, queue, made>>
    BY <1>1, <1>2 DEF WriteFeed, counts
<1>4. j \in Jobs /\ GoodJob(u, j) /\ j.todo # <<>> /\ Head(j.todo) = "insert"
    BY <1>1 DEF Stage, SocialInv, SocialTypeInv, UserInv
<1>5. j.todo \in InsertPlans
    BY <1>4, PlanKinds DEF Jobs
<1>6. /\ a \in Entries /\ GoodEntry(u, a)
      /\ HasRecord(u, a.id) \/ Spoiled
      /\ \A i \in DOMAIN feed[u] : feed[u][i].id # a.id
    BY <1>2, <1>4, <1>5 DEF GoodJob, Spoiled
<1>7. Stage(u, x) \in FeedStages
    BY DEF FeedStages
<1>8. PICK s \in Seq(Entries) : s = feed[u]
    BY DEF SocialInv, SocialTypeInv
<1>9. j.snap = s
    <2>1. FileOf(u, "insert") = feed[u]
        BY FileRead DEF FeedStages
    <2> QED
        BY <2>1, <1>3, <1>4, <1>8 DEF GoodJob, WasRead, FollowsStages
<1>10. PICK m : m = <<a>> \o s
    OBVIOUS
<1>11. /\ m \in Seq(Entries)
       /\ \A i \in DOMAIN m : (i = 1 /\ m[i] = a) \/ (i # 1 /\ i \in Nat /\ i - 1 \in DOMAIN s /\ m[i] = s[i - 1])
    BY <1>6, <1>8, <1>10
<1>12. feed' \in [Users -> Seq(Entries)] /\ feed'[u] = m /\ \A w \in Users \ {u} : feed'[w] = feed[w]
    BY <1>3, <1>9, <1>10, <1>11 DEF SocialInv, SocialTypeInv
<1>13. Distinct(m)
    <2>1. Distinct(s)
        BY <1>8 DEF SocialInv, UserInv
    <2>2. \A i \in DOMAIN s : s[i].id # a.id
        BY <1>6, <1>8
    <2> SUFFICES ASSUME NEW i \in DOMAIN m, NEW k \in DOMAIN m, m[i].id = m[k].id PROVE i = k
        BY DEF Distinct
    <2>3. CASE i = 1 /\ k = 1
        BY <2>3
    <2>4. CASE i # 1 /\ k = 1
        BY <2>2, <2>4, <1>11
    <2>5. CASE i = 1 /\ k # 1
        BY <2>2, <2>5, <1>11
    <2>6. CASE i # 1 /\ k # 1
        <3>1. i - 1 = k - 1 /\ i \in Nat /\ k \in Nat
            BY <2>1, <2>6, <1>11 DEF Distinct
        <3> QED
            BY <3>1
    <2> QED
        BY <2>3, <2>4, <2>5, <2>6
<1>14. \A i \in DOMAIN m : GoodEntry(u, m[i])
    <2>1. \A i \in DOMAIN s : GoodEntry(u, s[i])
        BY <1>8 DEF SocialInv, UserInv
    <2> QED
        BY <2>1, <1>6, <1>11
<1>15. Spoiled \/ \A i \in DOMAIN m : HasRecord(u, m[i].id)
    BY <1>6, <1>7, <1>8, <1>11, ListedRecorded
<1>16. (Spoiled \/ \A i \in DOMAIN feed[u] : HasRecord(u, feed[u][i].id))'
    BY <1>3, <1>12, <1>15 DEF HasRecord, Faulty, Spoiled
<1>17. \A k : Faulty(k) => Faulty(k)'
    BY <1>3, NothingHappened
<1>18. posts' \in [Users -> SUBSET Records] /\ faults' \in Seq(Kinds) /\ \A w \in Users \ {u} : posts'[w] = posts[w]
    BY <1>3 DEF SocialInv, SocialTypeInv
<1> QED
    BY <1>3, <1>7, <1>12, <1>13, <1>14, <1>16, <1>17, <1>18, FeedWritten

LEMMA FilterStep ==
    ASSUME SocialInv, NEW u \in Users, NEW x \in Tasks, WriteFeed(u, x), Stage(u, x) = "filter"
    PROVE  SocialInv'
<1>1. PICK j : j = task[u][x]
    OBVIOUS
<1>2. PICK a : a = j.arg
    OBVIOUS
<1>3. /\ feed' = [feed EXCEPT ![u] = Retained(j.snap, {e \in Range(j.snap) : e.id # a})]
      /\ IF x = "poll" THEN Removed(u, a) ELSE UNCHANGED <<posts, faults>>
      /\ j.snap # Nothing /\ Advance(u, x, task[u][x].arg)
      /\ UNCHANGED <<follows, profile, heads, queue, made>>
    BY <1>1, <1>2 DEF WriteFeed, counts
<1>4. j \in Jobs /\ GoodJob(u, j) /\ j.todo # <<>> /\ Head(j.todo) = "filter"
    BY <1>1 DEF Stage, SocialInv, SocialTypeInv, UserInv
<1>5. Stage(u, x) \in FeedStages
    BY DEF FeedStages
<1>6. PICK s \in Seq(Entries) : s = feed[u]
    BY DEF SocialInv, SocialTypeInv
<1>7. j.snap = s
    <2>1. FileOf(u, "filter") = feed[u]
        BY FileRead DEF FeedStages
    <2> QED
        BY <2>1, <1>3, <1>4, <1>6 DEF GoodJob, WasRead, FollowsStages
<1>8. PICK m : m = Retained(s, {e \in Range(s) : e.id # a})
    OBVIOUS
<1>9. Distinct(s) /\ \A i \in DOMAIN s : GoodEntry(u, s[i])
    BY <1>6 DEF SocialInv, UserInv
<1>10. /\ m \in Seq(Entries) /\ Distinct(m)
       /\ \A i \in DOMAIN m : m[i].id # a /\ \E k \in DOMAIN s : m[i] = s[k]
    <2>1. PICK S : S = {e \in Range(s) : e.id # a}
        OBVIOUS
    <2>2. \A e \in S : e.id # a
        BY <2>1
    <2>3. m = Retained(s, S)
        BY <1>8, <2>1
    <2> QED
        <3>1. /\ m \in Seq(Entries) /\ Distinct(m)
              /\ \A i \in DOMAIN m : m[i] \in S /\ \E k \in DOMAIN s : m[i] = s[k]
            BY <2>3, <1>9, FilteredFacts
        <3> QED
            BY <2>2, <3>1
<1>11. feed' \in [Users -> Seq(Entries)] /\ feed'[u] = m /\ \A w \in Users \ {u} : feed'[w] = feed[w]
    BY <1>3, <1>7, <1>8, <1>10 DEF SocialInv, SocialTypeInv
<1>12. \A i \in DOMAIN m : GoodEntry(u, m[i])
    BY <1>9, <1>10
<1>13. Spoiled \/ \A i \in DOMAIN m : HasRecord(u, m[i].id) /\ m[i].id # a
    <2>1. Spoiled \/ \A k \in DOMAIN s : HasRecord(u, s[k].id) \/ s[k].id = a
        BY <1>1, <1>2, <1>5, <1>6, ListedRecorded
    <2> QED
        BY <1>10, <2>1
<1>14. /\ faults' \in Seq(Kinds) /\ \A k : Faulty(k) => Faulty(k)'
       /\ posts' \in [Users -> SUBSET Records] /\ \A w \in Users \ {u} : posts'[w] = posts[w]
       /\ (posts'[u] = posts[u]) \/ posts'[u] = {r \in posts[u] : r.id # a}
    <2>1. /\ faults' \in Seq(Kinds) /\ \A k : Faulty(k) => Faulty(k)'
          /\ posts' = posts \/ posts' = [posts EXCEPT ![u] = {r \in @ : r.id # a}]
        <3>1. CASE x = "poll"
            BY <1>3, <3>1, RemovedFacts
        <3>2. CASE x # "poll"
            BY <1>3, <3>2, NothingHappened DEF SocialInv, SocialTypeInv
        <3> QED
            BY <3>1, <3>2
    <2> QED
        BY <2>1 DEF SocialInv, SocialTypeInv
<1>15. (Spoiled \/ \A i \in DOMAIN feed[u] : HasRecord(u, feed[u][i].id))'
    <2>1. \A id : HasRecord(u, id) /\ id # a => HasRecord(u, id)'
        BY <1>14 DEF HasRecord
    <2>2. Spoiled => Spoiled'
        BY <1>14 DEF Spoiled
    <2>3. ASSUME ~Spoiled, NEW i \in DOMAIN m
          PROVE  HasRecord(u, m[i].id)'
        BY <1>13, <2>1, <2>3
    <2> QED
        BY <1>11, <2>2, <2>3 DEF HasRecord
<1> QED
    BY <1>3, <1>5, <1>10, <1>11, <1>12, <1>14, <1>15, FeedWritten

\* A post of v that u's feed does not have under its cid is not in it at all.
LEMMA NotListed ==
    ASSUME SocialInv, NEW u \in Users, NEW v \in Users \ {u}, NEW p \in PostsOf(v), p \notin Cids(feed[u])
    PROVE  /\ Entry(u, p, p) \in Entries /\ GoodEntry(u, Entry(u, p, p))
           /\ Entry(u, p, p).id = <<u, p>> /\ Entry(u, p, p).id[1] = u
           /\ Record(u, p) \in Records /\ Record(u, p).id = <<u, p>>
           /\ \A i \in DOMAIN feed[u] : feed[u][i].id # Entry(u, p, p).id
<1>1. made \in Seq(Users) /\ p \in DOMAIN made /\ made[p] = v /\ p \in Nat
    <2>1. PICK m \in Seq(Users) : m = made
        BY DEF SocialInv, SocialTypeInv
    <2> QED
        BY <2>1 DEF PostsOf
<1>2. /\ Entry(u, p, p) \in Entries /\ GoodEntry(u, Entry(u, p, p))
      /\ Entry(u, p, p).id = <<u, p>> /\ Entry(u, p, p).id[1] = u
    BY <1>1 DEF Entry, IdOf, Entries, Id, GoodEntry
<1>3. Record(u, p) \in Records /\ Record(u, p).id = <<u, p>>
    BY <1>1 DEF Record, IdOf, Records, Id
<1>4. ASSUME NEW i \in DOMAIN feed[u], feed[u][i].id = <<u, p>> PROVE FALSE
    <2>1. GoodEntry(u, feed[u][i])
        BY DEF SocialInv, UserInv
    <2>2. feed[u][i].cid # p
        <3>1. p # Nothing
            BY <1>1, SocialConstants DEF SocialConstants
        <3> QED
            BY <3>1 DEF Cids
    <2>3. feed[u][i].id[2] = p
        BY <1>4
    <2>4. feed[u][i].author = u /\ p \in PostsOf(u)
        BY <2>1, <2>2, <2>3 DEF GoodEntry
    <2> QED
        BY <1>1, <2>4 DEF PostsOf
<1> QED
    BY <1>2, <1>3, <1>4

\* The posts a merge looks for are finitely many; it is about another's posts.
LEMMA MergeFacts ==
    ASSUME SocialInv, NEW u \in Users, NEW x \in Tasks, Stage(u, x) = "merge", task[u][x].snap # Nothing
    PROVE  /\ IsFiniteSet(Missing(task[u][x].snap, task[u][x].arg)) /\ task[u][x].snap = feed[u]
           /\ \E v \in Users \ {u} : task[u][x].arg \in SUBSET PostsOf(v)
<1>1. PICK j : j = task[u][x]
    OBVIOUS
<1>2. PICK a : a = j.arg
    OBVIOUS
<1>3. j \in Jobs /\ GoodJob(u, j) /\ j.todo # <<>> /\ Head(j.todo) = "merge"
    BY <1>1 DEF Stage, SocialInv, SocialTypeInv, UserInv
<1>4. j.todo = MergePlan
    <2>1. j.todo \in Plans
        BY <1>3 DEF Jobs
    <2> QED
        BY <2>1, <1>3, PlanKinds
<1>5. PICK v \in Users \ {u} : a \in SUBSET PostsOf(v)
    BY <1>2, <1>3, <1>4 DEF GoodJob
<1>6. IsFiniteSet(Missing(j.snap, a))
    <2>1. PICK m \in Seq(Users) : m = made
        BY DEF SocialInv, SocialTypeInv
    <2>2. Missing(j.snap, a) \subseteq 1..Len(m)
        BY <1>5, <2>1 DEF PostsOf, Missing
    <2>3. IsFiniteSet(1..Len(m))
        BY <2>1, FS_Interval
    <2> QED
        BY <2>2, <2>3, FS_Subset
<1>7. j.snap = feed[u]
    <2>1. FileOf(u, "merge") = feed[u]
        BY FileRead DEF FeedStages
    <2> QED
        BY <2>1, <1>1, <1>3 DEF GoodJob, WasRead, FollowsStages
<1> QED
    BY <1>1, <1>2, <1>5, <1>6, <1>7

\* The posts of a merge have their records, those excepted that could not be
\* written; no record of a listed post is dropped.
LEMMA RecordedFacts ==
    ASSUME SocialInv, NEW u \in Users, NEW v \in Users \ {u}, NEW got \in SUBSET PostsOf(v),
           got \cap Cids(feed[u]) = {}, posts' = [posts EXCEPT ![u] = Recorded(u, got)]
    PROVE  /\ posts' \in [Users -> SUBSET Records] /\ \A w \in Users \ {u} : posts'[w] = posts[w]
           /\ \A p \in got : HasRecord(u, <<u, p>>)'
           /\ \A id : HasRecord(u, id) => HasRecord(u, id)'
<1>1. \A p \in got : Record(u, p) \in Records /\ Record(u, p).id = <<u, p>> /\ IdOf(u, p) = <<u, p>>
    BY NotListed DEF IdOf
<1>2. posts \in [Users -> SUBSET Records]
    BY DEF SocialInv, SocialTypeInv
<1>3. PICK A : A = Recorded(u, got)
    OBVIOUS
<1>4. /\ A \in SUBSET Records /\ \A p \in got : \E r \in A : r.id = <<u, p>>
      /\ \A r \in posts[u] : r \in A \/ \E p \in got : r.id = <<u, p>>
    BY <1>1, <1>2, <1>3 DEF Recorded
<1>5. posts' \in [Users -> SUBSET Records] /\ posts'[u] = A /\ \A w \in Users \ {u} : posts'[w] = posts[w]
    BY <1>2, <1>3, <1>4
<1>6. \A p \in got : HasRecord(u, <<u, p>>)'
    BY <1>4, <1>5 DEF HasRecord
<1>7. ASSUME NEW id, HasRecord(u, id) PROVE HasRecord(u, id)'
    <2>1. PICK r \in posts[u] : r.id = id
        BY <1>7 DEF HasRecord
    <2>2. CASE r \in A
        BY <1>5, <2>1, <2>2 DEF HasRecord
    <2>3. CASE \E p \in got : r.id = <<u, p>>
        BY <1>6, <2>1, <2>3
    <2> QED
        BY <1>4, <2>1, <2>2, <2>3
<1> QED
    BY <1>5, <1>6, <1>7

LEMMA MergeStep ==
    ASSUME SocialInv, NEW u \in Users, NEW x \in Tasks, WriteFeed(u, x), Stage(u, x) = "merge"
    PROVE  SocialInv'
<1>1. PICK j : j = task[u][x]
    OBVIOUS
<1>2. PICK a : a = j.arg
    OBVIOUS
<1>30. PICK got \in SUBSET Missing(j.snap, a) : \E unrecorded \in SUBSET got :
         /\ Faults("missed", Cardinality(Missing(j.snap, a) \ got), "record", Cardinality(unrecorded))
         /\ posts' = [posts EXCEPT ![u] = Recorded(u, got \ unrecorded)]
         /\ feed' = IF got = {} THEN feed
                    ELSE [feed EXCEPT ![u] = Sorted(j.snap \o SetToSeq({Entry(u, p, p) : p \in got}))]
    BY <1>1, <1>2 DEF WriteFeed
<1>3. PICK unrecorded \in SUBSET got :
         /\ Faults("missed", Cardinality(Missing(j.snap, a) \ got), "record", Cardinality(unrecorded))
         /\ posts' = [posts EXCEPT ![u] = Recorded(u, got \ unrecorded)]
         /\ feed' = IF got = {} THEN feed
                    ELSE [feed EXCEPT ![u] = Sorted(j.snap \o SetToSeq({Entry(u, p, p) : p \in got}))]
    BY <1>30
<1>4. /\ j.snap # Nothing /\ Advance(u, x, task[u][x].arg)
      /\ UNCHANGED <<follows, profile, heads, queue, made>>
    BY <1>1 DEF WriteFeed, counts
<1>7. PICK v \in Users \ {u} : a \in SUBSET PostsOf(v)
    BY <1>1, <1>2, <1>4, MergeFacts
<1>8. Stage(u, x) \in FeedStages
    BY DEF FeedStages
<1>9. PICK s \in Seq(Entries) : s = feed[u]
    BY DEF SocialInv, SocialTypeInv
<1>10. j.snap = s
    BY <1>1, <1>4, <1>9, MergeFacts
<1>11. \A p \in Missing(s, a) : p \in PostsOf(v) /\ p \notin Cids(feed[u])
    BY <1>7, <1>9 DEF Missing
<1>12. \A p \in got :
         /\ Entry(u, p, p) \in Entries /\ GoodEntry(u, Entry(u, p, p))
         /\ Entry(u, p, p).id = <<u, p>> /\ Entry(u, p, p).id[1] = u
         /\ \A i \in DOMAIN feed[u] : feed[u][i].id # Entry(u, p, p).id
    BY <1>10, <1>11, NotListed
<1>13. IsFiniteSet(got)
    <2>1. IsFiniteSet(Missing(s, a))
        BY <1>1, <1>2, <1>4, <1>10, MergeFacts
    <2> QED
        BY <1>10, <2>1, FS_Subset
<1>14. /\ faults' \in Seq(Kinds) /\ \A k : Faulty(k) => Faulty(k)'
       /\ unrecorded # {} => Faulty("record")'
    <2>1. IsFiniteSet(Missing(s, a))
        BY <1>1, <1>2, <1>4, <1>10, MergeFacts
    <2>2. IsFiniteSet(Missing(s, a) \ got) /\ IsFiniteSet(unrecorded)
        BY <1>13, <2>1, FS_Subset
    <2>3. PICK n \in Nat : n = Cardinality(Missing(s, a) \ got)
        BY <2>2, FS_CardinalityType
    <2>4. PICK m \in Nat : m = Cardinality(unrecorded)
        BY <2>2, FS_CardinalityType
    <2>5. Faults("missed", n, "record", m)
        BY <1>3, <1>10, <2>3, <2>4
    <2>6. "missed" \in Kinds /\ "record" \in Kinds
        BY DEF Kinds
    <2>7. unrecorded # {} => m # 0
        BY <2>2, <2>4, FS_EmptySet
    <2>8. faults \in Seq(Kinds)
        BY DEF SocialInv, SocialTypeInv
    <2> QED
        BY <2>5, <2>6, <2>7, <2>8, FaultsFacts
<1> DEFINE new == {Entry(u, p, p) : p \in got}
<1>15. new \in SUBSET Entries /\ IsFiniteSet(new)
    <2> DEFINE f == [p \in got |-> Entry(u, p, p)]
    <2>1. f \in Surjection(got, new)
        BY DEF Surjection
    <2> HIDE DEF f, new
    <2>2. IsFiniteSet(new)
        BY <2>1, <1>13, FS_Surjection
    <2> QED
        BY <1>12, <2>2 DEF new
<1>16. Fresh(new, s, u)
    <2>1. \A e \in new : \E p \in got : e = Entry(u, p, p)
        OBVIOUS
    <2> HIDE DEF new
    <2>2. \A e \in new : e.id[1] = u /\ \A i \in DOMAIN s : s[i].id # e.id
        BY <1>9, <1>12, <2>1
    <2>3. ASSUME NEW e \in new, NEW f \in new, e.id = f.id PROVE e = f
        <3>1. PICK p \in got : e = Entry(u, p, p)
            BY <2>1
        <3>2. PICK q \in got : f = Entry(u, q, q)
            BY <2>1
        <3>3. <<u, p>> = <<u, q>>
            BY <1>12, <2>3, <3>1, <3>2
        <3> QED
            BY <3>1, <3>2, <3>3
    <2> QED
        BY <2>2, <2>3 DEF Fresh
<1>17. \A e \in new : GoodEntry(u, e) /\ \E p \in got : e.id = <<u, p>>
    BY <1>12
<1>19. PICK N : N = new
    OBVIOUS
<1>21. feed' = IF got = {} THEN feed ELSE [feed EXCEPT ![u] = Sorted(s \o SetToSeq(N))]
    BY <1>3, <1>10, <1>19
<1>22. /\ N \in SUBSET Entries /\ IsFiniteSet(N) /\ Fresh(N, s, u)
       /\ \A e \in N : GoodEntry(u, e) /\ \E p \in got : e.id = <<u, p>>
    BY <1>15, <1>16, <1>17, <1>19
<1> HIDE DEF new
<1>23. Distinct(s) /\ OfUser(s, u) /\ \A i \in DOMAIN s : GoodEntry(u, s[i])
    BY <1>9 DEF SocialInv, UserInv, OfUser, GoodEntry
<1>24. PICK m : m = IF got = {} THEN s ELSE Sorted(s \o SetToSeq(N))
    OBVIOUS
<1>25. /\ m \in Seq(Entries) /\ Distinct(m)
       /\ \A i \in DOMAIN m : m[i] \in N \/ \E k \in DOMAIN s : m[i] = s[k]
    <2>1. CASE got = {}
        BY <2>1, <1>23, <1>24
    <2>2. CASE got # {}
        <3>1. m = Sorted(s \o SetToSeq(N))
            BY <2>2, <1>24
        <3> QED
            BY <3>1, <1>22, <1>23, MergedFacts
    <2> QED
        BY <2>1, <2>2
<1>26. feed' \in [Users -> Seq(Entries)] /\ feed'[u] = m /\ \A w \in Users \ {u} : feed'[w] = feed[w]
    <2>1. feed \in [Users -> Seq(Entries)]
        BY DEF SocialInv, SocialTypeInv
    <2>2. feed' = [feed EXCEPT ![u] = m]
        BY <2>1, <1>9, <1>21, <1>24
    <2> QED
        BY <2>1, <2>2, <1>25
<1>27. /\ posts' \in [Users -> SUBSET Records] /\ \A w \in Users \ {u} : posts'[w] = posts[w]
       /\ \A p \in got \ unrecorded : HasRecord(u, <<u, p>>)'
       /\ \A id : HasRecord(u, id) => HasRecord(u, id)'
    <2>1. PICK S : S = got \ unrecorded
        OBVIOUS
    <2>2. S \in SUBSET PostsOf(v) /\ S \cap Cids(feed[u]) = {} /\ posts' = [posts EXCEPT ![u] = Recorded(u, S)]
        BY <1>3, <1>10, <1>11, <2>1
    <2> QED
        BY <2>1, <2>2, RecordedFacts
<1>28. \A i \in DOMAIN m : GoodEntry(u, m[i])
    BY <1>22, <1>23, <1>25
<1>29. (Spoiled \/ \A i \in DOMAIN feed[u] : HasRecord(u, feed[u][i].id))'
    <2>1. \A i : HasRecord(u, i) => HasRecord(u, i)'
        BY <1>27
    <2>4. Spoiled => Spoiled'
        BY <1>14 DEF Spoiled
    <2>3. ASSUME ~Spoiled', NEW i \in DOMAIN m
          PROVE  HasRecord(u, m[i].id)'
        <3>1. \A k \in DOMAIN s : HasRecord(u, s[k].id)
            BY <1>8, <1>9, <2>3, <2>4, ListedRecorded
        <3>4. \A p \in got : HasRecord(u, <<u, p>>)'
            BY <1>14, <1>27, <2>3 DEF Spoiled
        <3>2. CASE m[i] \in N
            <4>1. PICK p \in got : m[i].id = <<u, p>>
                BY <1>22, <3>2
            <4> QED
                BY <3>4, <4>1
        <3>3. CASE \E k \in DOMAIN s : m[i] = s[k]
            BY <2>1, <3>1, <3>3
        <3> QED
            BY <1>25, <3>2, <3>3
    <2> QED
        BY <1>26, <2>3 DEF HasRecord, Spoiled
<1> QED
    BY <1>4, <1>8, <1>14, <1>25, <1>26, <1>27, <1>28, <1>29, FeedWritten

\* A task of u that goes on, in a step that writes neither his feed nor his
\* posts and makes none.
LEMMA GoesStep ==
    ASSUME SocialInv, NEW u \in Users, NEW x \in Tasks, Stage(u, x) \notin {"done", "record"},
           Stage(u, x) \notin FeedStages,
           NEW arg \in Args, Advance(u, x, arg),
           Stage(u, x) \in {"index", "head"} => arg \in SUBSET PostsOf(u),
           task[u][x].todo \in UserPlans => arg \in Users \/ Len(task[u][x].todo) = 1,
           UNCHANGED <<feed, posts, heads, made>>,
           follows' \in [Users -> FollowTables], profile' \in [Users -> Profiles],
           \A w \in Users \ {u} : follows'[w] = follows[w] /\ profile'[w] = profile[w],
           profile'[u].head # Nothing => profile'[u].head \subseteq PostsOf(u),
           QueueInv', queue' \in [Users -> [Users \cup {Inbox} -> Seq(Events)]],
           faults' \in Seq(Kinds), \A k : Faulty(k) => Faulty(k)'
    PROVE  SocialInv'
<1>1. \A v : PostsOf(v)' = PostsOf(v)
    BY DEF PostsOf
<1>2. Stage(u, x) # "filter"
    BY DEF FeedStages
<1>3. /\ task' \in [Users -> [Tasks -> Jobs]] /\ Alone(u)'
      /\ \A w \in Users \ {u} : task'[w] = task[w]
      /\ \A id : Deleting(u, id) => Stage(u, x) = "filter" /\ id = task[u][x].arg
      /\ (\A y \in Tasks : GoodJob(u, task[u][y]))'
    BY <1>1, <1>2, Goes
<1>4. Grown
    BY MadeStays
<1>5. SocialTypeInv'
    BY <1>3 DEF SocialInv, SocialTypeInv
<1>6. \A id : Kept(u, id) => Kept(u, id)'
    BY <1>2, <1>3 DEF Kept, HasRecord
<1>7. /\ profile'[u].head # Nothing => profile'[u].head \subseteq PostsOf(u)'
      /\ \A v \in Users : heads'[u][v] # Nothing => heads'[u][v] \subseteq PostsOf(v)' /\ v # u
    BY <1>1 DEF SocialInv, UserInv
<1> QED
    BY <1>3, <1>4, <1>5, <1>6, <1>7, FeedStays

\* What a task in a stage is about.
LEMMA StageFacts ==
    ASSUME SocialInv, NEW u \in Users, NEW x \in Tasks, Stage(u, x) # "done"
    PROVE  /\ task[u][x] \in Jobs /\ GoodJob(u, task[u][x]) /\ task[u][x].arg \in Args
           /\ task[u][x].todo \in Plans /\ task[u][x].todo # <<>> /\ Stage(u, x) = Head(task[u][x].todo)
           /\ task[u][x].todo \in UserPlans <=>
                Stage(u, x) \in FollowsStages \cup {"mirror", "request", "goodbye", "hand", "notify"}
           /\ task[u][x].todo \in UserPlans => task[u][x].arg \in Users
           /\ Stage(u, x) \in {"head", "announce"} => task[u][x].arg \in SUBSET PostsOf(u)
           /\ Stage(u, x) = "tell" => task[u][x].arg \in Id
<1>1. PICK j : j = task[u][x]
    OBVIOUS
<1>2. j \in Jobs /\ GoodJob(u, j) /\ j.todo # <<>> /\ Stage(u, x) = Head(j.todo)
    BY <1>1 DEF SocialInv, SocialTypeInv, UserInv, Stage
<1>3. j.todo \in Plans /\ j.arg \in Args
    BY <1>2 DEF Jobs, Args
<1>4. /\ j.todo \in IndexPlans <=> Head(j.todo) \in {"tell", "index"}
      /\ j.todo \in HeadPlans <=> Head(j.todo) \in {"head", "announce"}
      /\ j.todo \in UserPlans <=> Head(j.todo) \in FollowsStages \cup {"mirror", "request", "goodbye", "hand", "notify"}
    BY <1>2, <1>3, PlanKinds
<1>5. Head(j.todo) = "tell" => j.todo = <<"tell", "index", "head", "announce">>
    BY <1>4, IndexPlan
<1>6. /\ j.todo \in UserPlans => j.arg \in Users
      /\ j.todo \in HeadPlans => j.arg \in SUBSET PostsOf(u)
      /\ j.todo = <<"tell", "index", "head", "announce">> => j.arg \in Id
    BY <1>2 DEF GoodJob
<1> QED
    BY <1>1, <1>2, <1>3, <1>4, <1>5, <1>6

\* No event goes out and nothing fails.
LEMMA Silent ==
    ASSUME SocialInv, NoEvent, made' = made
    PROVE  /\ QueueInv' /\ queue' \in [Users -> [Users \cup {Inbox} -> Seq(Events)]]
           /\ faults' \in Seq(Kinds) /\ \A k : Faulty(k) => Faulty(k)'
<1>1. queue' = queue /\ faults' = faults
    BY DEF NoEvent
<1>2. \A k : Faulty(k) => Faulty(k)'
    BY <1>1, NothingHappened
<1>3. QueueInv'
    BY <1>1, QueueStays DEF PostsOf
<1> QED
    BY <1>1, <1>2, <1>3 DEF SocialInv, SocialTypeInv

LEMMA WriteFollowsStep ==
    ASSUME SocialInv, NEW u \in Users, NEW x \in Tasks, WriteFollows(u, x)
    PROVE  SocialInv'
<1>1. PICK j : j = task[u][x]
    OBVIOUS
<1>2. PICK stage : stage = Stage(u, x)
    OBVIOUS
<1>3. /\ stage \in FollowsStages /\ j.snap # Nothing
      /\ follows' = [follows EXCEPT ![u] = FollowsAfter(stage, j.snap, j.arg)]
      /\ Advance(u, x, j.arg) /\ NoEvent
      /\ UNCHANGED <<feed, posts, profile, heads, made>>
    BY <1>1, <1>2 DEF WriteFollows, counts
<1>4. stage \notin FeedStages \cup {"done", "record", "index", "head"}
    BY <1>3 DEF FollowsStages, FeedStages
<1>5. j.arg \in Args /\ j.arg \in Users /\ GoodJob(u, j) /\ stage = Head(j.todo)
    BY <1>1, <1>2, <1>3, <1>4, StageFacts
<1>6. j.snap \in FollowTables
    <2>1. FileOf(u, stage) = follows[u]
        BY <1>3, FileRead
    <2>2. Unread(u, stage) = NoFollows
        BY <1>3 DEF Unread, FollowsStages
    <2>3. WasRead(u, stage, j.snap)
        BY <1>3, <1>5 DEF GoodJob
    <2>4. follows[u] \in FollowTables /\ NoFollows \in FollowTables
        BY DEF SocialInv, SocialTypeInv, NoFollows, FollowTables
    <2> QED
        BY <2>1, <2>2, <2>3, <2>4 DEF WasRead
<1>7. PICK f : f = FollowsAfter(stage, j.snap, j.arg)
    OBVIOUS
<1>8. PICK g \in FollowTables : g = j.snap
    BY <1>6
<1>9. f \in FollowTables
    <2>1. CASE stage = "follow"
        BY <2>1, <1>5, <1>7, <1>8 DEF FollowsAfter, FollowTables
    <2>2. CASE stage = "unfollow"
        BY <2>2, <1>5, <1>7, <1>8 DEF FollowsAfter, FollowTables
    <2>3. CASE stage = "addFollower"
        BY <2>3, <1>5, <1>7, <1>8 DEF FollowsAfter, FollowTables
    <2>4. CASE stage = "dropFollower"
        BY <2>4, <1>5, <1>7, <1>8 DEF FollowsAfter, FollowTables
    <2> QED
        BY <2>1, <2>2, <2>3, <2>4, <1>3 DEF FollowsStages
<1>10. follows' \in [Users -> FollowTables] /\ \A w \in Users \ {u} : follows'[w] = follows[w]
    BY <1>3, <1>7, <1>9 DEF SocialInv, SocialTypeInv
<1>11. /\ QueueInv' /\ queue' \in [Users -> [Users \cup {Inbox} -> Seq(Events)]]
       /\ faults' \in Seq(Kinds) /\ \A k : Faulty(k) => Faulty(k)'
    BY <1>3, Silent
<1>12. profile' \in [Users -> Profiles] /\ (profile'[u].head # Nothing => profile'[u].head \subseteq PostsOf(u))
    BY <1>3 DEF SocialInv, SocialTypeInv, UserInv
<1> QED
    BY <1>2, <1>3, <1>4, <1>5, <1>10, <1>11, <1>12, GoesStep

\* follows.json could not be read, or not be written.
LEMMA FollowsFailsStep ==
    ASSUME SocialInv, NEW u \in Users, NEW x \in Tasks, FollowsFails(u, x)
    PROVE  SocialInv'
<1>1. PICK stage : stage = Stage(u, x)
    OBVIOUS
<1>2. /\ Fault("follows", 1)
      /\ UNCHANGED <<feed, posts, follows, profile, heads, queue, made>>
    BY DEF FollowsFails, files, counts
<1>3. faults' \in Seq(Kinds) /\ (\A c : Faulty(c) => Faulty(c)') /\ Faulty("follows")'
    <2>1. "follows" \in Kinds
        BY DEF Kinds
    <2> QED
        BY <1>2, <2>1, FaultFacts DEF SocialInv, SocialTypeInv
<1>4. stage \in FollowsStages \cup {"mirror"}
    BY <1>1 DEF FollowsFails, FollowsStages
<1>5. CASE task' = [task EXCEPT ![u][x].snap = Unread(u, stage)]
    <2>1. PICK f : f = Unread(u, stage)
        OBVIOUS
    <2>2. f \in FollowTables \cup Profiles
        <3>1. PICK g \in Profiles : g = profile[u]
            BY DEF SocialInv, SocialTypeInv
        <3>2. [g EXCEPT !.followers = {}, !.following = {}] \in Profiles /\ NoFollows \in FollowTables
            BY DEF Profiles, NoFollows, FollowTables
        <3> QED
            BY <2>1, <3>1, <3>2 DEF Unread
    <2>3. WasRead(u, stage, f)'
        BY <1>2, <1>3, <1>4, <2>1 DEF WasRead, Unread
    <2>4. stage \in FeedStages \cup FollowsStages \cup ProfileStages
        BY <1>4 DEF ProfileStages
    <2> QED
        BY <1>1, <1>2, <1>3, <1>5, <2>1, <2>2, <2>3, <2>4, SnapStep
<1>6. CASE Abandon(u, x)
    <2>1. Stage(u, x) # "done" /\ Stage(u, x) # "filter"
        BY <1>1, <1>4 DEF FollowsStages
    <2>2. posts' \in [Users -> SUBSET Records] /\ posts' = posts
        BY <1>2 DEF SocialInv, SocialTypeInv
    <2> QED
        BY <1>2, <1>3, <1>6, <2>1, <2>2, AbandonStep
<1>7. CASE Advance(u, x, task[u][x].arg)
    <2>1. stage \notin {"done", "record", "index", "head"} /\ stage \notin FeedStages
        BY <1>4 DEF FollowsStages, FeedStages
    <2>2. task[u][x].arg \in Args /\ (task[u][x].todo \in UserPlans => task[u][x].arg \in Users)
        BY <1>1, <2>1, StageFacts
    <2>3. UNCHANGED <<feed, posts, heads, made, follows, profile>>
        BY <1>2
    <2>4. /\ QueueInv' /\ queue' \in [Users -> [Users \cup {Inbox} -> Seq(Events)]]
          /\ follows' \in [Users -> FollowTables] /\ profile' \in [Users -> Profiles]
          /\ (profile'[u].head # Nothing => profile'[u].head \subseteq PostsOf(u))
        BY <1>2, QueueStays DEF SocialInv, SocialTypeInv, UserInv, PostsOf
    <2> QED
        BY <1>1, <1>3, <1>7, <2>1, <2>2, <2>3, <2>4, GoesStep
<1> QED
    <2>1. \/ Abandon(u, x) \/ Advance(u, x, task[u][x].arg)
          \/ stage # "mirror" /\ task' = [task EXCEPT ![u][x].snap = NoFollows]
          \/ stage = "mirror" /\ task' = [task EXCEPT ![u][x].snap = [profile[u] EXCEPT !.followers = {}, !.following = {}]]
        BY <1>1 DEF FollowsFails
    <2> QED
        BY <1>5, <1>6, <1>7, <2>1 DEF Unread

LEMMA WriteProfileStep ==
    ASSUME SocialInv, NEW u \in Users, NEW x \in Tasks, WriteProfile(u, x)
    PROVE  SocialInv'
<1>1. PICK j : j = task[u][x]
    OBVIOUS
<1>2. PICK stage : stage = Stage(u, x)
    OBVIOUS
<1>3. PICK f : f = IF stage = "head" THEN [j.snap EXCEPT !.head = j.arg] ELSE j.snap
    OBVIOUS
<1>4. /\ stage \in ProfileStages /\ j.snap # Nothing
      /\ profile' = [profile EXCEPT ![u] = f]
      /\ Advance(u, x, j.arg) /\ NoEvent
      /\ UNCHANGED <<feed, posts, follows, heads, made>>
    BY <1>1, <1>2, <1>3 DEF WriteProfile, counts
<1>5. stage \notin {"done", "record"} /\ stage \notin FeedStages
    BY <1>4 DEF ProfileStages, FeedStages
<1>6. /\ j.arg \in Args /\ GoodJob(u, j) /\ stage = Head(j.todo)
      /\ stage = "head" => j.arg \in SUBSET PostsOf(u)
      /\ j.todo \in UserPlans => j.arg \in Users
    BY <1>1, <1>2, <1>4, <1>5, StageFacts
<1>7. PICK g \in Profiles : g = profile[u]
    BY DEF SocialInv, SocialTypeInv
<1>8. PICK h \in FollowTables : h = follows[u]
    BY DEF SocialInv, SocialTypeInv
<1>9. PostsOf(u) \subseteq Nat
    <2>1. PICK m \in Seq(Users) : m = made
        BY DEF SocialInv, SocialTypeInv
    <2> QED
        BY <2>1 DEF PostsOf
<1>10. g.head # Nothing => g.head \subseteq PostsOf(u)
    BY <1>7 DEF SocialInv, UserInv
<1>11. f \in Profiles /\ (f.head # Nothing => f.head \subseteq PostsOf(u))
    <2>1. CASE stage = "head"
        <3>1. FileOf(u, stage) = g
            BY <2>1, <1>4, <1>7, FileRead
        <3>2. j.snap = g
            BY <2>1, <3>1, <1>4, <1>6 DEF GoodJob, WasRead, FollowsStages
        <3>3. f = [g EXCEPT !.head = j.arg] /\ j.arg \in SUBSET Nat /\ j.arg \subseteq PostsOf(u)
            BY <2>1, <3>2, <1>3, <1>6, <1>9
        <3> QED
            BY <3>3 DEF Profiles
    <2>2. CASE stage = "mirror"
        <3>1. FileOf(u, stage) = [g EXCEPT !.followers = h.followers, !.following = h.following]
            BY <2>2, <1>4, <1>7, <1>8, FileRead
        <3>2. Unread(u, stage) = [g EXCEPT !.followers = {}, !.following = {}]
            BY <2>2, <1>7 DEF Unread
        <3>3. WasRead(u, stage, f)
            BY <2>2, <1>3, <1>4, <1>6 DEF GoodJob
        <3>4. \/ f = [g EXCEPT !.followers = h.followers, !.following = h.following]
              \/ f = [g EXCEPT !.followers = {}, !.following = {}]
            BY <3>1, <3>2, <3>3 DEF WasRead
        <3> QED
            BY <3>4, <1>10 DEF Profiles, FollowTables
    <2> QED
        BY <2>1, <2>2, <1>4 DEF ProfileStages
<1>12. profile' \in [Users -> Profiles] /\ profile'[u] = f /\ \A w \in Users \ {u} : profile'[w] = profile[w]
    BY <1>4, <1>11 DEF SocialInv, SocialTypeInv
<1>13. /\ QueueInv' /\ queue' \in [Users -> [Users \cup {Inbox} -> Seq(Events)]]
       /\ faults' \in Seq(Kinds) /\ \A k : Faulty(k) => Faulty(k)'
    BY <1>4, Silent
<1>14. follows' \in [Users -> FollowTables]
    BY <1>4 DEF SocialInv, SocialTypeInv
<1>15. stage # "index"
    BY <1>4 DEF ProfileStages
<1> QED
    BY <1>1, <1>2, <1>4, <1>5, <1>6, <1>11, <1>12, <1>13, <1>14, <1>15, GoesStep

\* The profile could not be read, or not be written.
LEMMA ProfileFailsStep ==
    ASSUME SocialInv, NEW u \in Users, NEW x \in Tasks, ProfileFails(u, x)
    PROVE  SocialInv'
<1>1. PICK arg : arg = task[u][x].arg
    OBVIOUS
<1>2. /\ Stage(u, x) \in ProfileStages \cup {"hand"} /\ Fault("profile", 1) /\ Advance(u, x, arg)
      /\ UNCHANGED <<feed, posts, follows, profile, heads, queue, made>>
    BY <1>1 DEF ProfileFails, files, counts
<1>3. Stage(u, x) \notin {"done", "record", "index"} /\ Stage(u, x) \notin FeedStages
    BY <1>2 DEF ProfileStages, FeedStages
<1>4. /\ arg \in Args /\ (task[u][x].todo \in UserPlans => arg \in Users)
      /\ Stage(u, x) = "head" => arg \in SUBSET PostsOf(u)
    BY <1>1, <1>3, StageFacts
<1>5. faults' \in Seq(Kinds) /\ \A k : Faulty(k) => Faulty(k)'
    <2>1. "profile" \in Kinds
        BY DEF Kinds
    <2> QED
        BY <1>2, <2>1, FaultHappened
<1>6. /\ QueueInv' /\ queue' \in [Users -> [Users \cup {Inbox} -> Seq(Events)]]
      /\ follows' \in [Users -> FollowTables] /\ profile' \in [Users -> Profiles]
      /\ (profile'[u].head # Nothing => profile'[u].head \subseteq PostsOf(u))
    BY <1>2, QueueStays DEF SocialInv, SocialTypeInv, UserInv, PostsOf
<1> QED
    BY <1>2, <1>3, <1>4, <1>5, <1>6, GoesStep

LEMMA IndexStep ==
    ASSUME SocialInv, NEW u \in Users, NEW x \in Tasks, publish_own_index(u, x)
    PROVE  SocialInv'
<1>1. /\ Stage(u, x) = "index"
      /\ feed' = feed /\ posts' = posts /\ follows' = follows /\ profile' = profile /\ heads' = heads
      /\ queue' = queue /\ made' = made
    BY DEF publish_own_index, files, counts
<1>2. \A v : PostsOf(v)' = PostsOf(v)
    BY <1>1 DEF PostsOf
<1>3. QueueInv'
    BY <1>1, <1>2, QueueStays
<1>4. PICK own : own = OwnPosts(u)
    OBVIOUS
<1>5. own \in SUBSET PostsOf(u)
    <2>1. \A i \in DOMAIN feed[u] : GoodEntry(u, feed[u][i])
        BY DEF SocialInv, UserInv
    <2>2. ASSUME NEW i \in DOMAIN feed[u], feed[u][i].author = u, feed[u][i].cid # Nothing
          PROVE  feed[u][i].cid \in PostsOf(u)
        BY <2>1, <2>2 DEF GoodEntry
    <2> QED
        BY <1>4, <2>2 DEF OwnPosts
<1>6. CASE Advance(u, x, own) /\ faults' = faults
    <2>1. own \in Args
        <3>1. PICK m \in Seq(Users) : m = made
            BY DEF SocialInv, SocialTypeInv
        <3> QED
            BY <3>1, <1>5 DEF PostsOf, Args
    <2>2. Stage(u, x) \notin {"done", "record"} /\ Stage(u, x) \notin FeedStages
        BY <1>1 DEF FeedStages
    <2>3. task[u][x].todo \notin UserPlans
        BY <1>1, <2>2, StageFacts DEF FollowsStages
    <2>4. \A k : Faulty(k) => Faulty(k)'
        BY <1>6, NothingHappened
    <2>5. /\ follows' \in [Users -> FollowTables] /\ profile' \in [Users -> Profiles]
          /\ queue' \in [Users -> [Users \cup {Inbox} -> Seq(Events)]] /\ faults' \in Seq(Kinds)
          /\ (profile'[u].head # Nothing => profile'[u].head \subseteq PostsOf(u))
        BY <1>1, <1>6 DEF SocialInv, SocialTypeInv, UserInv
    <2> QED
        BY <1>1, <1>3, <1>5, <1>6, <2>1, <2>2, <2>3, <2>4, <2>5, GoesStep
<1>7. CASE Abandon(u, x) /\ \E kind \in {"unpinned", "feed"} : Fault(kind, 1)
    <2>1. PICK kind \in {"unpinned", "feed"} : Fault(kind, 1)
        BY <1>7
    <2>2. kind \in Kinds
        BY DEF Kinds
    <2>3. faults' \in Seq(Kinds) /\ \A k : Faulty(k) => Faulty(k)'
        BY <2>1, <2>2, FaultHappened
    <2>4. posts' \in [Users -> SUBSET Records]
        BY <1>1 DEF SocialInv, SocialTypeInv
    <2> QED
        BY <1>1, <1>7, <2>3, <2>4, AbandonStep
<1> QED
    BY <1>4, <1>6, <1>7 DEF publish_own_index

LEMMA NotifyStep ==
    ASSUME SocialInv, NEW u \in Users, NEW x \in Tasks, push_notification(u, x)
    PROVE  SocialInv'
<1>1. /\ Stage(u, x) = "notify" /\ Advance(u, x, Nothing)
      /\ UNCHANGED faults \/ Fault("other", 1)
      /\ UNCHANGED <<feed, posts, follows, profile, heads, queue, made>>
    BY DEF push_notification, counts
<1>2. Stage(u, x) \notin {"done", "record"} /\ Stage(u, x) \notin FeedStages
    BY <1>1 DEF FeedStages
<1>3. task[u][x].todo \in UserPlans /\ Head(task[u][x].todo) = "notify"
    BY <1>1, <1>2, StageFacts
<1>4. Len(task[u][x].todo) = 1
    BY <1>3, UserPlan DEF FollowsStages
<1>5. Nothing \in Args
    BY DEF Args
<1>6. /\ QueueInv' /\ queue' \in [Users -> [Users \cup {Inbox} -> Seq(Events)]]
      /\ faults' \in Seq(Kinds) /\ \A k : Faulty(k) => Faulty(k)'
    <2>1. "other" \in Kinds
        BY DEF Kinds
    <2>2. faults' \in Seq(Kinds) /\ \A k : Faulty(k) => Faulty(k)'
        BY <1>1, <2>1, FaultHappened, NothingHappened DEF SocialInv, SocialTypeInv
    <2> QED
        BY <1>1, <2>2, QueueStays DEF SocialInv, SocialTypeInv, PostsOf
<1>7. /\ follows' \in [Users -> FollowTables] /\ profile' \in [Users -> Profiles]
      /\ (profile'[u].head # Nothing => profile'[u].head \subseteq PostsOf(u))
    BY <1>1 DEF SocialInv, SocialTypeInv, UserInv
<1> QED
    BY <1>1, <1>2, <1>4, <1>5, <1>6, <1>7, GoesStep

\* What u tells of himself is good for whoever hears it.
LEMMA ToldFacts ==
    ASSUME SocialInv, made' = made, NEW u \in Users, NEW receivers \in SUBSET Users, u \notin receivers, NEW t,
           NEW type \in EventTypes \ {"post.create.v2", "post.react", "post.comment"},
           NEW data \in (SUBSET Nat) \cup Id \cup {Nothing},
           type = "posts.head" => data \in SUBSET PostsOf(u),
           type = "post.delete" => data \in Id,
           PublishTo(receivers, t, [type |-> type, from |-> u, data |-> data])
    PROVE  /\ QueueInv' /\ queue' \in [Users -> [Users \cup {Inbox} -> Seq(Events)]]
           /\ faults' \in Seq(Kinds) /\ \A k : Faulty(k) => Faulty(k)'
<1> DEFINE ev == [type |-> type, from |-> u, data |-> data]
<1>1. ev \in Events /\ ev.type = type /\ ev.from = u /\ ev.data = data
    BY DEF Events
<1>2. PublishTo(receivers, t, ev)
    OBVIOUS
<1> HIDE DEF ev
<1>3. \A v : PostsOf(v)' = PostsOf(v)
    BY DEF PostsOf
<1>4. \A r \in receivers : GoodEvent(r, ev)'
    <2> TAKE r \in receivers
    <2>1. r # u
        OBVIOUS
    <2> QED
        BY <1>1, <1>3, <2>1 DEF GoodEvent
<1> QED
    BY <1>1, <1>2, <1>3, <1>4, PublishFacts

LEMMA PublishStep ==
    ASSUME SocialInv, NEW u \in Users, NEW x \in Tasks, Publish(u, x)
    PROVE  SocialInv'
<1>1. PICK arg : arg = task[u][x].arg
    OBVIOUS
<1>2. PICK stage : stage = Stage(u, x)
    OBVIOUS
<1>3. PICK head : head = profile[u].head
    OBVIOUS
<1>4. /\ \/ stage = "announce" /\ sign_and_publish(u, u, "posts.head", arg)
         \/ stage = "tell" /\ sign_and_publish(u, u, "post.delete", arg)
         \/ stage = "request" /\ sign_and_publish_follow(u, arg, "follow.request", Nothing)
         \/ stage = "goodbye" /\ sign_and_publish_follow(u, arg, "follow.unfollow", Nothing)
         \/ stage = "hand" /\ head = Nothing /\ NoEvent
         \/ stage = "hand" /\ head # Nothing /\ sign_and_publish_follow(u, arg, "posts.head", head)
      /\ Advance(u, x, arg)
      /\ UNCHANGED <<feed, posts, follows, profile, heads, made>>
    <2>1. /\ Advance(u, x, arg) /\ UNCHANGED <<feed, posts, follows, profile, heads, made>>
        BY <1>1 DEF Publish, files, counts
    <2>2. CASE stage = "hand"
        <3>1. CASE head = Nothing
            BY <1>2, <1>3, <2>1, <2>2, <3>1 DEF Publish
        <3>2. CASE head # Nothing
            BY <1>1, <1>2, <1>3, <2>1, <2>2, <3>2 DEF Publish
        <3> QED
            BY <3>1, <3>2
    <2>3. CASE stage # "hand"
        BY <1>1, <1>2, <2>1, <2>3 DEF Publish
    <2> QED
        BY <2>2, <2>3
<1>5. /\ stage \notin {"done", "record"} /\ stage \notin FeedStages /\ stage \notin {"index", "head"}
      /\ stage \in {"announce", "tell", "request", "goodbye", "hand"}
    <2>1. stage \in {"announce", "tell", "request", "goodbye", "hand"}
        BY <1>4
    <2> QED
        BY <2>1 DEF FeedStages
<1>6. /\ arg \in Args /\ (task[u][x].todo \in UserPlans => arg \in Users)
      /\ stage = "announce" => arg \in SUBSET PostsOf(u)
      /\ stage = "tell" => arg \in Id
    BY <1>1, <1>2, <1>5, StageFacts
<1>7. /\ profile[u].head # Nothing => profile[u].head \subseteq PostsOf(u)
      /\ follows \in [Users -> FollowTables] /\ profile \in [Users -> Profiles]
    BY DEF SocialInv, UserInv, SocialTypeInv
<1>8. PostsOf(u) \subseteq Nat
    <2>1. PICK m \in Seq(Users) : m = made
        BY DEF SocialInv, SocialTypeInv
    <2> QED
        BY <2>1 DEF PostsOf
<1>9. /\ QueueInv' /\ queue' \in [Users -> [Users \cup {Inbox} -> Seq(Events)]]
      /\ faults' \in Seq(Kinds) /\ \A k : Faulty(k) => Faulty(k)'
    <2>1. CASE stage = "announce" /\ sign_and_publish(u, u, "posts.head", arg)
        <3>1. PublishTo(Subscribers(u, u), u, [type |-> "posts.head", from |-> u, data |-> arg])
            BY <2>1 DEF sign_and_publish
        <3>2. PICK S \in SUBSET Users : S = Subscribers(u, u) /\ u \notin S
            BY SubscribersFacts
        <3>3. "posts.head" \in EventTypes
            BY DEF EventTypes
        <3>4. PublishTo(S, u, [type |-> "posts.head", from |-> u, data |-> arg])
            BY <3>1, <3>2 DEF PublishTo
        <3>5. arg \in SUBSET PostsOf(u) /\ arg \in SUBSET Nat
            BY <1>6, <1>8, <2>1
        <3> QED
            BY <1>4, <3>2, <3>3, <3>4, <3>5, ToldFacts
    <2>2. CASE stage = "tell" /\ sign_and_publish(u, u, "post.delete", arg)
        <3>1. PublishTo(Subscribers(u, u), u, [type |-> "post.delete", from |-> u, data |-> arg])
            BY <2>2 DEF sign_and_publish
        <3>2. PICK S \in SUBSET Users : S = Subscribers(u, u) /\ u \notin S
            BY SubscribersFacts
        <3>3. "post.delete" \in EventTypes
            BY DEF EventTypes
        <3>4. PublishTo(S, u, [type |-> "post.delete", from |-> u, data |-> arg])
            BY <3>1, <3>2 DEF PublishTo
        <3>5. arg \in Id /\ made' = made
            BY <1>4, <1>6, <2>2
        <3>6. "post.delete" \in EventTypes \ {"post.create.v2", "post.react", "post.comment"} /\ "post.delete" # "posts.head"
            BY <3>3
        <3>7. PICK type : type = "post.delete"
            OBVIOUS
        <3>8. PICK d \in Id : d = arg
            BY <3>5
        <3>9. PublishTo(S, u, [type |-> type, from |-> u, data |-> d])
            BY <3>4, <3>7, <3>8 DEF PublishTo
        <3>10. type \in EventTypes \ {"post.create.v2", "post.react", "post.comment"} /\ type # "posts.head"
            BY <3>6, <3>7
        <3> QED
            BY <3>2, <3>5, <3>8, <3>9, <3>10, ToldFacts
    <2>3. CASE \/ stage = "request" /\ sign_and_publish_follow(u, arg, "follow.request", Nothing)
               \/ stage = "goodbye" /\ sign_and_publish_follow(u, arg, "follow.unfollow", Nothing)
        <3>1. PICK type \in {"follow.request", "follow.unfollow"} : sign_and_publish_follow(u, arg, type, Nothing)
            BY <2>3
        <3>2. PublishTo({arg} \ {u}, Inbox, [type |-> type, from |-> u, data |-> Nothing])
            BY <3>1 DEF sign_and_publish_follow
        <3>3. arg \in Users
            BY <1>1, <1>2, <1>5, <1>6, <2>3, StageFacts
        <3>4. PICK S : S = {arg} \ {u}
            OBVIOUS
        <3>8. S \in SUBSET Users /\ u \notin S
            BY <3>3, <3>4
        <3>5. type \in EventTypes \ {"post.create.v2", "post.react", "post.comment"} /\ type # "posts.head" /\ type # "post.delete"
            BY <3>1 DEF EventTypes
        <3>6. PublishTo(S, Inbox, [type |-> type, from |-> u, data |-> Nothing])
            BY <3>2, <3>4
        <3> QED
            BY <1>4, <3>8, <3>5, <3>6, ToldFacts
    <2>4. CASE stage = "hand" /\ head = Nothing /\ NoEvent
        BY <1>4, <2>4, Silent
    <2>5. CASE stage = "hand" /\ head # Nothing /\ sign_and_publish_follow(u, arg, "posts.head", head)
        <3>1. PublishTo({arg} \ {u}, Inbox, [type |-> "posts.head", from |-> u, data |-> head])
            BY <2>5 DEF sign_and_publish_follow
        <3>2. arg \in Users
            BY <1>1, <1>2, <1>5, <1>6, <2>5, StageFacts
        <3>3. PICK S : S = {arg} \ {u}
            OBVIOUS
        <3>7. S \in SUBSET Users /\ u \notin S
            BY <3>2, <3>3
        <3>4. "posts.head" \in EventTypes
            BY DEF EventTypes
        <3>5. PublishTo(S, Inbox, [type |-> "posts.head", from |-> u, data |-> head])
            BY <3>1, <3>3
        <3>6. head \in SUBSET PostsOf(u) /\ head \in SUBSET Nat
            BY <1>3, <1>7, <1>8, <2>5
        <3> QED
            BY <1>4, <3>7, <3>4, <3>5, <3>6, ToldFacts
    <2> QED
        BY <1>4, <2>1, <2>2, <2>3, <2>4, <2>5
<1>10. /\ follows' \in [Users -> FollowTables] /\ profile' \in [Users -> Profiles]
       /\ (profile'[u].head # Nothing => profile'[u].head \subseteq PostsOf(u))
    BY <1>4, <1>7
<1> QED
    BY <1>2, <1>4, <1>5, <1>6, <1>9, <1>10, GoesStep

LEMMA HandleStep ==
    ASSUME SocialInv, ~Overlap, NEW u \in Users, NEW t \in Users \cup {Inbox}, Handle(u, t)
    PROVE  SocialInv'
<1>1. /\ Free(u, "poll") /\ "poll" \in Tasks /\ queue[u][t] # <<>> /\ Drained(u, t)
      /\ feed' = feed /\ follows' = follows /\ profile' = profile /\ made' = made
    BY DEF Handle, counts, Tasks
<1>2. PICK e : e = Head(queue[u][t])
    OBVIOUS
<1>3. \/ \E found \in BOOLEAN : handle_post_create(u, e, found)
      \/ handle_posts_head(u, e) \/ handle_post_delete(u, e) \/ handle_overlay(u, e)
      \/ handle_follow_request(u, e) \/ handle_follow_unfollow(u, e)
    BY <1>2 DEF Handle
<1>4. /\ queue' \in [Users -> [Users \cup {Inbox} -> Seq(Events)]] /\ QueueInv'
      /\ e \in Events /\ GoodEvent(u, e)
    BY <1>1, <1>2, DrainFacts
<1>5. e.from \in Users \ {u}
    BY <1>4 DEF Events, GoodEvent
<1>6. /\ \A v \in Users : heads[u][v] # Nothing => heads[u][v] \subseteq PostsOf(v) /\ v # u
      /\ heads \in [Users -> [Users -> (SUBSET Nat) \cup {Nothing}]]
      /\ posts \in [Users -> SUBSET Records] /\ faults \in Seq(Kinds)
    BY HeadsKept
<1>7. \A v : PostsOf(v)' = PostsOf(v) /\ PostsOf(v) \subseteq Nat
    <2>1. PICK m \in Seq(Users) : m = made
        BY DEF SocialInv, SocialTypeInv
    <2> QED
        BY <1>1, <2>1 DEF PostsOf
\* A step of this kind that begins nothing.
<1>8. ASSUME task' = task, heads' = heads, faults' \in Seq(Kinds), \A k : Faulty(k) => Faulty(k)',
             posts' \in [Users -> SUBSET Records], \A w \in Users \ {u} : posts'[w] = posts[w],
             \A id : HasRecord(u, id) => HasRecord(u, id)'
      PROVE  SocialInv'
    <2>1. Grown
        BY <1>1, <1>8, MadeStays
    <2>2. /\ Alone(u)' /\ (\A y \in Tasks : GoodJob(u, task[u][y]))'
          /\ \A id : Kept(u, id) => Kept(u, id)'
        BY <1>1, <1>8, <2>1, TasksStay
    <2>3. SocialTypeInv'
        BY <1>1, <1>4, <1>8 DEF SocialInv, SocialTypeInv
    <2>4. /\ profile'[u].head # Nothing => profile'[u].head \subseteq PostsOf(u)'
          /\ \A v \in Users : heads'[u][v] # Nothing => heads'[u][v] \subseteq PostsOf(v)' /\ v # u
        BY <1>1, <1>6, <1>7, <1>8 DEF SocialInv, UserInv
    <2> QED
        BY <1>1, <1>4, <1>8, <2>1, <2>2, <2>3, <2>4, FeedStays
<1>9. ASSUME UNCHANGED <<posts, faults>> 
      PROVE  /\ \A id : HasRecord(u, id) => HasRecord(u, id)'
             /\ \A k : Faulty(k) => Faulty(k)'
             /\ posts' \in [Users -> SUBSET Records] /\ faults' \in Seq(Kinds)
             /\ \A w \in Users \ {u} : posts'[w] = posts[w]
    BY <1>6, <1>9, NothingHappened DEF HasRecord
<1>10. CASE \E found \in BOOLEAN : handle_post_create(u, e, found)
    <2>1. PICK found \in BOOLEAN : handle_post_create(u, e, found)
        BY <1>10
    <2>2. PICK p : p = e.data
        OBVIOUS
    <2>3. p \in PostsOf(e.from) /\ heads' = heads
        BY <1>4, <2>1, <2>2 DEF handle_post_create, GoodEvent
    <2>5. CASE p \in Cids(feed[u]) \/ ~found
        <3>3. PICK n \in Nat : n = IF found THEN 0 ELSE 1
            OBVIOUS
        <3>1. UNCHANGED <<posts, task>> /\ Fault("missed", n)
            BY <2>1, <2>2, <2>5, <3>3 DEF handle_post_create
        <3>4. "missed" \in Kinds
            BY DEF Kinds
        <3>5. faults' \in Seq(Kinds) /\ \A k : Faulty(k) => Faulty(k)'
            BY <3>1, <3>4, FaultHappened
        <3>2. \A id : HasRecord(u, id) => HasRecord(u, id)'
            BY <3>1 DEF HasRecord
        <3> QED
            BY <1>6, <1>8, <2>3, <3>1, <3>2, <3>5
    <2>6. CASE ~(p \in Cids(feed[u]) \/ ~found)
        <3>1. /\ \/ posts' = [posts EXCEPT ![u] = Recorded(u, {p})] /\ UNCHANGED faults
                 \/ UNCHANGED posts /\ Fault("record", 1)
              /\ Begin(u, "poll", <<"insert">>, Entry(u, p, p))
            BY <2>1, <2>2, <2>6 DEF handle_post_create
        <3>2. /\ Entry(u, p, p) \in Entries /\ GoodEntry(u, Entry(u, p, p))
              /\ Entry(u, p, p).id = <<u, p>>
              /\ \A i \in DOMAIN feed[u] : feed[u][i].id # Entry(u, p, p).id
            BY <1>5, <2>3, <2>6, NotListed
        <3>3. PICK a : a = Entry(u, p, p)
            OBVIOUS
        <3>5. /\ posts' \in [Users -> SUBSET Records] /\ \A w \in Users \ {u} : posts'[w] = posts[w]
              /\ HasRecord(u, a.id)' \/ Faulty("record")'
              /\ \A id : HasRecord(u, id) => HasRecord(u, id)'
              /\ faults' \in Seq(Kinds) /\ \A k : Faulty(k) => Faulty(k)'
            <4>1. CASE posts' = [posts EXCEPT ![u] = Recorded(u, {p})] /\ UNCHANGED faults
                <5>1. PICK S : S = {p}
                    OBVIOUS
                <5>2. S \in SUBSET PostsOf(e.from) /\ S \cap Cids(feed[u]) = {} /\ posts' = [posts EXCEPT ![u] = Recorded(u, S)]
                    BY <2>3, <2>6, <4>1, <5>1
                <5>3. /\ posts' \in [Users -> SUBSET Records] /\ \A w \in Users \ {u} : posts'[w] = posts[w]
                      /\ \A q \in S : HasRecord(u, <<u, q>>)'
                      /\ \A id : HasRecord(u, id) => HasRecord(u, id)'
                    BY <1>5, <5>2, RecordedFacts
                <5> QED
                    BY <1>6, <3>2, <3>3, <4>1, <5>1, <5>3, NothingHappened
            <4>2. CASE UNCHANGED posts /\ Fault("record", 1)
                <5>1. "record" \in Kinds
                    BY DEF Kinds
                <5>2. faults' \in Seq(Kinds) /\ (\A k : Faulty(k) => Faulty(k)') /\ Faulty("record")'
                    BY <1>6, <4>2, <5>1, FaultFacts
                <5> QED
                    BY <1>6, <4>2, <5>2 DEF HasRecord
            <4> QED
                BY <3>1, <4>1, <4>2
        <3> DEFINE todo == <<"insert">>
        <3>7. Begin(u, "poll", todo, a)
            BY <3>1, <3>3
        <3>8. todo \in InsertPlans /\ todo \in Plans /\ todo # <<>> /\ a \in Args
            BY <3>2, <3>3, OneLeft DEF InsertPlans, Plans, Args
        <3> HIDE DEF todo
        <3>9. /\ todo \notin FilterPlans /\ todo \notin IndexPlans /\ todo \notin HeadPlans /\ todo \notin UserPlans
              /\ todo # MergePlan /\ todo # RecordPlan
            BY <3>8, FilterPlan, InsertPlan, IndexPlan, HeadPlan, MergePlanOnly, RecordPlanOnly, UserPlan DEF FollowsStages
        <3>10. a \in Entries /\ GoodEntry(u, a) /\ \A i \in DOMAIN feed[u] : feed[u][i].id # a.id
            BY <3>2, <3>3
        <3> HIDE DEF MergePlan, RecordPlan
        <3>11. /\ \A v \in Users : heads'[u][v] # Nothing => heads'[u][v] \subseteq PostsOf(v) /\ v # u
               /\ heads' \in [Users -> [Users -> (SUBSET Nat) \cup {Nothing}]]
               /\ \A w \in Users \ {u} : posts'[w] = posts[w] /\ heads'[w] = heads[w]
            BY <1>6, <2>3, <3>5
        <3> QED
            BY <1>1, <1>4, <3>5, <3>7, <3>8, <3>9, <3>10, <3>11, BeginStep
    <2> QED
        BY <2>5, <2>6
\* A step of this kind that begins something else.
<1>11. ASSUME NEW todo \in Plans, todo # <<>>, NEW arg \in Args, Begin(u, "poll", todo, arg), UNCHANGED posts,
              faults' \in Seq(Kinds), \A k : Faulty(k) => Faulty(k)',
              heads' \in [Users -> [Users -> (SUBSET Nat) \cup {Nothing}]],
              \A v \in Users : heads'[u][v] # Nothing => heads'[u][v] \subseteq PostsOf(v) /\ v # u,
              \A w \in Users \ {u} : heads'[w] = heads[w],
              \/ todo = MergePlan /\ \E v \in Users \ {u} : arg \in SUBSET PostsOf(v)
              \/ todo \in FilterPlans /\ arg \in Id
              \/ todo \in UserPlans /\ arg \in Users
       PROVE  SocialInv'
    <2>1. /\ \A id : HasRecord(u, id) => HasRecord(u, id)'
          /\ posts' \in [Users -> SUBSET Records]
          /\ \A w \in Users \ {u} : posts'[w] = posts[w]
        BY <1>6, <1>11 DEF HasRecord
    <2>2. todo \notin InsertPlans /\ todo \notin IndexPlans /\ todo \notin HeadPlans /\ todo # RecordPlan
        BY <1>11, FilterPlan, InsertPlan, IndexPlan, HeadPlan, MergePlanOnly, RecordPlanOnly, UserPlan DEF FollowsStages
    <2>3. /\ todo = MergePlan => todo \notin FilterPlans \cup UserPlans
          /\ todo \in FilterPlans => todo \notin UserPlans
        BY FilterPlan, MergePlanOnly, UserPlan DEF FollowsStages
    <2> HIDE DEF MergePlan, RecordPlan
    <2>4. /\ todo \in FilterPlans => arg \in Id
          /\ todo = MergePlan => \E v \in Users \ {u} : arg \in SUBSET PostsOf(v)
          /\ todo \in UserPlans => arg \in Users
        BY <1>11, <2>3
    <2> QED
        BY <1>1, <1>4, <1>11, <2>1, <2>2, <2>4, BeginStep
<1>12. CASE handle_posts_head(u, e)
    <2>1. PICK head : head = e.data
        OBVIOUS
    <2>2. PICK v \in Users \ {u} : v = e.from
        BY <1>5
    <2>3. /\ \/ heads' = [heads EXCEPT ![u][v] = head]
             \/ heads' = heads
             \/ heads' = [heads EXCEPT ![u] = [w \in Users |-> IF w = v THEN head ELSE Nothing]]
          /\ UNCHANGED faults \/ Fault("other", 1)
          /\ Begin(u, "poll", MergePlan, head) /\ UNCHANGED posts
          /\ e.type = "posts.head"
        BY <1>12, <2>1, <2>2 DEF handle_posts_head, MergePlan
    <2>8. faults' \in Seq(Kinds) /\ \A k : Faulty(k) => Faulty(k)'
        <3>1. "other" \in Kinds
            BY DEF Kinds
        <3> QED
            BY <1>6, <2>3, <3>1, FaultHappened, NothingHappened
    <2>4. head \in SUBSET PostsOf(v) /\ head \in SUBSET Nat
        BY <1>4, <1>7, <2>1, <2>2, <2>3 DEF GoodEvent
    <2>5. /\ heads' \in [Users -> [Users -> (SUBSET Nat) \cup {Nothing}]]
          /\ \A w \in Users \ {u} : heads'[w] = heads[w]
          /\ \A w \in Users : heads'[u][w] \in {heads[u][w], Nothing} \/ (w = v /\ heads'[u][w] = head)
        <3>1. CASE heads' = [heads EXCEPT ![u][v] = head]
            BY <1>6, <2>4, <3>1
        <3>2. CASE heads' = heads
            BY <1>6, <3>2
        <3>3. CASE heads' = [heads EXCEPT ![u] = [w \in Users |-> IF w = v THEN head ELSE Nothing]]
            BY <1>6, <2>4, <3>3
        <3> QED
            BY <2>3, <3>1, <3>2, <3>3
    <2>6. \A w \in Users : heads'[u][w] # Nothing => heads'[u][w] \subseteq PostsOf(w) /\ w # u
        BY <1>6, <2>4, <2>5
    <2>7. MergePlan \in Plans /\ MergePlan # <<>> /\ head \in Args
        BY <2>4, MergePlanOnly DEF Plans, Args
    <2> HIDE DEF MergePlan
    <2> QED
        BY <1>11, <2>3, <2>4, <2>5, <2>6, <2>7, <2>8
<1>13. CASE handle_post_delete(u, e)
    <2>1. PICK id : id = e.data
        OBVIOUS
    <2>2. Begin(u, "poll", <<"filter">>, id) /\ UNCHANGED <<posts, heads, faults>> /\ e.type = "post.delete"
        BY <1>13, <2>1 DEF handle_post_delete
    <2>3. id \in Id
        BY <1>4, <2>1, <2>2 DEF GoodEvent
    <2> DEFINE todo == <<"filter">>
    <2>4. todo \in FilterPlans /\ todo \in Plans /\ todo # <<>> /\ id \in Args
        BY <2>3, OneLeft DEF FilterPlans, Plans, Args
    <2> HIDE DEF todo
    <2>5. Begin(u, "poll", todo, id)
        BY <2>2 DEF todo
    <2> QED
        BY <1>6, <1>9, <1>11, <2>2, <2>3, <2>4, <2>5
<1>14. CASE handle_overlay(u, e)
    <2> DEFINE Changed(r) == IF r.id # e.data[1] THEN r
                             ELSE IF e.type = "post.react"
                                  THEN [r EXCEPT !.likes = Toggled(@, e.data[2])]
                                  ELSE [r EXCEPT !.comments = @ + 1]
    <2>1. /\ e.type \in {"post.react", "post.comment"} /\ UNCHANGED <<heads, task>>
          /\ \/ posts' = [posts EXCEPT ![u] = {Changed(r) : r \in @}] /\ UNCHANGED faults
             \/ UNCHANGED posts /\ Fault("other", 1)
        BY <1>14 DEF handle_overlay
    <2>2. e.data[2] \in Users
        BY <1>4, <2>1 DEF GoodEvent
    <2>3. \A r \in posts[u] : Changed(r) \in Records /\ Changed(r).id = r.id
        <3> TAKE r \in posts[u]
        <3>1. r \in Records
            BY <1>6
        <3> QED
            BY <2>2, <3>1 DEF Records, Toggled
    <2> HIDE DEF Changed
    <2>4. PICK A : A = {Changed(r) : r \in posts[u]}
        OBVIOUS
    <2>5. A \in SUBSET Records /\ \A r \in posts[u] : \E q \in A : q.id = r.id
        BY <2>3, <2>4
    <2>6. (posts' = posts) \/ posts' = [posts EXCEPT ![u] = A]
        BY <2>1, <2>4
    <2>7. /\ posts' \in [Users -> SUBSET Records] /\ \A w \in Users \ {u} : posts'[w] = posts[w]
          /\ (posts'[u] = posts[u]) \/ posts'[u] = A
        BY <1>6, <2>5, <2>6
    <2>8. \A id : HasRecord(u, id) => HasRecord(u, id)'
        BY <2>5, <2>7 DEF HasRecord
    <2>9. faults' \in Seq(Kinds) /\ \A k : Faulty(k) => Faulty(k)'
        <3>1. "other" \in Kinds
            BY DEF Kinds
        <3> QED
            BY <1>6, <2>1, <3>1, FaultHappened, NothingHappened
    <2> QED
        BY <1>8, <2>1, <2>7, <2>8, <2>9
\* The follows could be read ...
<1>15. CASE /\ UNCHANGED <<posts, heads, faults>>
            /\ \E todo \in {<<"hand", "notify">>, <<"addFollower", "mirror", "hand", "notify">>, <<"dropFollower", "mirror">>} :
                 Begin(u, "poll", todo, e.from)
    <2>1. PICK todo \in {<<"hand", "notify">>, <<"addFollower", "mirror", "hand", "notify">>, <<"dropFollower", "mirror">>} :
            Begin(u, "poll", todo, e.from) /\ UNCHANGED <<posts, heads, faults>>
        BY <1>15
    <2>2. PICK v \in Users : v = e.from
        BY <1>5
    <2>3. todo \in UserPlans /\ todo \in Plans /\ todo # <<>> /\ v \in Args
        BY UserPlan DEF UserPlans, Plans, Args
    <2>4. Begin(u, "poll", todo, v)
        BY <2>1, <2>2
    <2> QED
        BY <1>6, <1>9, <1>11, <2>1, <2>3, <2>4
\* ... or could not be, and a request is taken for the first of all.
<1>16. CASE /\ UNCHANGED <<posts, heads>> /\ Fault("follows", 1)
            /\ task' = [task EXCEPT ![u]["poll"] = [todo |-> <<"addFollower", "mirror", "hand", "notify">>,
                                                   arg |-> e.from, snap |-> NoFollows]]
    <2> DEFINE todo == <<"addFollower", "mirror", "hand", "notify">>
    <2>1. todo \in UserPlans /\ todo \in Plans /\ todo # <<>> /\ Head(todo) = "addFollower"
        BY FourLeft DEF UserPlans, Plans
    <2>2. PICK k : k = [todo |-> todo, arg |-> e.from, snap |-> NoFollows]
        OBVIOUS
    <2>3. task' = [task EXCEPT ![u]["poll"] = k]
        BY <1>16, <2>2
    <2> HIDE DEF todo
    <2>4. /\ todo \notin InsertPlans /\ todo \notin FilterPlans /\ todo \notin IndexPlans /\ todo \notin HeadPlans
          /\ todo # MergePlan /\ todo # RecordPlan
        BY <2>1, FilterPlan, InsertPlan, IndexPlan, HeadPlan, MergePlanOnly, RecordPlanOnly, UserPlan DEF FollowsStages
    <2>5. /\ k \in Jobs /\ k.todo = todo /\ k.arg \in Users
          /\ Head(k.todo) \in FollowsStages /\ k.snap = NoFollows
        BY <1>5, <2>1, <2>2 DEF Jobs, FollowTables, NoFollows, FollowsStages
    <2>6. "follows" \in Kinds
        BY DEF Kinds
    <2>7. faults' \in Seq(Kinds) /\ (\A c : Faulty(c) => Faulty(c)') /\ Faulty("follows")'
        <3>1. Fault("follows", 1) /\ faults \in Seq(Kinds)
            BY <1>16 DEF SocialInv, SocialTypeInv
        <3> QED
            BY <2>6, <3>1, FaultFacts
    <2>8. \A id : HasRecord(u, id) => HasRecord(u, id)'
        BY <1>16 DEF HasRecord
    <2>9. /\ posts' \in [Users -> SUBSET Records]
          /\ heads' \in [Users -> [Users -> (SUBSET Nat) \cup {Nothing}]]
          /\ \A v \in Users : heads'[u][v] # Nothing => heads'[u][v] \subseteq PostsOf(v) /\ v # u
          /\ \A w \in Users \ {u} : posts'[w] = posts[w] /\ heads'[w] = heads[w]
        BY <1>6, <1>16
    <2> HIDE DEF MergePlan, RecordPlan
    <2> QED
        BY <1>1, <1>4, <2>1, <2>3, <2>4, <2>5, <2>7, <2>8, <2>9, BeginWith
<1>17. CASE UNCHANGED <<posts, heads, task>> /\ (UNCHANGED faults \/ Fault("follows", 1))
    <2>1. "follows" \in Kinds
        BY DEF Kinds
    <2>2. faults' \in Seq(Kinds) /\ \A k : Faulty(k) => Faulty(k)'
        BY <1>6, <1>17, <2>1, FaultHappened, NothingHappened
    <2>3. \A id : HasRecord(u, id) => HasRecord(u, id)'
        BY <1>17 DEF HasRecord
    <2> QED
        BY <1>6, <1>8, <1>17, <2>2, <2>3
<1>18. CASE handle_follow_request(u, e)
    <2>1. \/ /\ UNCHANGED <<posts, heads, faults>>
             /\ \E todo \in {<<"hand", "notify">>, <<"addFollower", "mirror", "hand", "notify">>} :
                  Begin(u, "poll", todo, e.from)
          \/ /\ UNCHANGED <<posts, heads>> /\ Fault("follows", 1)
             /\ task' = [task EXCEPT ![u]["poll"] = [todo |-> <<"addFollower", "mirror", "hand", "notify">>,
                                                    arg |-> e.from, snap |-> NoFollows]]
        BY <1>18 DEF handle_follow_request
    <2> QED
        BY <1>15, <1>16, <2>1
<1>19. CASE handle_follow_unfollow(u, e)
    <2>1. \/ UNCHANGED <<posts, heads, faults>> /\ Begin(u, "poll", <<"dropFollower", "mirror">>, e.from)
          \/ UNCHANGED <<posts, heads, task>> /\ (UNCHANGED faults \/ Fault("follows", 1))
        BY <1>19 DEF handle_follow_unfollow
    <2> QED
        BY <1>15, <1>17, <2>1
<1> QED
    BY <1>3, <1>10, <1>12, <1>13, <1>14, <1>18, <1>19

-----------------------------------------------------------------------------
(* The theorem.                                                            *)

\* The record of a new post is written, or the post goes no further.
LEMMA WritePostStep ==
    ASSUME SocialInv, NEW u \in Users, NEW x \in Tasks, write_post(u, x)
    PROVE  SocialInv'
<1>1. PICK j : j = task[u][x]
    OBVIOUS
<1>2. PICK a : a = j.arg
    OBVIOUS
<1>3. /\ Stage(u, x) = "record"
      /\ \/ /\ posts' = [posts EXCEPT ![u] = @ \cup {[Record(u, a.id[2]) EXCEPT !.cid = a.cid]}]
            /\ Advance(u, x, a) /\ UNCHANGED faults
         \/ UNCHANGED posts /\ Abandon(u, x) /\ Fault("record", 1)
      /\ UNCHANGED <<feed, follows, profile, heads, queue, made>>
    BY <1>1, <1>2 DEF write_post, counts
<1>4. j \in Jobs /\ GoodJob(u, j) /\ j.todo # <<>> /\ Head(j.todo) = "record"
    BY <1>1, <1>3 DEF Stage, SocialInv, SocialTypeInv, UserInv
<1>5. j.todo = RecordPlan
    <2>1. j.todo \in Plans
        BY <1>4 DEF Jobs
    <2> QED
        BY <2>1, <1>4, PlanKinds
<1>6. a \in Entries /\ GoodEntry(u, a) /\ \A i \in DOMAIN feed[u] : feed[u][i].id # a.id
    BY <1>2, <1>4, <1>5 DEF GoodJob
<1>7. CASE UNCHANGED posts /\ Abandon(u, x) /\ Fault("record", 1)
    <2>1. "record" \in Kinds
        BY DEF Kinds
    <2>2. faults' \in Seq(Kinds) /\ \A k : Faulty(k) => Faulty(k)'
        BY <1>7, <2>1, FaultHappened
    <2>3. posts' \in [Users -> SUBSET Records]
        BY <1>7 DEF SocialInv, SocialTypeInv
    <2> QED
        BY <1>3, <1>7, <2>2, <2>3, AbandonStep
<1>8. CASE posts' = [posts EXCEPT ![u] = @ \cup {[Record(u, a.id[2]) EXCEPT !.cid = a.cid]}] /\ Advance(u, x, a) /\ UNCHANGED faults
    <2>1. PICK r : r = [Record(u, a.id[2]) EXCEPT !.cid = a.cid]
        OBVIOUS
    <2>2. r \in Records /\ r.id = a.id
        <3>1. a.id[1] = u /\ a.id = <<a.id[1], a.id[2]>> /\ a.id[2] \in Nat /\ a.cid \in Nat \cup {Nothing}
            BY <1>6 DEF Entries, Id, GoodEntry
        <3> QED
            BY <2>1, <3>1 DEF Record, Records, IdOf, Id
    <2>3. /\ posts' \in [Users -> SUBSET Records] /\ posts'[u] = posts[u] \cup {r}
          /\ \A w \in Users \ {u} : posts'[w] = posts[w]
        BY <1>8, <2>1, <2>2 DEF SocialInv, SocialTypeInv
    <2>4. HasRecord(u, a.id)' /\ \A id : HasRecord(u, id) => HasRecord(u, id)'
        BY <2>2, <2>3 DEF HasRecord
    <2>5. \A k : Faulty(k) => Faulty(k)'
        BY <1>8, NothingHappened
    <2>6. Stage(u, x) # "done" /\ a \in Entries \cup Id \cup (SUBSET Nat) \cup Users \cup {Nothing}
        BY <1>3, <1>6
    <2>7. \A y \in Tasks \ {x} : task[u][y] = Idle
        BY <1>8, <2>6, GoesOn
    <2>8. PICK k \in Jobs : /\ task' = [task EXCEPT ![u][x] = k] /\ k.snap = Nothing
                            /\ \/ k = Idle /\ Len(j.todo) = 1
                               \/ Len(j.todo) # 1 /\ k.todo = Tail(j.todo) /\ k.arg = a
        BY <1>1, <1>8, <2>6, GoesOn
    <2>9. k.todo \in InsertPlans /\ k.arg = a
        BY <1>4, <1>5, <2>8, RecordPlanOnly DEF InsertPlans
    <2>10. SocialTypeInv
        BY DEF SocialInv
    <2>11. /\ task' \in [Users -> [Tasks -> Jobs]] /\ Alone(u)'
           /\ GoodJob(u, k)' => \A y \in Tasks : GoodJob(u, task[u][y])'
           /\ task'[u][x] = k /\ \A w \in Users \ {u} : task'[w] = task[w]
        BY <2>7, <2>8, <2>10, TaskMoves
    <2>12. GoodEntry(u, a)' /\ (\A i \in DOMAIN feed[u] : feed[u][i].id # a.id)'
        BY <1>3, <1>6 DEF GoodEntry, PostsOf
    <2>13. GoodJob(u, k)'
        BY <1>6, <2>4, <2>8, <2>9, <2>12, JobsGood
    <2>14. (\A y \in Tasks : GoodJob(u, task[u][y]))'
        BY <2>11, <2>13
    <2>15. \A id : ~Deleting(u, id)
        <3>1. <<>> \notin FilterPlans
            BY FilterPlan
        <3>2. j.todo \notin FilterPlans
            BY <1>4, FilterPlan
        <3> QED
            BY <1>1, <2>7, <3>1, <3>2 DEF Deleting, Idle
    <2>16. \A id : Kept(u, id) => Kept(u, id)'
        BY <2>4, <2>15 DEF Kept
    <2>17. Grown /\ QueueInv'
        BY <1>3, <2>5, MadeStays, QueueStays DEF PostsOf
    <2>18. SocialTypeInv'
        BY <1>3, <1>8, <2>3, <2>11 DEF SocialInv, SocialTypeInv
    <2>19. /\ profile'[u].head # Nothing => profile'[u].head \subseteq PostsOf(u)'
           /\ \A v \in Users : heads'[u][v] # Nothing => heads'[u][v] \subseteq PostsOf(v)' /\ v # u
        BY <1>3 DEF SocialInv, UserInv, PostsOf
    <2> QED
        BY <1>3, <2>3, <2>11, <2>14, <2>16, <2>17, <2>18, <2>19, FeedStays
<1> QED
    BY <1>3, <1>7, <1>8

\* A stage on the feed that fails.
LEMMA FeedFailsStep ==
    ASSUME SocialInv, NEW u \in Users, NEW x \in Tasks, FeedFails(u, x)
    PROVE  SocialInv'
<1>1. PICK s : s = task[u][x].snap
    OBVIOUS
<1>2. PICK a : a = task[u][x].arg
    OBVIOUS
<1>3. /\ Stage(u, x) \in FeedStages /\ Fault("feed", 1) /\ Abandon(u, x)
      /\ UNCHANGED <<feed, follows, profile, heads, queue, made>>
    BY DEF FeedFails, counts
<1>4. \/ UNCHANGED posts
      \/ posts' = [posts EXCEPT ![u] = {r \in @ : r.id # a}]
      \/ /\ Stage(u, x) = "merge" /\ s # Nothing
         /\ \E got \in SUBSET Missing(s, a) : posts' = [posts EXCEPT ![u] = Recorded(u, got)]
    <2>1. CASE Stage(u, x) = "merge" /\ s # Nothing
        BY <1>1, <1>2, <2>1 DEF FeedFails
    <2>2. CASE Stage(u, x) = "filter" /\ x = "poll" /\ s # Nothing
        BY <1>1, <1>2, <2>2 DEF FeedFails
    <2>3. CASE ~(Stage(u, x) = "merge" /\ s # Nothing) /\ ~(Stage(u, x) = "filter" /\ x = "poll" /\ s # Nothing)
        BY <1>1, <1>2, <2>3 DEF FeedFails
    <2> QED
        BY <2>1, <2>2, <2>3
<1>5. posts' \in [Users -> SUBSET Records] /\ \A w \in Users \ {u} : posts'[w] = posts[w]
    <2>1. CASE UNCHANGED posts \/ posts' = [posts EXCEPT ![u] = {r \in @ : r.id # a}]
        BY <2>1 DEF SocialInv, SocialTypeInv
    <2>2. CASE /\ Stage(u, x) = "merge" /\ s # Nothing
               /\ \E got \in SUBSET Missing(s, a) : posts' = [posts EXCEPT ![u] = Recorded(u, got)]
        <3>1. PICK got \in SUBSET Missing(s, a) : posts' = [posts EXCEPT ![u] = Recorded(u, got)]
            BY <2>2
        <3>2. PICK v \in Users \ {u} : a \in SUBSET PostsOf(v)
            BY <1>1, <1>2, <2>2, MergeFacts
        <3>3. s = feed[u]
            BY <1>1, <2>2, MergeFacts
        <3>4. got \in SUBSET PostsOf(v) /\ got \cap Cids(feed[u]) = {}
            BY <3>2, <3>3 DEF Missing
        <3> QED
            BY <3>1, <3>4, RecordedFacts
    <2> QED
        BY <1>4, <2>1, <2>2
<1>6. faults' \in Seq(Kinds) /\ (\A k : Faulty(k) => Faulty(k)') /\ Spoiled'
    <2>1. "feed" \in Kinds
        BY DEF Kinds
    <2>2. faults' \in Seq(Kinds) /\ (\A k : Faulty(k) => Faulty(k)') /\ Faulty("feed")'
        BY <1>3, <2>1, FaultFacts DEF SocialInv, SocialTypeInv
    <2> QED
        BY <2>2 DEF Spoiled
<1>7. Stage(u, x) # "done"
    BY <1>3 DEF FeedStages
<1> QED
    BY <1>3, <1>5, <1>6, <1>7, AbandonStep

LEMMA SocialStarts == SocialInit => SocialInv
<1> SUFFICES ASSUME SocialInit PROVE SocialInv
    OBVIOUS
<1>1. Idle \in Jobs
    BY DEF Idle, Jobs, Plans
<1>2. SocialTypeInv
    BY <1>1 DEF SocialInit, SocialTypeInv, FollowTables, Profiles
<1>3. QueueInv
    BY DEF SocialInit, QueueInv
<1>4. ASSUME NEW u \in Users PROVE UserInv(u)
    <2>1. feed[u] = <<>> /\ profile[u].head = Nothing /\ \A v \in Users : heads[u][v] = Nothing
        BY <1>4 DEF SocialInit
    <2>2. \A x \in Tasks : task[u][x] = Idle
        BY <1>4 DEF SocialInit
    <2>3. \A x \in Tasks : GoodJob(u, task[u][x])
        BY <2>2, IdleGood
    <2> QED
        BY <2>1, <2>2, <2>3 DEF UserInv, Alone, Distinct
<1> QED
    BY <1>2, <1>3, <1>4 DEF SocialInv

LEMMA SocialSteps ==
    ASSUME ~Overlap, SocialInv, [SocialNext]_socialVars
    PROVE  SocialInv'
<1>1. CASE UNCHANGED socialVars
    BY <1>1, NothingStep DEF socialVars
<1>2. CASE \E u \in Authors, pinned \in BOOLEAN : create_post(u, pinned)
    <2>1. Authors \subseteq Users
        BY SocialConstants DEF SocialConstants
    <2> QED
        BY <1>2, <2>1, CreateStep
<1>3. CASE \E u \in Users : \E p \in DOMAIN made : delete_post(u, p)
    BY <1>3, DeleteStep
<1>4. CASE \E u \in Users : \E r \in posts[u], kind \in {"post.react", "post.comment"} : Overlay(u, r, kind)
    BY <1>4, OverlayStep
<1>5. CASE \E u \in Readers, v \in Users : follow_user_with(u, v) \/ unfollow_user(u, v)
    <2>1. Readers \subseteq Users
        BY SocialConstants DEF SocialConstants
    <2> QED
        BY <1>5, <2>1, FollowStep
<1>6. CASE \E u \in Users, x \in Tasks : Step(u, x)
    <2>1. PICK u \in Users, x \in Tasks : Step(u, x)
        BY <1>6
    <2>2. CASE WriteFeed(u, x)
        <3>1. Stage(u, x) \in FeedStages
            BY <2>2 DEF WriteFeed
        <3> QED
            BY <2>2, <3>1, InsertStep, FilterStep, MergeStep DEF FeedStages
    <2> QED
        BY <2>1, <2>2, WritePostStep, ReadFileStep, WriteFollowsStep, FeedFailsStep, FollowsFailsStep, ProfileFailsStep,
           WriteProfileStep, IndexStep, PublishStep, NotifyStep DEF Step
<1>7. CASE \E u \in Users : mark_all_read(u)
    BY <1>7, ReadStep
<1>8. CASE \E u \in Users : \E t \in Users \cup {Inbox} : Handle(u, t)
    BY <1>8, HandleStep
<1>9. CASE \E u \in Users : maybe_backfill_known_heads(u) \/ Reload(u)
    BY <1>9, BackfillStep, ReloadStep
<1> QED
    BY <1>1, <1>2, <1>3, <1>4, <1>5, <1>6, <1>7, <1>8, <1>9 DEF SocialNext

\* When the operations of a user run one after the other, a post is listed once
\* however it came, and whatever is listed has its record, unless a reload cut
\* an operation off or a call failed on a record or the feed, be it one whose
\* failure the code ignores.
THEOREM SocialNoTwins ==
    ASSUME ~Overlap
    PROVE  SocialSpec => []NoTwins
<1>1. SocialInit => SocialInv
    BY SocialStarts
<1>2. SocialInv /\ [SocialNext]_socialVars => SocialInv'
    BY SocialSteps
<1>3. SocialInv => NoTwins
    <2> SUFFICES ASSUME SocialInv, NEW u \in Users
                 PROVE  /\ \A i, j \in DOMAIN feed[u] : feed[u][i].id = feed[u][j].id => i = j
                        /\ Quiet(u) /\ ~Faulty("reload") /\ ~Faulty("record") /\ ~Faulty("feed") =>
                             \A i \in DOMAIN feed[u] : \E r \in posts[u] : r.id = feed[u][i].id
        BY DEF NoTwins
    <2>1. UserInv(u)
        BY DEF SocialInv
    <2>2. \A i, j \in DOMAIN feed[u] : feed[u][i].id = feed[u][j].id => i = j
        BY <2>1 DEF UserInv, Distinct
    <2>3. Quiet(u) => \A id : ~Deleting(u, id)
        <3>1. <<>> \notin FilterPlans
            BY FilterPlan
        <3> QED
            BY <3>1 DEF Quiet, Deleting, Idle
    <2>4. Quiet(u) /\ ~Spoiled => \A i \in DOMAIN feed[u] : HasRecord(u, feed[u][i].id)
        BY <2>1, <2>3 DEF UserInv
    <2> QED
        BY <2>2, <2>4 DEF HasRecord, Spoiled
<1> QED
    BY <1>1, <1>2, <1>3, PTL DEF SocialSpec

-----------------------------------------------------------------------------
(* The inductive invariant of the follows.                                 *)

RequestPlans == {<<"mirror", "request">>, <<"request">>}
GoodbyePlans == {<<"mirror", "goodbye">>, <<"goodbye">>}
AddPlans == {<<"addFollower", "mirror", "hand", "notify">>}
DropPlans == {<<"dropFollower", "mirror">>}
MirrorPlans == {<<"mirror", "request">>, <<"mirror", "goodbye">>, <<"mirror", "hand", "notify">>, <<"mirror">>}

\* Is a task of u in one of the plans, about a?
At(u, plans, a) == \E x \in Tasks : task[u][x].todo \in plans /\ task[u][x].arg = a
Mirroring(u) == \E x \in Tasks : task[u][x].todo \in MirrorPlans

FollowTypes == {"follow.request", "follow.unfollow"}
Asked(q, u) == {i \in DOMAIN q : q[i].from = u /\ q[i].type \in FollowTypes}

\* The last thing u said in q is that he follows; he said nothing in q.
LastYes(q, u) == \E i \in Asked(q, u) : q[i].type = "follow.request" /\ \A k \in Asked(q, u) : k <= i
Silence(q, u) == Asked(q, u) = {}

\* As far as v has been told, and will know once he has handled it, u follows him.
HasHeard(u, v) ==
    \/ LastYes(queue[v][Inbox], u)
    \/ /\ Silence(queue[v][Inbox], u)
       /\ At(v, AddPlans, u) \/ (u \in follows[v].followers /\ ~At(v, DropPlans, u))

\* What u's follows.json says of v, and what v was told; u tells after he wrote.
Agree(u, v) ==
    /\ At(u, RequestPlans, v) => v \in follows[u].following
    /\ At(u, GoodbyePlans, v) => v \notin follows[u].following
    /\ ~At(u, RequestPlans, v) /\ ~At(u, GoodbyePlans, v) => (v \in follows[u].following <=> HasHeard(u, v))

Mirrored(u) ==
    \/ Mirroring(u) \/ Faulty("profile")
    \/ profile[u].followers = follows[u].followers /\ profile[u].following = follows[u].following

\* Nobody follows himself.
NotSelf(u) ==
    /\ u \notin follows[u].following /\ u \notin follows[u].followers
    /\ \A x \in Tasks : task[u][x].todo \in UserPlans => task[u][x].arg # u

\* Follows are told in the follow inbox only.
InboxOnly ==
    \A u \in Users : \A t \in Users \cup {Inbox} : \A i \in DOMAIN queue[u][t] :
        queue[u][t][i].type \in FollowTypes => t = Inbox

\* Faults after which the two ends may disagree.
Upset == Faulty("lost") \/ Faulty("reload") \/ Faulty("follows")

FollowInv ==
    /\ InboxOnly
    /\ \A u \in Users : NotSelf(u)
    /\ Upset \/ \A u \in Users : Mirrored(u) /\ \A v \in Users \ {u} : Agree(u, v)

\* A plan after which nothing is to be mirrored or told.
Calm(t) == t \notin RequestPlans \cup GoodbyePlans \cup AddPlans \cup DropPlans \cup MirrorPlans

\* The step changes nothing in what the tasks are to do about follows.
SameWork ==
    \A w \in Users :
        /\ \A a : /\ At(w, RequestPlans, a)' <=> At(w, RequestPlans, a)
                  /\ At(w, GoodbyePlans, a)' <=> At(w, GoodbyePlans, a)
                  /\ At(w, AddPlans, a)' <=> At(w, AddPlans, a)
                  /\ At(w, DropPlans, a)' <=> At(w, DropPlans, a)
        /\ Mirroring(w)' <=> Mirroring(w)
        /\ (\A x \in Tasks : task[w][x].todo \in UserPlans => task[w][x].arg # w)'

\* The step changes nothing in what the inboxes say about follows.
SameWord ==
    /\ InboxOnly'
    /\ \A w, a \in Users : /\ LastYes(queue[w][Inbox], a)' <=> LastYes(queue[w][Inbox], a)
                           /\ Silence(queue[w][Inbox], a)' <=> Silence(queue[w][Inbox], a)

FaultsKept == \A k : Faulty(k) => Faulty(k)'

LEMMA FollowFrame ==
    ASSUME FollowInv, SameWork, SameWord, FaultsKept, follows' = follows,
           \A w \in Users : profile'[w].followers = profile[w].followers /\ profile'[w].following = profile[w].following
    PROVE  FollowInv'
<1>1. \A w \in Users : NotSelf(w)'
    BY DEF FollowInv, NotSelf, SameWork
<1>2. \A w \in Users : Mirrored(w) => Mirrored(w)'
    BY DEF Mirrored, SameWork, FaultsKept
<1>3. \A w, a \in Users : HasHeard(a, w)' <=> HasHeard(a, w)
    <2> SUFFICES ASSUME NEW w \in Users, NEW a \in Users PROVE HasHeard(a, w)' <=> HasHeard(a, w)
        OBVIOUS
    <2>1. /\ LastYes(queue[w][Inbox], a)' <=> LastYes(queue[w][Inbox], a)
          /\ Silence(queue[w][Inbox], a)' <=> Silence(queue[w][Inbox], a)
        BY DEF SameWord
    <2>2. At(w, AddPlans, a)' <=> At(w, AddPlans, a)
        BY DEF SameWork
    <2>3. At(w, DropPlans, a)' <=> At(w, DropPlans, a)
        BY DEF SameWork
    <2> QED
        BY <2>1, <2>2, <2>3 DEF HasHeard
<1>4. \A w, a \in Users : Agree(a, w) => Agree(a, w)'
    <2> SUFFICES ASSUME NEW w \in Users, NEW a \in Users, Agree(a, w) PROVE Agree(a, w)'
        OBVIOUS
    <2>1. At(a, RequestPlans, w)' <=> At(a, RequestPlans, w)
        BY DEF SameWork
    <2>2. At(a, GoodbyePlans, w)' <=> At(a, GoodbyePlans, w)
        BY DEF SameWork
    <2> QED
        BY <1>3, <2>1, <2>2 DEF Agree
<1>5. (Upset \/ \A u \in Users : Mirrored(u) /\ \A v \in Users \ {u} : Agree(u, v))'
    BY <1>2, <1>4 DEF FollowInv, FaultsKept, Upset
<1> QED
    BY <1>1, <1>5 DEF FollowInv, SameWord

LEMMA CalmPlans ==
    /\ Calm(<<>>) /\ Calm(MergePlan) /\ Calm(RecordPlan)
    /\ \A t : t # <<>> /\ Head(t) \notin FollowsStages \cup {"mirror", "request", "goodbye"} => Calm(t)
    /\ \A t \in InsertPlans \cup FilterPlans \cup IndexPlans \cup HeadPlans : Calm(t)
    /\ Calm(<<"follow", "mirror", "request">>) /\ Calm(<<"unfollow", "mirror", "goodbye">>)
    /\ Calm(<<"hand", "notify">>) /\ Calm(<<"notify">>)
<1> DEFINE Hasty == RequestPlans \cup GoodbyePlans \cup AddPlans \cup DropPlans \cup MirrorPlans
<1>1. ASSUME NEW t \in Hasty
      PROVE  t # <<>> /\ Head(t) \in {"mirror", "request", "goodbye", "addFollower", "dropFollower"}
    <2>1. CASE t \in RequestPlans
        BY <2>1, OneLeft, TwoLeft DEF RequestPlans
    <2>2. CASE t \in GoodbyePlans
        BY <2>2, OneLeft, TwoLeft DEF GoodbyePlans
    <2>3. CASE t \in AddPlans
        BY <2>3, FourLeft DEF AddPlans
    <2>4. CASE t \in DropPlans
        BY <2>4, TwoLeft DEF DropPlans
    <2>5. CASE t \in MirrorPlans
        BY <2>5, OneLeft, TwoLeft, ThreeLeft DEF MirrorPlans
    <2> QED
        BY <2>1, <2>2, <2>3, <2>4, <2>5
<1>2. \A t : Calm(t) <=> t \notin Hasty
    BY DEF Calm
<1> HIDE DEF Hasty
<1>3. /\ Calm(<<>>) /\ Calm(MergePlan) /\ Calm(RecordPlan)
      /\ \A t : t # <<>> /\ Head(t) \notin FollowsStages \cup {"mirror", "request", "goodbye"} => Calm(t)
    BY <1>1, <1>2, MergePlanOnly, RecordPlanOnly DEF FollowsStages
<1>4. \A t \in InsertPlans \cup FilterPlans \cup IndexPlans \cup HeadPlans : Calm(t)
    BY <1>1, <1>2, InsertPlan, FilterPlan, IndexPlan, HeadPlan
<1>5. Calm(<<"follow", "mirror", "request">>) /\ Calm(<<"unfollow", "mirror", "goodbye">>)
    <2>1. Head(<<"follow", "mirror", "request">>) = "follow" /\ Head(<<"unfollow", "mirror", "goodbye">>) = "unfollow"
        BY ThreeLeft
    <2> QED
        BY <1>1, <1>2, <2>1
<1>6. Calm(<<"hand", "notify">>) /\ Calm(<<"notify">>)
    <2>1. Head(<<"hand", "notify">>) = "hand" /\ Head(<<"notify">>) = "notify"
        BY OneLeft, TwoLeft
    <2> QED
        BY <1>1, <1>2, <2>1
<1> QED
    BY <1>3, <1>4, <1>5, <1>6

\* One job takes the place of another, both calm or both the same but for what
\* was read.
LEMMA CalmMove ==
    ASSUME SocialInv, FollowInv, NEW u \in Users, NEW x \in Tasks, NEW k, task' = [task EXCEPT ![u][x] = k],
           \/ Calm(task[u][x].todo) /\ Calm(k.todo)
           \/ k.todo = task[u][x].todo /\ k.arg = task[u][x].arg,
           k.todo \in UserPlans => k.arg # u
    PROVE  SameWork
<1>1. /\ task'[u][x] = k /\ \A y \in Tasks \ {x} : task'[u][y] = task[u][y]
      /\ \A w \in Users \ {u} : task'[w] = task[w]
    BY DEF SocialInv, SocialTypeInv
<1>2. ASSUME NEW w \in Users \ {u}
      PROVE  /\ \A a, plans : At(w, plans, a)' <=> At(w, plans, a)
             /\ Mirroring(w)' <=> Mirroring(w)
             /\ (\A y \in Tasks : task[w][y].todo \in UserPlans => task[w][y].arg # w)'
    BY <1>1 DEF At, Mirroring, FollowInv, NotSelf
<1>3. (\A y \in Tasks : task[u][y].todo \in UserPlans => task[u][y].arg # u)'
    <2>1. \A y \in Tasks : task[u][y].todo \in UserPlans => task[u][y].arg # u
        BY DEF FollowInv, NotSelf
    <2> QED
        BY <1>1, <2>1
<1>4. ASSUME NEW plans \in {RequestPlans, GoodbyePlans, AddPlans, DropPlans, MirrorPlans}
      PROVE  /\ \A a : At(u, plans, a)' <=> At(u, plans, a)
             /\ (\E y \in Tasks : task[u][y].todo \in plans)' <=> \E y \in Tasks : task[u][y].todo \in plans
    <2>1. CASE task[u][x].todo \notin plans /\ k.todo \notin plans
        BY <1>1, <2>1 DEF At
    <2>2. CASE k.todo = task[u][x].todo /\ k.arg = task[u][x].arg
        BY <1>1, <2>2 DEF At
    <2> QED
        BY <2>1, <2>2 DEF Calm
<1>5. /\ \A a : At(u, RequestPlans, a)' <=> At(u, RequestPlans, a)
      /\ \A a : At(u, GoodbyePlans, a)' <=> At(u, GoodbyePlans, a)
      /\ \A a : At(u, AddPlans, a)' <=> At(u, AddPlans, a)
      /\ \A a : At(u, DropPlans, a)' <=> At(u, DropPlans, a)
      /\ Mirroring(u)' <=> Mirroring(u)
    BY <1>4 DEF Mirroring
<1> QED
    BY <1>2, <1>3, <1>5 DEF SameWork

\* What an event appended to an inbox, or taken from it, changes in its word.
LEMMA WordAppended ==
    ASSUME NEW q \in Seq(Events), NEW e \in Events, NEW r, r = Append(q, e), NEW u
    PROVE  /\ ~(e.from = u /\ e.type \in FollowTypes) =>
                (LastYes(r, u) <=> LastYes(q, u)) /\ (Silence(r, u) <=> Silence(q, u))
           /\ e.from = u /\ e.type \in FollowTypes =>
                ~Silence(r, u) /\ (LastYes(r, u) <=> e.type = "follow.request")
<1>1. /\ Len(q) \in Nat /\ DOMAIN q = 1..Len(q) /\ DOMAIN r = 1..(Len(q) + 1)
      /\ r[Len(q) + 1] = e /\ \A i \in 1..Len(q) : r[i] = q[i]
    OBVIOUS
<1>2. PICK n \in Nat : n = Len(q)
    BY <1>1
<1>3. Asked(q, u) \subseteq 1..n
    BY <1>1, <1>2 DEF Asked
<1>4. CASE ~(e.from = u /\ e.type \in FollowTypes)
    <2>1. Asked(r, u) = Asked(q, u)
        BY <1>1, <1>2, <1>4 DEF Asked
    <2>2. \A i \in Asked(q, u) : r[i] = q[i]
        BY <1>1, <1>2, <1>3
    <2> QED
        BY <1>4, <2>1, <2>2 DEF LastYes, Silence
<1>5. CASE e.from = u /\ e.type \in FollowTypes
    <2>1. n + 1 \in Asked(r, u) /\ r[n + 1] = e
        BY <1>1, <1>2, <1>5 DEF Asked
    <2>2. \A i \in Asked(r, u) : i \in Nat /\ i <= n + 1
        BY <1>1, <1>2 DEF Asked
    <2>3. ~Silence(r, u)
        BY <2>1 DEF Silence
    <2>4. ASSUME LastYes(r, u) PROVE e.type = "follow.request"
        <3>1. PICK i \in Asked(r, u) : r[i].type = "follow.request" /\ \A k \in Asked(r, u) : k <= i
            BY <2>4 DEF LastYes
        <3>2. i = n + 1
            BY <2>1, <2>2, <3>1
        <3> QED
            BY <2>1, <3>1, <3>2
    <2>5. e.type = "follow.request" => LastYes(r, u)
        BY <2>1, <2>2 DEF LastYes
    <2> QED
        BY <1>5, <2>3, <2>4, <2>5
<1> QED
    BY <1>4, <1>5

LEMMA WordDrained ==
    ASSUME NEW q \in Seq(Events), q # <<>>, NEW r, r = Tail(q), NEW e, e = Head(q), NEW u
    PROVE  /\ ~(e.from = u /\ e.type \in FollowTypes) =>
                (LastYes(r, u) <=> LastYes(q, u)) /\ (Silence(r, u) <=> Silence(q, u))
           /\ e.from = u /\ e.type \in FollowTypes =>
                /\ ~Silence(q, u)
                /\ ~Silence(r, u) => (LastYes(r, u) <=> LastYes(q, u))
                /\ Silence(r, u) => (LastYes(q, u) <=> e.type = "follow.request") /\ ~LastYes(r, u)
<1>1. PICK n \in Nat : n = Len(r)
    OBVIOUS
<1>2. /\ DOMAIN q = 1..(n + 1) /\ DOMAIN r = 1..n /\ q[1] = e
      /\ \A i \in 1..n : r[i] = q[i + 1]
    BY <1>1
<1>3. \A i \in 1..n : i \in Asked(r, u) <=> i + 1 \in Asked(q, u)
    BY <1>2 DEF Asked
<1>4. /\ \A i \in Asked(q, u) : i \in 1..(n + 1) /\ (i = 1 \/ (i - 1 \in 1..n /\ i - 1 \in Asked(r, u) /\ r[i - 1] = q[i]))
      /\ \A i \in Asked(r, u) : i \in 1..n /\ i + 1 \in Asked(q, u) /\ r[i] = q[i + 1]
    <2>1. \A i \in Asked(r, u) : i \in 1..n /\ i + 1 \in Asked(q, u) /\ r[i] = q[i + 1]
        BY <1>2, <1>3 DEF Asked
    <2>2. ASSUME NEW i \in Asked(q, u)
          PROVE  i \in 1..(n + 1) /\ (i = 1 \/ (i - 1 \in 1..n /\ i - 1 \in Asked(r, u) /\ r[i - 1] = q[i]))
        <3>1. i \in 1..(n + 1)
            BY <1>2 DEF Asked
        <3>2. CASE i # 1
            <4>1. i - 1 \in 1..n /\ (i - 1) + 1 = i
                BY <3>1, <3>2
            <4> QED
                BY <3>1, <4>1, <1>2, <1>3
        <3> QED
            BY <3>1, <3>2
    <2> QED
        BY <2>1, <2>2
<1>5. 1 \in Asked(q, u) <=> e.from = u /\ e.type \in FollowTypes
    BY <1>2 DEF Asked
<1>6. LastYes(r, u) => LastYes(q, u) /\ ~Silence(r, u)
    <2> SUFFICES ASSUME LastYes(r, u) PROVE LastYes(q, u) /\ ~Silence(r, u)
        OBVIOUS
    <2>1. PICK i \in Asked(r, u) : r[i].type = "follow.request" /\ \A k \in Asked(r, u) : k <= i
        BY DEF LastYes
    <2>2. i + 1 \in Asked(q, u) /\ q[i + 1].type = "follow.request" /\ i \in Nat /\ i >= 1
        <3>1. i \in 1..n /\ i + 1 \in Asked(q, u) /\ r[i] = q[i + 1]
            BY <1>4
        <3>2. q[i + 1].type = "follow.request"
            BY <2>1, <3>1, Zenon
        <3>3. i \in Nat /\ i >= 1
            BY <3>1
        <3> QED
            BY <3>1, <3>2, <3>3, Zenon
    <2>3. \A k \in Asked(q, u) : k <= i + 1
        BY <1>4, <2>1, <2>2
    <2> QED
        BY <2>1, <2>2, <2>3 DEF LastYes, Silence
<1>7. LastYes(q, u) /\ (~Silence(r, u) \/ 1 \notin Asked(q, u)) => LastYes(r, u)
    <2> SUFFICES ASSUME LastYes(q, u), ~Silence(r, u) \/ 1 \notin Asked(q, u) PROVE LastYes(r, u)
        OBVIOUS
    <2>1. PICK i \in Asked(q, u) : q[i].type = "follow.request" /\ \A k \in Asked(q, u) : k <= i
        BY DEF LastYes
    <2>2. i # 1
        <3>1. CASE 1 \notin Asked(q, u)
            BY <2>1, <3>1
        <3>2. CASE ~Silence(r, u)
            <4>1. PICK k : k \in Asked(r, u)
                BY <3>2 DEF Silence
            <4>2. k \in 1..n /\ k + 1 \in Asked(q, u)
                BY <1>4, <4>1
            <4> QED
                BY <2>1, <4>2
        <3> QED
            BY <3>1, <3>2
    <2>3. i \in Nat /\ i - 1 \in Asked(r, u) /\ r[i - 1] = q[i]
        <3>1. i \in 1..(n + 1) /\ (i = 1 \/ (i - 1 \in 1..n /\ i - 1 \in Asked(r, u) /\ r[i - 1] = q[i]))
            BY <1>4
        <3>2. i \in Nat
            BY <3>1
        <3> QED
            BY <2>2, <3>1, <3>2, Zenon
    <2>4. \A k \in Asked(r, u) : k <= i - 1
        <3> TAKE k \in Asked(r, u)
        <3>1. k \in Nat /\ k + 1 <= i
            BY <1>4, <2>1
        <3> QED
            BY <2>3, <3>1
    <2> QED
        BY <2>1, <2>3, <2>4 DEF LastYes
<1>8. 1 \notin Asked(q, u) => (Silence(r, u) <=> Silence(q, u))
    BY <1>4 DEF Silence
<1>9. 1 \in Asked(q, u) /\ Silence(r, u) => (LastYes(q, u) <=> e.type = "follow.request")
    <2> SUFFICES ASSUME 1 \in Asked(q, u), Silence(r, u) PROVE LastYes(q, u) <=> e.type = "follow.request"
        OBVIOUS
    <2>1. \A i \in Asked(q, u) : i = 1
        BY <1>4 DEF Silence
    <2>2. q[1] = e
        BY <1>2
    <2> QED
        BY <2>1, <2>2 DEF LastYes
<1>10. 1 \in Asked(q, u) => ~Silence(q, u)
    BY DEF Silence
<1> QED
    BY <1>5, <1>6, <1>7, <1>8, <1>9, <1>10

LEMMA WordStays ==
    ASSUME FollowInv, queue' = queue
    PROVE  SameWord
    BY DEF FollowInv, SameWord, InboxOnly

\* An event reaches a log, at its end, or does not.
Grows(receivers, t, e, w, s) ==
    \/ queue'[w][s] = queue[w][s]
    \/ s = t /\ w \in receivers /\ queue'[w][s] = Append(queue[w][s], e)

LEMMA LogsReach ==
    ASSUME SocialInv, NEW receivers \in SUBSET Users, NEW t, NEW e \in Events, PublishTo(receivers, t, e)
    PROVE  \A w \in Users : \A s \in Users \cup {Inbox} : Grows(receivers, t, e, w, s)
<1>1. PICK hear \in SUBSET receivers :
         queue' = [u \in Users |-> IF u \in hear THEN [queue[u] EXCEPT ![t] = Append(@, e)] ELSE queue[u]]
    BY DEF PublishTo
<1> SUFFICES ASSUME NEW w \in Users, NEW s \in Users \cup {Inbox}
             PROVE  Grows(receivers, t, e, w, s)
    OBVIOUS
<1>2. queue[w] \in [Users \cup {Inbox} -> Seq(Events)]
    BY DEF SocialInv, SocialTypeInv
<1>3. queue'[w] = queue[w] \/ (w \in receivers /\ queue'[w] = [queue[w] EXCEPT ![t] = Append(@, e)])
    BY <1>1
<1> QED
    BY <1>2, <1>3 DEF Grows

\* Events about posts say nothing about follows.
LEMMA WordPublished ==
    ASSUME SocialInv, FollowInv, NEW receivers \in SUBSET Users, NEW t, NEW e \in Events,
           PublishTo(receivers, t, e), e.type \notin FollowTypes
    PROVE  SameWord
<1>1. \A w \in Users : \A s \in Users \cup {Inbox} :
         /\ queue[w][s] \in Seq(Events)
         /\ queue'[w][s] = queue[w][s] \/ queue'[w][s] = Append(queue[w][s], e)
    <2>1. \A w \in Users : \A s \in Users \cup {Inbox} : queue[w][s] \in Seq(Events)
        BY DEF SocialInv, SocialTypeInv
    <2>2. \A w \in Users : \A s \in Users \cup {Inbox} : Grows(receivers, t, e, w, s)
        BY LogsReach
    <2> QED
        BY <2>1, <2>2 DEF Grows
<1>2. ASSUME NEW w \in Users, NEW s \in Users \cup {Inbox}, NEW i \in DOMAIN queue'[w][s],
             queue'[w][s][i].type \in FollowTypes
      PROVE  s = Inbox
    <2>1. PICK q \in Seq(Events) : q = queue[w][s]
        BY <1>1
    <2>2. PICK r : r = queue'[w][s]
        OBVIOUS
    <2>3. i \in DOMAIN q /\ r[i] = q[i]
        <3>1. CASE r = q
            BY <1>2, <2>2, <3>1
        <3>2. CASE r = Append(q, e)
            <4>1. r[i] # e
                BY <1>2, <2>2
            <4> QED
                BY <1>2, <2>2, <3>2, <4>1
        <3> QED
            BY <1>1, <2>1, <2>2, <3>1, <3>2
    <2> QED
        BY <1>2, <2>1, <2>2, <2>3 DEF FollowInv, InboxOnly
<1>3. ASSUME NEW w \in Users, NEW a \in Users
      PROVE  /\ LastYes(queue[w][Inbox], a)' <=> LastYes(queue[w][Inbox], a)
             /\ Silence(queue[w][Inbox], a)' <=> Silence(queue[w][Inbox], a)
    <2>1. PICK q \in Seq(Events) : q = queue[w][Inbox]
        BY <1>1
    <2>2. PICK r : r = queue'[w][Inbox]
        OBVIOUS
    <2>3. (LastYes(r, a) <=> LastYes(q, a)) /\ (Silence(r, a) <=> Silence(q, a))
        <3>1. r = q \/ r = Append(q, e)
            BY <1>1, <2>1, <2>2
        <3> QED
            BY <3>1, WordAppended
    <2> QED
        BY <2>1, <2>2, <2>3
<1> QED
    BY <1>2, <1>3 DEF SameWord, InboxOnly

\* Draining an event about posts says nothing about follows either.
LEMMA WordTaken ==
    ASSUME SocialInv, FollowInv, NEW u \in Users, NEW t \in Users \cup {Inbox}, queue[u][t] # <<>>, Drained(u, t)
    PROVE  /\ InboxOnly'
           /\ Head(queue[u][t]).type \in FollowTypes => t = Inbox
           /\ Head(queue[u][t]).type \notin FollowTypes => SameWord
           /\ \A w \in Users \ {u} : queue'[w] = queue[w]
           /\ t = Inbox => queue'[u][Inbox] = Tail(queue[u][Inbox])
<1>1. PICK q \in Seq(Events) : q = queue[u][t] /\ q # <<>>
    BY DEF SocialInv, SocialTypeInv
<1>2. PICK r : r = Tail(q)
    OBVIOUS
<1>3. r \in Seq(Events) /\ \A i \in DOMAIN r : r[i] = q[i + 1] /\ i + 1 \in DOMAIN q
    BY <1>1, <1>2
<1>4. queue' = [queue EXCEPT ![u][t] = r]
    BY <1>1, <1>2 DEF Drained, SocialInv, SocialTypeInv
<1>5. /\ \A w \in Users \ {u} : queue'[w] = queue[w]
      /\ \A s \in Users \cup {Inbox} : queue'[u][s] = IF s = t THEN r ELSE queue[u][s]
    BY <1>4 DEF SocialInv, SocialTypeInv
<1>6. InboxOnly'
    <2>1. ASSUME NEW w \in Users, NEW s \in Users \cup {Inbox}, NEW i \in DOMAIN queue'[w][s],
                 queue'[w][s][i].type \in FollowTypes
          PROVE  s = Inbox
        <3>1. CASE w = u /\ s = t
            <4>1. i + 1 \in DOMAIN queue[u][t] /\ queue[u][t][i + 1].type \in FollowTypes
                BY <1>1, <1>3, <1>5, <2>1, <3>1
            <4> QED
                BY <3>1, <4>1 DEF FollowInv, InboxOnly
        <3>2. CASE ~(w = u /\ s = t)
            <4>1. queue'[w][s] = queue[w][s]
                BY <1>5, <3>2
            <4> QED
                BY <2>1, <4>1 DEF FollowInv, InboxOnly
        <3> QED
            BY <3>1, <3>2
    <2> QED
        BY <2>1 DEF InboxOnly
<1>7. Head(q) = q[1] /\ 1 \in DOMAIN q
    BY <1>1
<1>8. Head(q).type \in FollowTypes => t = Inbox
    BY <1>1, <1>7 DEF FollowInv, InboxOnly
<1>9. ASSUME Head(q).type \notin FollowTypes PROVE SameWord
    <2>1. ASSUME NEW w \in Users, NEW a \in Users
          PROVE  /\ LastYes(queue[w][Inbox], a)' <=> LastYes(queue[w][Inbox], a)
                 /\ Silence(queue[w][Inbox], a)' <=> Silence(queue[w][Inbox], a)
        <3>1. CASE w = u /\ t = Inbox
            <4>1. PICK e : e = Head(q)
                OBVIOUS
            <4>2. (LastYes(r, a) <=> LastYes(q, a)) /\ (Silence(r, a) <=> Silence(q, a))
                BY <1>1, <1>2, <1>9, <4>1, WordDrained
            <4>3. queue'[w][Inbox] = r /\ queue[w][Inbox] = q
                BY <1>1, <1>5, <3>1
            <4> QED
                BY <4>2, <4>3
        <3>2. CASE ~(w = u /\ t = Inbox)
            <4>1. queue'[w][Inbox] = queue[w][Inbox]
                BY <1>5, <3>2
            <4> QED
                BY <4>1
        <3> QED
            BY <3>1, <3>2
    <2> QED
        BY <1>6, <2>1 DEF SameWord
<1> QED
    BY <1>1, <1>2, <1>5, <1>6, <1>8, <1>9

LEMMA WorkStays ==
    ASSUME FollowInv, task' = task
    PROVE  SameWork
    BY DEF FollowInv, NotSelf, SameWork, At, Mirroring

LEMMA CalmBegin ==
    ASSUME SocialInv, FollowInv, ~Overlap, NEW u \in Users, NEW x \in Tasks, NEW todo, NEW arg,
           Free(u, x), Begin(u, x, todo, arg), Calm(todo), todo \in UserPlans => arg # u
    PROVE  SameWork
<1> DEFINE k == [todo |-> todo, arg |-> arg, snap |-> Nothing]
<1>1. k.todo = todo /\ k.arg = arg
    OBVIOUS
<1>2. task' = [task EXCEPT ![u][x] = k]
    BY DEF Begin
<1>3. task[u][x] = Idle
    BY DEF Free
<1>4. Calm(task[u][x].todo)
    BY <1>3, CalmPlans DEF Idle
<1> HIDE DEF k
<1> QED
    BY <1>1, <1>2, <1>4, CalmMove

LEMMA CalmGoes ==
    ASSUME SocialInv, FollowInv, NEW u \in Users, NEW x \in Tasks, Stage(u, x) # "done",
           Stage(u, x) \notin FollowsStages \cup {"mirror", "request", "goodbye"},
           NEW arg \in Args, Advance(u, x, arg),
           task[u][x].todo \in UserPlans => arg = task[u][x].arg \/ Len(task[u][x].todo) = 1
    PROVE  SameWork
<1>1. arg \in Entries \cup Id \cup (SUBSET Nat) \cup Users \cup {Nothing}
    BY DEF Args
<1>2. /\ task[u][x] \in Jobs /\ task[u][x].todo # <<>> /\ Stage(u, x) = Head(task[u][x].todo)
    BY <1>1, GoesOn
<1>3. PICK k \in Jobs : /\ task' = [task EXCEPT ![u][x] = k] /\ k.snap = Nothing
                        /\ \/ k = Idle /\ Len(task[u][x].todo) = 1
                           \/ /\ Len(task[u][x].todo) # 1 /\ k.todo = Tail(task[u][x].todo) /\ k.arg = arg
    BY <1>1, GoesOn
<1>4. PICK t \in Plans : t = task[u][x].todo
    BY <1>2 DEF Jobs
<1>5. t # <<>> /\ Head(t) \notin FollowsStages \cup {"mirror", "request", "goodbye"}
    BY <1>2, <1>4
<1>6. Calm(t) /\ (Len(t) # 1 => Calm(Tail(t))) /\ (Len(t) # 1 /\ Tail(t) \in UserPlans => t \in UserPlans)
    <2>1. CASE t \in InsertPlans \cup FilterPlans \cup IndexPlans \cup HeadPlans
        <3>1. Len(t) # 1 => Tail(t) \in IndexPlans \cup HeadPlans
            BY <1>4, <1>5, <2>1, PlanTail, IndexPlan
        <3>2. \A s \in IndexPlans \cup HeadPlans : s \notin UserPlans
            BY IndexPlan, HeadPlan, UserPlan DEF FollowsStages
        <3> QED
            BY <2>1, <3>1, <3>2, CalmPlans
    <2>2. CASE t = MergePlan
        BY <2>2, CalmPlans, MergePlanOnly
    <2>3. CASE t \in UserPlans
        <3>1. t \in {<<"hand", "notify">>, <<"notify">>}
            BY <1>5, <2>3, OneLeft, TwoLeft, ThreeLeft, FourLeft DEF UserPlans, FollowsStages
        <3>2. Len(t) # 1 => Tail(t) = <<"notify">>
            BY <2>3, <3>1, OneLeft, TwoLeft
        <3> QED
            BY <2>3, <3>1, <3>2, CalmPlans
    <2>4. CASE t = RecordPlan
        <3>1. Tail(t) \in InsertPlans /\ Calm(t)
            BY <1>4, <1>5, <2>4, RecordPlanOnly, CalmPlans DEF InsertPlans
        <3>2. Tail(t) \notin UserPlans
            BY <3>1, InsertPlan, UserPlan DEF FollowsStages
        <3> QED
            BY <3>1, <3>2, CalmPlans
    <2> QED
        BY <1>4, <1>5, <2>1, <2>2, <2>3, <2>4 DEF Plans
<1>7. Calm(k.todo)
    BY <1>3, <1>4, <1>6, CalmPlans DEF Idle
<1>8. k.todo \in UserPlans => k.arg # u
    <2> SUFFICES ASSUME k.todo \in UserPlans PROVE k.arg # u
        OBVIOUS
    <2>1. <<>> \notin UserPlans
        BY UserPlan
    <2>2. Len(t) # 1 /\ k.todo = Tail(t) /\ k.arg = arg
        BY <1>3, <1>4, <2>1 DEF Idle
    <2>3. t \in UserPlans /\ arg = task[u][x].arg
        BY <1>4, <1>6, <2>2
    <2> QED
        BY <1>4, <2>2, <2>3 DEF FollowInv, NotSelf
<1> QED
    BY <1>3, <1>4, <1>6, <1>7, <1>8, CalmMove

\* A step that writes neither follows.json nor what mirrors it.
LEMMA CalmStep ==
    ASSUME FollowInv, SameWork, SameWord, \A k : Faulty(k) => Faulty(k)', follows' = follows, profile' = profile
    PROVE  FollowInv'
<1>1. FaultsKept
    BY DEF FaultsKept
<1> QED
    BY <1>1, FollowFrame

\* A task that goes no further with what is not about follows.
LEMMA AbandonFollows ==
    ASSUME SocialInv, FollowInv, NEW u \in Users, NEW x \in Tasks, Stage(u, x) # "done",
           Stage(u, x) \notin FollowsStages \cup {"mirror", "request", "goodbye"},
           Abandon(u, x), \A k : Faulty(k) => Faulty(k)', queue' = queue, follows' = follows, profile' = profile
    PROVE  FollowInv'
<1>1. task[u][x].todo # <<>> /\ Stage(u, x) = Head(task[u][x].todo)
    BY StageFacts
<1>2. Calm(task[u][x].todo) /\ Calm(Idle.todo) /\ Idle.todo \notin UserPlans
    BY <1>1, CalmPlans, UserPlan DEF Idle
<1>3. SameWork
    BY <1>2, CalmMove DEF Abandon
<1> QED
    BY <1>3, WordStays, CalmStep

\* After some faults only that nobody follows himself is left to say.
LEMMA UpsetStep ==
    ASSUME SocialInv, FollowInv, NEW u \in Users, NEW x \in Tasks, NEW k, task' = [task EXCEPT ![u][x] = k],
           k.todo \in UserPlans => k.arg # u,
           Upset', InboxOnly', follows' = follows
    PROVE  FollowInv'
<1>1. /\ task'[u][x] = k /\ \A y \in Tasks \ {x} : task'[u][y] = task[u][y]
      /\ \A w \in Users \ {u} : task'[w] = task[w]
    BY DEF SocialInv, SocialTypeInv
<1>2. \A w \in Users : NotSelf(w)
    BY DEF FollowInv
<1>3. ASSUME NEW w \in Users PROVE NotSelf(w)'
    BY <1>1, <1>2 DEF NotSelf
<1> QED
    BY <1>3 DEF FollowInv

LEMMA CreateFollows ==
    ASSUME SocialInv, FollowInv, ~Overlap, NEW u \in Users, NEW pinned \in BOOLEAN, create_post(u, pinned)
    PROVE  FollowInv'
<1>1. PICK p : p = Len(made) + 1
    OBVIOUS
<1>2. PICK e : Free(u, "ui") /\ Begin(u, "ui", RecordPlan, e)
    BY DEF create_post, RecordPlan
<1>3. /\ IF pinned THEN sign_and_publish(u, u, "post.create.v2", p)
         ELSE Fault("unpinned", 1) /\ UNCHANGED queue
      /\ follows' = follows /\ profile' = profile
    BY <1>1 DEF create_post, files
<1>4. Calm(RecordPlan) /\ RecordPlan \notin UserPlans /\ "ui" \in Tasks
    BY CalmPlans, RecordPlanOnly, UserPlan DEF FollowsStages, Tasks
<1>5. SameWork
    BY <1>2, <1>4, CalmBegin
<1>6. SameWord /\ \A k : Faulty(k) => Faulty(k)'
    <2>1. CASE pinned
        <3> DEFINE ev == [type |-> "post.create.v2", from |-> u, data |-> p]
        <3>1. ev \in Events /\ ev.type \notin FollowTypes
            <4>1. p \in Nat
                <5>1. PICK m \in Seq(Users) : m = made
                    BY DEF SocialInv, SocialTypeInv
                <5> QED
                    BY <1>1, <5>1
            <4> QED
                BY <4>1 DEF Events, EventTypes, FollowTypes
        <3>2. PublishTo(Subscribers(u, u), u, ev)
            BY <1>3, <2>1 DEF sign_and_publish
        <3> HIDE DEF ev
        <3>3. PICK S \in SUBSET Users : S = Subscribers(u, u)
            BY SubscribersFacts
        <3>4. PublishTo(S, u, ev)
            BY <3>2, <3>3 DEF PublishTo
        <3> QED
            BY <3>1, <3>4, WordPublished, Unlost
    <2>2. CASE ~pinned
        <3>1. Fault("unpinned", 1) /\ queue' = queue
            BY <1>3, <2>2
        <3>2. "unpinned" \in Kinds
            BY DEF Kinds
        <3> QED
            BY <3>1, <3>2, FaultHappened, WordStays
    <2> QED
        BY <2>1, <2>2
<1> QED
    BY <1>3, <1>5, <1>6, CalmStep

LEMMA DeleteFollows ==
    ASSUME SocialInv, FollowInv, ~Overlap, NEW u \in Users, NEW p \in DOMAIN made, delete_post(u, p)
    PROVE  FollowInv'
<1> DEFINE todo == <<"filter", "tell", "index", "head", "announce">>
<1>1. PICK a : a = IdOf(u, p)
    OBVIOUS
<1>2. /\ Free(u, "ui") /\ Begin(u, "ui", todo, a) /\ Removed(u, a)
      /\ queue' = queue /\ follows' = follows /\ profile' = profile
    BY <1>1 DEF delete_post
<1>3. todo \in FilterPlans
    BY DEF FilterPlans
<1> HIDE DEF todo
<1>4. Calm(todo) /\ todo \notin UserPlans /\ "ui" \in Tasks
    BY <1>3, CalmPlans, FilterPlan, UserPlan DEF FollowsStages, Tasks
<1>5. SameWork
    BY <1>2, <1>4, CalmBegin
<1>6. SameWord /\ \A k : Faulty(k) => Faulty(k)'
    BY <1>2, WordStays, RemovedFacts
<1> QED
    BY <1>2, <1>5, <1>6, CalmStep

LEMMA OverlayFollows ==
    ASSUME SocialInv, FollowInv, NEW u \in Users, NEW r \in posts[u], NEW kind \in {"post.react", "post.comment"},
           Overlay(u, r, kind)
    PROVE  FollowInv'
<1> DEFINE ev == [type |-> kind, from |-> u, data |-> <<r.id, u>>]
<1>1. PICK t : t = made[r.id[2]]
    OBVIOUS
<1>2. PublishTo(Subscribers(t, u), t, ev) /\ task' = task /\ follows' = follows /\ profile' = profile
    BY <1>1 DEF Overlay, sign_and_publish
<1>3. ev \in Events /\ ev.type \notin FollowTypes
    <2>1. r \in Records
        BY DEF SocialInv, SocialTypeInv
    <2> QED
        BY <2>1 DEF Events, EventTypes, Records, FollowTypes
<1>4. PICK e \in Events : e = ev
    BY <1>3
<1>5. e.type \notin FollowTypes
    BY <1>3, <1>4
<1> HIDE DEF ev
<1>6. PICK S \in SUBSET Users : S = Subscribers(t, u)
    BY SubscribersFacts
<1>7. PublishTo(S, t, e)
    BY <1>2, <1>4, <1>6 DEF PublishTo
<1>8. SameWord /\ \A k : Faulty(k) => Faulty(k)'
    BY <1>5, <1>7, WordPublished, Unlost
<1> QED
    BY <1>2, <1>8, WorkStays, CalmStep

LEMMA FollowFollows ==
    ASSUME SocialInv, FollowInv, ~Overlap, NEW u \in Users, NEW v \in Users,
           follow_user_with(u, v) \/ unfollow_user(u, v)
    PROVE  FollowInv'
<1>1. PICK todo \in {<<"follow", "mirror", "request">>, <<"unfollow", "mirror", "goodbye">>} :
        /\ Free(u, "ui") /\ Begin(u, "ui", todo, v) /\ NoEvent /\ UNCHANGED files
    BY DEF follow_user_with, unfollow_user
<1>2. v # u
    BY DEF follow_user_with, unfollow_user, FollowInv, NotSelf
<1>3. Calm(todo) /\ "ui" \in Tasks
    BY CalmPlans DEF Tasks
<1>4. SameWork
    BY <1>1, <1>2, <1>3, CalmBegin
<1>5. SameWord /\ \A k : Faulty(k) => Faulty(k)'
    BY <1>1, WordStays, NothingHappened DEF NoEvent
<1> QED
    BY <1>1, <1>4, <1>5, CalmStep DEF files

LEMMA BackfillFollows ==
    ASSUME SocialInv, FollowInv, ~Overlap, NEW u \in Users, maybe_backfill_known_heads(u)
    PROVE  FollowInv'
<1>1. PICK todo, arg :
        /\ todo \in {<<"index", "head">>, MergePlan}
        /\ Free(u, "fill") /\ Begin(u, "fill", todo, arg) /\ NoEvent /\ UNCHANGED files
    BY DEF maybe_backfill_known_heads, PublishOwnOnce, MergeKnownHeads, MergePlan
<1>2. <<"index", "head">> \in IndexPlans
    BY DEF IndexPlans
<1> HIDE DEF MergePlan
<1>3. Calm(todo) /\ todo \notin UserPlans /\ "fill" \in Tasks
    BY <1>1, <1>2, CalmPlans, IndexPlan, MergePlanOnly, UserPlan DEF FollowsStages, Tasks
<1>4. SameWork
    BY <1>1, <1>3, CalmBegin
<1>5. SameWord /\ \A k : Faulty(k) => Faulty(k)'
    BY <1>1, WordStays, NothingHappened DEF NoEvent
<1> QED
    BY <1>1, <1>4, <1>5, CalmStep DEF files

LEMMA ReadFollows ==
    ASSUME SocialInv, FollowInv, NEW u \in Users, mark_all_read(u)
    PROVE  FollowInv'
<1>1. NoEvent /\ task' = task /\ follows' = follows /\ profile' = profile
    BY DEF mark_all_read
<1>2. SameWord /\ \A k : Faulty(k) => Faulty(k)'
    BY <1>1, WordStays, NothingHappened DEF NoEvent
<1> QED
    BY <1>1, <1>2, WorkStays, CalmStep

LEMMA ReadFileFollows ==
    ASSUME SocialInv, FollowInv, NEW u \in Users, NEW x \in Tasks, ReadFile(u, x)
    PROVE  FollowInv'
<1>1. PICK f : f = FileOf(u, Stage(u, x))
    OBVIOUS
<1>2. PICK j : j = task[u][x]
    OBVIOUS
<1>3. task' = [task EXCEPT ![u][x] = [@ EXCEPT !.snap = f]] /\ NoEvent /\ UNCHANGED files
    BY <1>1 DEF ReadFile
<1>4. PICK k : k = [j EXCEPT !.snap = f]
    OBVIOUS
<1>5. j \in Jobs /\ k.todo = j.todo /\ k.arg = j.arg
    BY <1>2, <1>4 DEF SocialInv, SocialTypeInv, Jobs
<1>6. task' = [task EXCEPT ![u][x] = k]
    BY <1>2, <1>3, <1>4 DEF SocialInv, SocialTypeInv
<1>7. k.todo \in UserPlans => k.arg # u
    BY <1>2, <1>5 DEF FollowInv, NotSelf
<1>8. SameWork
    BY <1>2, <1>5, <1>6, <1>7, CalmMove
<1>9. SameWord /\ \A c : Faulty(c) => Faulty(c)'
    BY <1>3, WordStays, NothingHappened DEF NoEvent
<1> QED
    BY <1>3, <1>8, <1>9, CalmStep DEF files

\* What a merge misses are finitely many faults.
LEMMA MergeFaults ==
    ASSUME SocialInv, NEW u \in Users, NEW x \in Tasks, WriteFeed(u, x), Stage(u, x) = "merge"
    PROVE  \A k : Faulty(k) => Faulty(k)'
<1>1. PICK M : M = Missing(task[u][x].snap, task[u][x].arg)
    OBVIOUS
<1>2. PICK got \in SUBSET M : \E unrecorded \in SUBSET got :
         Faults("missed", Cardinality(M \ got), "record", Cardinality(unrecorded))
    BY <1>1 DEF WriteFeed
<1>3. PICK unrecorded \in SUBSET got :
         Faults("missed", Cardinality(M \ got), "record", Cardinality(unrecorded))
    BY <1>2
<1>4. task[u][x].snap # Nothing
    BY DEF WriteFeed
<1>5. IsFiniteSet(M)
    BY <1>1, <1>4, MergeFacts
<1>6. IsFiniteSet(M \ got) /\ IsFiniteSet(unrecorded)
    BY <1>5, FS_Subset
<1>7. PICK n \in Nat : n = Cardinality(M \ got)
    BY <1>6, FS_CardinalityType
<1>8. PICK m \in Nat : m = Cardinality(unrecorded)
    BY <1>6, FS_CardinalityType
<1>9. Faults("missed", n, "record", m)
    BY <1>3, <1>7, <1>8
<1>10. "missed" \in Kinds /\ "record" \in Kinds /\ faults \in Seq(Kinds)
    BY DEF Kinds, SocialInv, SocialTypeInv
<1> QED
    BY <1>9, <1>10, FaultsFacts

LEMMA WriteFeedFollows ==
    ASSUME SocialInv, FollowInv, NEW u \in Users, NEW x \in Tasks, WriteFeed(u, x)
    PROVE  FollowInv'
<1>1. PICK stage : stage = Stage(u, x)
    OBVIOUS
<1>2. PICK arg : arg = task[u][x].arg
    OBVIOUS
<1>3. /\ stage \in FeedStages /\ Advance(u, x, arg)
      /\ follows' = follows /\ profile' = profile /\ queue' = queue
    BY <1>1, <1>2 DEF WriteFeed
<1>4. stage # "done" /\ stage \notin FollowsStages \cup {"mirror", "request", "goodbye"}
    BY <1>3 DEF FeedStages, FollowsStages
<1>5. arg \in Args
    BY <1>1, <1>2, <1>4, StageFacts
<1>6. SameWork
    BY <1>1, <1>2, <1>3, <1>4, <1>5, CalmGoes
<1>7. \A c : Faulty(c) => Faulty(c)'
    <2>1. CASE stage = "insert"
        <3>1. faults' = faults
            BY <1>1, <2>1 DEF WriteFeed
        <3> QED
            BY <3>1, NothingHappened
    <2>2. CASE stage = "filter"
        <3>1. faults' = faults \/ Removed(u, arg)
            BY <1>1, <1>2, <2>2 DEF WriteFeed
        <3> QED
            BY <3>1, NothingHappened, RemovedFacts
    <2>3. CASE stage = "merge"
        BY <1>1, <2>3, MergeFaults
    <2> QED
        BY <1>3, <2>1, <2>2, <2>3 DEF FeedStages
<1>8. SameWord
    BY <1>3, WordStays
<1> QED
    BY <1>3, <1>6, <1>7, <1>8, CalmStep

LEMMA HeadFollows ==
    ASSUME SocialInv, FollowInv, NEW u \in Users, NEW x \in Tasks, WriteProfile(u, x), Stage(u, x) = "head"
    PROVE  FollowInv'
<1>1. PICK j : j = task[u][x]
    OBVIOUS
<1>2. /\ j.snap # Nothing /\ profile' = [profile EXCEPT ![u] = [j.snap EXCEPT !.head = j.arg]]
      /\ Advance(u, x, j.arg) /\ NoEvent /\ follows' = follows
    BY <1>1 DEF WriteProfile
<1>3. "head" # "done" /\ "head" \notin FollowsStages \cup {"mirror", "request", "goodbye"}
    BY DEF FollowsStages
<1>4. j.arg \in Args /\ GoodJob(u, j) /\ Head(j.todo) = "head"
    BY <1>1, <1>3, StageFacts
<1>5. SameWork
    BY <1>1, <1>2, <1>3, <1>4, CalmGoes
<1>6. SameWord /\ \A c : Faulty(c) => Faulty(c)'
    BY <1>2, WordStays, NothingHappened DEF NoEvent
<1>7. PICK g \in Profiles : g = profile[u]
    BY DEF SocialInv, SocialTypeInv
<1>8. j.snap = g
    <2>1. FileOf(u, "head") = g
        BY <1>7, FileRead DEF ProfileStages
    <2> QED
        BY <2>1, <1>2, <1>4 DEF GoodJob, WasRead, FollowsStages
<1>9. \A w \in Users : profile'[w].followers = profile[w].followers /\ profile'[w].following = profile[w].following
    <2>1. profile' = [profile EXCEPT ![u] = [g EXCEPT !.head = j.arg]]
        BY <1>2, <1>8
    <2> QED
        BY <1>7, <2>1 DEF SocialInv, SocialTypeInv, Profiles
<1> QED
    BY <1>2, <1>5, <1>6, <1>9, FollowFrame DEF FaultsKept

LEMMA IndexFollows ==
    ASSUME SocialInv, FollowInv, NEW u \in Users, NEW x \in Tasks, publish_own_index(u, x)
    PROVE  FollowInv'
<1>1. PICK own : own = OwnPosts(u)
    OBVIOUS
<1>2. /\ Stage(u, x) = "index" /\ follows' = follows /\ profile' = profile /\ queue' = queue
      /\ \/ Advance(u, x, own) /\ faults' = faults
         \/ Abandon(u, x) /\ \E kind \in {"unpinned", "feed"} : Fault(kind, 1)
    BY <1>1 DEF publish_own_index, files
<1>3. Stage(u, x) # "done" /\ Stage(u, x) \notin FollowsStages \cup {"mirror", "request", "goodbye"}
    BY <1>2 DEF FollowsStages
<1>4. task[u][x].todo \notin UserPlans /\ task[u][x].todo \in IndexPlans
    <2>1. task[u][x].todo \in Plans /\ task[u][x].todo # <<>> /\ Head(task[u][x].todo) = "index"
        BY <1>2, <1>3, StageFacts
    <2> QED
        BY <2>1, PlanKinds DEF FollowsStages
<1>5. SameWord
    BY <1>2, WordStays
<1>6. CASE Advance(u, x, own) /\ faults' = faults
    <2>1. own \in Args
        <3>1. \A i \in DOMAIN feed[u] : feed[u][i].cid # Nothing => feed[u][i].cid \in Nat
            <4>1. PICK f \in Seq(Entries) : f = feed[u]
                BY DEF SocialInv, SocialTypeInv
            <4>2. \A i \in DOMAIN f : f[i] \in Entries
                OBVIOUS
            <4> QED
                BY <4>1, <4>2 DEF Entries
        <3> QED
            BY <1>1, <3>1 DEF OwnPosts, Args
    <2>2. SameWork
        BY <1>3, <1>4, <1>6, <2>1, CalmGoes
    <2> QED
        BY <1>2, <1>5, <1>6, <2>2, NothingHappened, CalmStep
<1>7. CASE Abandon(u, x) /\ \E kind \in {"unpinned", "feed"} : Fault(kind, 1)
    <2>1. PICK kind \in {"unpinned", "feed"} : Fault(kind, 1)
        BY <1>7
    <2>2. kind \in Kinds
        BY DEF Kinds
    <2>3. \A k : Faulty(k) => Faulty(k)'
        BY <2>1, <2>2, FaultHappened
    <2> QED
        BY <1>2, <1>3, <1>7, <2>3, AbandonFollows
<1> QED
    BY <1>2, <1>6, <1>7

LEMMA NotifyFollows ==
    ASSUME SocialInv, FollowInv, NEW u \in Users, NEW x \in Tasks, push_notification(u, x)
    PROVE  FollowInv'
<1>1. /\ Stage(u, x) = "notify" /\ Advance(u, x, Nothing)
      /\ faults' = faults \/ Fault("other", 1)
      /\ queue' = queue /\ follows' = follows /\ profile' = profile
    BY DEF push_notification
<1>2. Stage(u, x) # "done" /\ Stage(u, x) \notin FollowsStages \cup {"mirror", "request", "goodbye"}
    BY <1>1 DEF FollowsStages
<1>3. task[u][x].todo \in UserPlans /\ Head(task[u][x].todo) = "notify"
    BY <1>1, <1>2, StageFacts
<1>4. Len(task[u][x].todo) = 1
    BY <1>3, UserPlan DEF FollowsStages
<1>5. Nothing \in Args
    BY DEF Args
<1>6. SameWork
    BY <1>1, <1>2, <1>4, <1>5, CalmGoes
<1>7. SameWord /\ \A c : Faulty(c) => Faulty(c)'
    <2>1. "other" \in Kinds
        BY DEF Kinds
    <2>2. \A c : Faulty(c) => Faulty(c)'
        BY <1>1, <2>1, FaultHappened, NothingHappened
    <2> QED
        BY <1>1, <2>2, WordStays
<1> QED
    BY <1>1, <1>6, <1>7, CalmStep

\* Publishing what is not about follows.
LEMMA PublishFollows ==
    ASSUME SocialInv, FollowInv, NEW u \in Users, NEW x \in Tasks, Publish(u, x),
           Stage(u, x) \notin {"request", "goodbye"}
    PROVE  FollowInv'
<1>1. PICK arg : arg = task[u][x].arg
    OBVIOUS
<1>2. PICK stage : stage = Stage(u, x)
    OBVIOUS
<1>3. PICK head : head = profile[u].head
    OBVIOUS
<1>4. /\ \/ stage = "announce" /\ sign_and_publish(u, u, "posts.head", arg)
         \/ stage = "tell" /\ sign_and_publish(u, u, "post.delete", arg)
         \/ stage = "hand" /\ head = Nothing /\ NoEvent
         \/ stage = "hand" /\ head # Nothing /\ sign_and_publish_follow(u, arg, "posts.head", head)
      /\ Advance(u, x, arg) /\ follows' = follows /\ profile' = profile
    <2>1. /\ Advance(u, x, arg) /\ follows' = follows /\ profile' = profile
        BY <1>1 DEF Publish, files
    <2>2. CASE stage = "hand"
        <3>1. CASE head = Nothing
            BY <1>2, <1>3, <2>1, <2>2, <3>1 DEF Publish
        <3>2. CASE head # Nothing
            BY <1>1, <1>2, <1>3, <2>1, <2>2, <3>2 DEF Publish
        <3> QED
            BY <3>1, <3>2
    <2>3. CASE stage # "hand"
        BY <1>1, <1>2, <2>1, <2>3 DEF Publish
    <2> QED
        BY <2>2, <2>3
<1>5. stage # "done" /\ stage \notin FollowsStages \cup {"mirror", "request", "goodbye"}
    <2>1. stage \in {"announce", "tell", "hand"}
        BY <1>4
    <2> QED
        BY <2>1 DEF FollowsStages
<1>6. /\ arg \in Args /\ (stage = "hand" => arg \in Users)
      /\ stage = "announce" => arg \in SUBSET PostsOf(u)
      /\ stage = "tell" => arg \in Id
    BY <1>1, <1>2, <1>5, StageFacts
<1>7. SameWork
    BY <1>1, <1>2, <1>4, <1>5, <1>6, CalmGoes
<1>8. PostsOf(u) \subseteq Nat
    <2>1. PICK m \in Seq(Users) : m = made
        BY DEF SocialInv, SocialTypeInv
    <2> QED
        BY <2>1 DEF PostsOf
<1>9. ASSUME NEW type \in {"posts.head", "post.delete"}, NEW data \in (SUBSET Nat) \cup Id,
             NEW receivers \in SUBSET Users, NEW t, PublishTo(receivers, t, [type |-> type, from |-> u, data |-> data])
      PROVE  SameWord /\ \A c : Faulty(c) => Faulty(c)'
    <2> DEFINE ev == [type |-> type, from |-> u, data |-> data]
    <2>1. ev \in Events /\ ev.type \notin FollowTypes
        BY DEF Events, EventTypes, FollowTypes
    <2>2. PublishTo(receivers, t, ev)
        BY <1>9
    <2> HIDE DEF ev
    <2> QED
        BY <2>1, <2>2, WordPublished, Unlost
<1>10. SameWord /\ \A c : Faulty(c) => Faulty(c)'
    <2>1. CASE stage = "announce" /\ sign_and_publish(u, u, "posts.head", arg)
        <3>1. PICK S \in SUBSET Users : S = Subscribers(u, u)
            BY SubscribersFacts
        <3>2. PublishTo(S, u, [type |-> "posts.head", from |-> u, data |-> arg])
            BY <2>1, <3>1 DEF sign_and_publish, PublishTo
        <3>3. arg \in SUBSET Nat
            BY <1>6, <1>8, <2>1
        <3> QED
            BY <1>9, <3>2, <3>3
    <2>2. CASE stage = "tell" /\ sign_and_publish(u, u, "post.delete", arg)
        <3>1. PICK S \in SUBSET Users : S = Subscribers(u, u)
            BY SubscribersFacts
        <3>2. PublishTo(S, u, [type |-> "post.delete", from |-> u, data |-> arg])
            BY <2>2, <3>1 DEF sign_and_publish, PublishTo
        <3>3. arg \in Id
            BY <1>6, <2>2
        <3> QED
            BY <1>9, <3>2, <3>3
    <2>3. CASE stage = "hand" /\ head = Nothing /\ NoEvent
        BY <2>3, WordStays, NothingHappened DEF NoEvent
    <2>4. CASE stage = "hand" /\ head # Nothing /\ sign_and_publish_follow(u, arg, "posts.head", head)
        <3>1. PICK S : S = {arg} \ {u}
            OBVIOUS
        <3>2. S \in SUBSET Users
            BY <1>6, <2>4, <3>1
        <3>3. PublishTo(S, Inbox, [type |-> "posts.head", from |-> u, data |-> head])
            BY <2>4, <3>1 DEF sign_and_publish_follow
        <3>4. head \in SUBSET Nat
            BY <1>3, <1>8, <2>4 DEF SocialInv, UserInv
        <3> QED
            BY <1>9, <3>2, <3>3, <3>4
    <2> QED
        BY <1>4, <2>1, <2>2, <2>3, <2>4
<1> QED
    BY <1>4, <1>7, <1>10, CalmStep

LEMMA ReloadFollows ==
    ASSUME SocialInv, FollowInv, NEW u \in Users, Reload(u)
    PROVE  FollowInv'
<1>1. /\ Fault("reload", 1) /\ task' = [task EXCEPT ![u] = [x \in Tasks |-> Idle]]
      /\ follows' = follows /\ queue' = queue
    BY DEF Reload, files
<1>2. Faulty("reload")'
    <2>1. "reload" \in Kinds
        BY DEF Kinds
    <2> QED
        BY <1>1, <2>1, FaultFacts DEF SocialInv, SocialTypeInv
<1>3. InboxOnly'
    BY <1>1, WordStays DEF SameWord
<1>4. ASSUME NEW w \in Users PROVE NotSelf(w)'
    <2>1. CASE w = u
        <3>1. \A y \in Tasks : task'[u][y] = Idle
            BY <1>1 DEF SocialInv, SocialTypeInv
        <3>2. Idle.todo \notin UserPlans
            BY UserPlan DEF Idle
        <3> QED
            BY <1>1, <2>1, <3>1, <3>2 DEF FollowInv, NotSelf
    <2>2. CASE w # u
        <3>1. task'[w] = task[w]
            BY <1>1, <2>2 DEF SocialInv, SocialTypeInv
        <3> QED
            BY <1>1, <3>1 DEF FollowInv, NotSelf
    <2> QED
        BY <2>1, <2>2
<1> QED
    BY <1>2, <1>3, <1>4 DEF FollowInv, Upset

-----------------------------------------------------------------------------
(* The steps that write, tell and hear of follows.                         *)

\* A plan has at most one part in a follow, but for the mirror.
Role(t, r, g, a, d, m) ==
    /\ (t \in RequestPlans <=> r) /\ (t \in GoodbyePlans <=> g)
    /\ (t \in AddPlans <=> a) /\ (t \in DropPlans <=> d) /\ (t \in MirrorPlans <=> m)

LEMMA Roles ==
    /\ \A t : Calm(t) => Role(t, FALSE, FALSE, FALSE, FALSE, FALSE)
    /\ Role(<<"mirror", "request">>, TRUE, FALSE, FALSE, FALSE, TRUE)
    /\ Role(<<"request">>, TRUE, FALSE, FALSE, FALSE, FALSE)
    /\ Role(<<"mirror", "goodbye">>, FALSE, TRUE, FALSE, FALSE, TRUE)
    /\ Role(<<"goodbye">>, FALSE, TRUE, FALSE, FALSE, FALSE)
    /\ Role(<<"addFollower", "mirror", "hand", "notify">>, FALSE, FALSE, TRUE, FALSE, FALSE)
    /\ Role(<<"mirror", "hand", "notify">>, FALSE, FALSE, FALSE, FALSE, TRUE)
    /\ Role(<<"dropFollower", "mirror">>, FALSE, FALSE, FALSE, TRUE, FALSE)
    /\ Role(<<"mirror">>, FALSE, FALSE, FALSE, FALSE, TRUE)
<1>1. \A t : Calm(t) => Role(t, FALSE, FALSE, FALSE, FALSE, FALSE)
    BY DEF Calm, Role
<1>2. Role(<<"mirror", "request">>, TRUE, FALSE, FALSE, FALSE, TRUE)
    BY DEF Role, RequestPlans, GoodbyePlans, AddPlans, DropPlans, MirrorPlans
<1>3. Role(<<"request">>, TRUE, FALSE, FALSE, FALSE, FALSE)
    BY DEF Role, RequestPlans, GoodbyePlans, AddPlans, DropPlans, MirrorPlans
<1>4. Role(<<"mirror", "goodbye">>, FALSE, TRUE, FALSE, FALSE, TRUE)
    BY DEF Role, RequestPlans, GoodbyePlans, AddPlans, DropPlans, MirrorPlans
<1>5. Role(<<"goodbye">>, FALSE, TRUE, FALSE, FALSE, FALSE)
    BY DEF Role, RequestPlans, GoodbyePlans, AddPlans, DropPlans, MirrorPlans
<1>6. Role(<<"addFollower", "mirror", "hand", "notify">>, FALSE, FALSE, TRUE, FALSE, FALSE)
    BY DEF Role, RequestPlans, GoodbyePlans, AddPlans, DropPlans, MirrorPlans
<1>7. Role(<<"mirror", "hand", "notify">>, FALSE, FALSE, FALSE, FALSE, TRUE)
    BY DEF Role, RequestPlans, GoodbyePlans, AddPlans, DropPlans, MirrorPlans
<1>8. Role(<<"dropFollower", "mirror">>, FALSE, FALSE, FALSE, TRUE, FALSE)
    BY DEF Role, RequestPlans, GoodbyePlans, AddPlans, DropPlans, MirrorPlans
<1>9. Role(<<"mirror">>, FALSE, FALSE, FALSE, FALSE, TRUE)
    BY DEF Role, RequestPlans, GoodbyePlans, AddPlans, DropPlans, MirrorPlans
<1> QED
    BY <1>1, <1>2, <1>3, <1>4, <1>5, <1>6, <1>7, <1>8, <1>9

\* What the one job of a user that may be under way is about.
About(u, j) ==
    /\ \A a : /\ At(u, RequestPlans, a) <=> (j.todo \in RequestPlans /\ j.arg = a)
              /\ At(u, GoodbyePlans, a) <=> (j.todo \in GoodbyePlans /\ j.arg = a)
              /\ At(u, AddPlans, a) <=> (j.todo \in AddPlans /\ j.arg = a)
              /\ At(u, DropPlans, a) <=> (j.todo \in DropPlans /\ j.arg = a)
    /\ Mirroring(u) <=> j.todo \in MirrorPlans

\* The step changes nothing in what a says in the inbox of w.
SameSaid(w, a) ==
    /\ LastYes(queue[w][Inbox], a)' <=> LastYes(queue[w][Inbox], a)
    /\ Silence(queue[w][Inbox], a)' <=> Silence(queue[w][Inbox], a)

\* What the step changes for u is enough to look at.
LEMMA FollowMoves ==
    ASSUME SocialInv, FollowInv, NEW u \in Users, NEW x \in Tasks, NEW k, task' = [task EXCEPT ![u][x] = k],
           \A y \in Tasks \ {x} : task[u][y] = Idle,
           InboxOnly', FaultsKept,
           \A w \in Users \ {u} : follows'[w] = follows[w] /\ profile'[w] = profile[w],
           u \notin follows'[u].following, u \notin follows'[u].followers,
           k.todo \in UserPlans => k.arg # u,
           \A w, a \in Users \ {u} : SameSaid(w, a),
           /\ ~Upset'
           /\ About(u, task[u][x]) /\ About(u, k)' /\ Mirrored(u)
           => /\ Mirrored(u)'
              /\ \A v \in Users \ {u} :
                   /\ Agree(u, v) /\ Agree(v, u)
                   /\ \A plans : At(v, plans, u)' <=> At(v, plans, u)
                   => Agree(u, v)' /\ Agree(v, u)'
    PROVE  FollowInv'
<1>1. /\ task'[u][x] = k /\ \A y \in Tasks \ {x} : task'[u][y] = Idle
      /\ \A w \in Users \ {u} : task'[w] = task[w]
    BY DEF SocialInv, SocialTypeInv
<1>2. Idle.todo \notin UserPlans /\ Calm(Idle.todo)
    BY UserPlan, CalmPlans DEF Idle
<1>3. Idle.todo \notin RequestPlans \cup GoodbyePlans \cup AddPlans \cup DropPlans \cup MirrorPlans
    BY <1>2 DEF Calm
<1>4. About(u, task[u][x])
    BY <1>3 DEF About, At, Mirroring
<1>5. About(u, k)'
    BY <1>1, <1>3 DEF About, At, Mirroring
<1>6. \A w \in Users \ {u} : /\ \A a, plans : At(w, plans, a)' <=> At(w, plans, a)
                             /\ Mirroring(w)' <=> Mirroring(w)
    BY <1>1 DEF At, Mirroring
<1>7. ASSUME NEW w \in Users PROVE NotSelf(w)'
    <2>1. CASE w = u
        BY <1>1, <1>2, <2>1 DEF NotSelf
    <2>2. CASE w # u
        BY <1>1, <2>2 DEF FollowInv, NotSelf
    <2> QED
        BY <2>1, <2>2
<1>8. ASSUME NEW w \in Users \ {u}, Mirrored(w) PROVE Mirrored(w)'
    BY <1>6, <1>8 DEF Mirrored, FaultsKept
<1>9. ASSUME NEW a \in Users \ {u}, NEW w \in Users \ {u}, Agree(a, w) PROVE Agree(a, w)'
    <2>1. HasHeard(a, w)' <=> HasHeard(a, w)
        BY <1>6 DEF HasHeard, SameSaid
    <2> QED
        BY <1>6, <1>9, <2>1 DEF Agree
<1>10. (Upset \/ \A w \in Users : Mirrored(w) /\ \A v \in Users \ {w} : Agree(w, v))'
    <2> SUFFICES ASSUME ~Upset'
                 PROVE  \A w \in Users : Mirrored(w)' /\ \A v \in Users \ {w} : Agree(w, v)'
        OBVIOUS
    <2>1. \A w \in Users : Mirrored(w) /\ \A v \in Users \ {w} : Agree(w, v)
        BY DEF FollowInv, FaultsKept, Upset
    <2>2. Mirrored(u)' /\ \A v \in Users \ {u} : Agree(u, v)' /\ Agree(v, u)'
        BY <1>4, <1>5, <1>6, <2>1
    <2>3. ASSUME NEW w \in Users \ {u} PROVE Mirrored(w)' /\ \A v \in Users \ {w} : Agree(w, v)'
        BY <1>8, <1>9, <2>1, <2>2
    <2> QED
        BY <2>2, <2>3
<1> QED
    BY <1>7, <1>10 DEF FollowInv

\* The plans whose next stage writes follows.json, and what comes after.
LEMMA WritingPlans ==
    ASSUME NEW t \in UserPlans, Head(t) \in FollowsStages
    PROVE  \/ Head(t) = "follow" /\ Calm(t) /\ Tail(t) = <<"mirror", "request">>
           \/ Head(t) = "unfollow" /\ Calm(t) /\ Tail(t) = <<"mirror", "goodbye">>
           \/ Head(t) = "addFollower" /\ t = <<"addFollower", "mirror", "hand", "notify">>
              /\ Tail(t) = <<"mirror", "hand", "notify">>
           \/ Head(t) = "dropFollower" /\ t = <<"dropFollower", "mirror">> /\ Tail(t) = <<"mirror">>
<1>1. t \in {<<"follow", "mirror", "request">>, <<"unfollow", "mirror", "goodbye">>,
             <<"addFollower", "mirror", "hand", "notify">>, <<"dropFollower", "mirror">>}
    BY OneLeft, TwoLeft, ThreeLeft, FourLeft DEF UserPlans, FollowsStages
<1>2. CASE t = <<"follow", "mirror", "request">>
    BY <1>2, CalmPlans, ThreeLeft
<1>3. CASE t = <<"unfollow", "mirror", "goodbye">>
    BY <1>3, CalmPlans, ThreeLeft
<1>4. CASE t = <<"addFollower", "mirror", "hand", "notify">>
    BY <1>4, FourLeft
<1>5. CASE t = <<"dropFollower", "mirror">>
    BY <1>5, TwoLeft
<1> QED
    BY <1>1, <1>2, <1>3, <1>4, <1>5

\* Nothing is said in a step that publishes nothing.
LEMMA Unsaid ==
    ASSUME FollowInv, NoEvent
    PROVE  InboxOnly' /\ FaultsKept /\ \A w, a : SameSaid(w, a)
<1>1. queue' = queue /\ faults' = faults
    BY DEF NoEvent
<1> QED
    BY <1>1, WordStays, NothingHappened DEF SameWord, FaultsKept, SameSaid

LEMMA WriteFollowsFollows ==
    ASSUME SocialInv, FollowInv, NEW u \in Users, NEW x \in Tasks, WriteFollows(u, x)
    PROVE  FollowInv'
<1>1. PICK j : j = task[u][x]
    OBVIOUS
<1>2. PICK stage : stage = Stage(u, x)
    OBVIOUS
<1>3. /\ stage \in FollowsStages /\ j.snap # Nothing
      /\ follows' = [follows EXCEPT ![u] = FollowsAfter(stage, j.snap, j.arg)]
      /\ Advance(u, x, j.arg) /\ NoEvent /\ profile' = profile
    BY <1>1, <1>2 DEF WriteFollows
<1>4. stage # "done"
    BY <1>3 DEF FollowsStages
<1>5. PICK v \in Users : v = j.arg
    BY <1>1, <1>2, <1>3, <1>4, StageFacts
<1>6. v # u /\ j.todo \in UserPlans /\ Head(j.todo) = stage /\ GoodJob(u, j)
    BY <1>1, <1>2, <1>3, <1>4, <1>5, StageFacts DEF FollowInv, NotSelf
<1>7. PICK f \in FollowTables : f = follows[u]
    BY DEF SocialInv, SocialTypeInv
<1>8. PICK h \in FollowTables : h = j.snap /\ (h = f \/ (Faulty("follows") /\ h = NoFollows))
    <2>1. FileOf(u, stage) = f
        BY <1>3, <1>7, FileRead
    <2>2. Unread(u, stage) = NoFollows /\ NoFollows \in FollowTables
        BY <1>3 DEF Unread, FollowsStages, NoFollows, FollowTables
    <2> QED
        BY <2>1, <2>2, <1>3, <1>6, <1>7 DEF GoodJob, WasRead
<1>9. v \in Entries \cup Id \cup (SUBSET Nat) \cup Users \cup {Nothing}
    OBVIOUS
<1>10. PICK k \in Jobs : /\ task' = [task EXCEPT ![u][x] = k]
                         /\ \/ k = Idle /\ Len(j.todo) = 1
                            \/ k.todo = Tail(j.todo) /\ k.arg = v
    BY <1>1, <1>2, <1>3, <1>4, <1>5, <1>9, GoesOn
<1>11. k.todo = Tail(j.todo) /\ k.arg = v
    BY <1>3, <1>6, <1>10, UserPlan DEF FollowsStages
<1>12. \A y \in Tasks \ {x} : task[u][y] = Idle
    BY <1>2, <1>3, <1>4, <1>5, <1>9, GoesOn
<1>13. InboxOnly' /\ FaultsKept /\ \A w, a : SameSaid(w, a)
    BY <1>3, Unsaid
<1>14. PICK g : g = FollowsAfter(stage, h, v)
    OBVIOUS
<1>15. follows'[u] = g /\ \A w \in Users \ {u} : follows'[w] = follows[w]
    BY <1>3, <1>5, <1>8, <1>14 DEF SocialInv, SocialTypeInv
<1>16. \/ stage = "follow" /\ g.followers = h.followers /\ g.following = h.following \cup {v}
       \/ stage = "unfollow" /\ g.followers = h.followers /\ g.following = h.following \ {v}
       \/ stage = "addFollower" /\ g.followers = h.followers \cup {v} /\ g.following = h.following
       \/ stage = "dropFollower" /\ g.followers = h.followers \ {v} /\ g.following = h.following
    <2>1. CASE stage = "follow"
        BY <2>1, <1>14 DEF FollowsAfter, FollowTables
    <2>2. CASE stage = "unfollow"
        BY <2>2, <1>14 DEF FollowsAfter, FollowTables
    <2>3. CASE stage = "addFollower"
        BY <2>3, <1>14 DEF FollowsAfter, FollowTables
    <2>4. CASE stage = "dropFollower"
        BY <2>4, <1>14 DEF FollowsAfter, FollowTables
    <2> QED
        BY <2>1, <2>2, <2>3, <2>4, <1>3 DEF FollowsStages
<1>17. u \notin g.followers /\ u \notin g.following
    <2>1. u \notin h.followers /\ u \notin h.following
        BY <1>7, <1>8 DEF FollowInv, NotSelf, NoFollows
    <2> QED
        BY <2>1, <1>6, <1>16
<1>18. \/ stage = "follow" /\ Role(j.todo, FALSE, FALSE, FALSE, FALSE, FALSE) /\ Role(k.todo, TRUE, FALSE, FALSE, FALSE, TRUE)
       \/ stage = "unfollow" /\ Role(j.todo, FALSE, FALSE, FALSE, FALSE, FALSE) /\ Role(k.todo, FALSE, TRUE, FALSE, FALSE, TRUE)
       \/ stage = "addFollower" /\ Role(j.todo, FALSE, FALSE, TRUE, FALSE, FALSE) /\ Role(k.todo, FALSE, FALSE, FALSE, FALSE, TRUE)
       \/ stage = "dropFollower" /\ Role(j.todo, FALSE, FALSE, FALSE, TRUE, FALSE) /\ Role(k.todo, FALSE, FALSE, FALSE, FALSE, TRUE)
    BY <1>3, <1>6, <1>11, WritingPlans, Roles
<1>19. ASSUME ~Upset', About(u, j), About(u, k)'
       PROVE  /\ Mirrored(u)'
              /\ \A w \in Users \ {u} : Agree(u, w) /\ Agree(w, u) /\ (\A plans : At(w, plans, u)' <=> At(w, plans, u))
                                        => Agree(u, w)' /\ Agree(w, u)'
    <2>0. h = f
        BY <1>8, <1>13, <1>19 DEF FaultsKept, Upset
    <2>1. k.todo \in MirrorPlans
        BY <1>18 DEF Role
    <2>2. Mirrored(u)'
        BY <1>19, <2>1 DEF About, Mirrored
    <2>3. ASSUME NEW w \in Users \ {u}, Agree(u, w), Agree(w, u), \A plans : At(w, plans, u)' <=> At(w, plans, u)
          PROVE  Agree(u, w)'
        <3>1. HasHeard(u, w)' <=> HasHeard(u, w)
            BY <1>13, <1>15, <2>3 DEF HasHeard, SameSaid
        <3>2. At(u, RequestPlans, w) <=> FALSE
            BY <1>18, <1>19 DEF About, Role
        <3>3. At(u, GoodbyePlans, w) <=> FALSE
            BY <1>18, <1>19 DEF About, Role
        <3>4. At(u, RequestPlans, w)' <=> stage = "follow" /\ w = v
            BY <1>11, <1>18, <1>19 DEF About, Role
        <3>5. At(u, GoodbyePlans, w)' <=> stage = "unfollow" /\ w = v
            BY <1>11, <1>18, <1>19 DEF About, Role
        <3>6. /\ stage = "follow" => (w \in g.following <=> w \in f.following \/ w = v)
              /\ stage = "unfollow" => (w \in g.following <=> w \in f.following /\ w # v)
              /\ stage \notin {"follow", "unfollow"} => (w \in g.following <=> w \in f.following)
            BY <1>16, <2>0
        <3> QED
            BY <1>7, <1>15, <2>3, <3>1, <3>2, <3>3, <3>4, <3>5, <3>6 DEF Agree
    <2>4. ASSUME NEW w \in Users \ {u}, Agree(w, u), \A plans : At(w, plans, u)' <=> At(w, plans, u)
          PROVE  Agree(w, u)'
        <3>1. /\ At(u, AddPlans, w) <=> stage = "addFollower" /\ w = v
              /\ At(u, DropPlans, w) <=> stage = "dropFollower" /\ w = v
            BY <1>5, <1>18, <1>19 DEF About, Role
        <3>2. ~At(u, AddPlans, w)' /\ ~At(u, DropPlans, w)'
            BY <1>18, <1>19 DEF About, Role
        <3>3. /\ stage = "addFollower" => (w \in g.followers <=> w \in f.followers \/ w = v)
              /\ stage = "dropFollower" => (w \in g.followers <=> w \in f.followers /\ w # v)
              /\ stage \notin {"addFollower", "dropFollower"} => (w \in g.followers <=> w \in f.followers)
            BY <1>16, <2>0
        <3>4. SameSaid(u, w)
            BY <1>13
        <3>5. HasHeard(w, u)' <=> HasHeard(w, u)
            BY <1>7, <1>15, <3>1, <3>2, <3>3, <3>4 DEF HasHeard, SameSaid
        <3> QED
            BY <1>15, <2>4, <3>5 DEF Agree
    <2> QED
        BY <2>2, <2>3, <2>4
<1>20. k.todo \in UserPlans => k.arg # u
    BY <1>6, <1>11
<1> QED
    BY <1>1, <1>3, <1>10, <1>12, <1>13, <1>15, <1>17, <1>19, <1>20, FollowMoves

\* Once the profile mirrors follows.json, or could not, what is left to be told
\* stays to be told.
LEMMA MirrorLeaves ==
    ASSUME SocialInv, FollowInv, NEW u \in Users, NEW x \in Tasks, Stage(u, x) = "mirror",
           Advance(u, x, task[u][x].arg), follows' = follows,
           InboxOnly', FaultsKept, \A w, a : SameSaid(w, a),
           \A w \in Users \ {u} : profile'[w] = profile[w],
           \/ Upset' \/ Faulty("profile")'
           \/ profile'[u].followers = follows[u].followers /\ profile'[u].following = follows[u].following
    PROVE  FollowInv'
<1>1. PICK j : j = task[u][x]
    OBVIOUS
<1>2. PICK v \in Users : v = j.arg
    BY <1>1, StageFacts
<1>3. v # u /\ j.todo \in UserPlans /\ Head(j.todo) = "mirror"
    BY <1>1, <1>2, StageFacts DEF FollowInv, NotSelf
<1>4. v \in Entries \cup Id \cup (SUBSET Nat) \cup Users \cup {Nothing}
    OBVIOUS
<1>5. PICK k \in Jobs : /\ task' = [task EXCEPT ![u][x] = k]
                        /\ \/ k = Idle /\ Len(j.todo) = 1
                           \/ Len(j.todo) # 1 /\ k.todo = Tail(j.todo) /\ k.arg = v
    BY <1>1, <1>2, <1>4, GoesOn
<1>6. \A y \in Tasks \ {x} : task[u][y] = Idle
    BY <1>1, <1>2, <1>4, GoesOn
<1>7. j.todo \in MirrorPlans
    BY <1>3, OneLeft, TwoLeft, ThreeLeft, FourLeft DEF UserPlans, MirrorPlans
<1>8. \/ /\ j.todo = <<"mirror", "request">> /\ k.todo = <<"request">> /\ k.arg = v
      \/ /\ j.todo = <<"mirror", "goodbye">> /\ k.todo = <<"goodbye">> /\ k.arg = v
      \/ /\ j.todo = <<"mirror", "hand", "notify">> /\ k.todo = <<"hand", "notify">> /\ k.arg = v
      \/ j.todo = <<"mirror">> /\ k.todo = <<>>
    <2>1. CASE j.todo = <<"mirror", "request">>
        BY <2>1, <1>5, TwoLeft
    <2>2. CASE j.todo = <<"mirror", "goodbye">>
        BY <2>2, <1>5, TwoLeft
    <2>3. CASE j.todo = <<"mirror", "hand", "notify">>
        BY <2>3, <1>5, ThreeLeft
    <2>4. CASE j.todo = <<"mirror">>
        BY <2>4, <1>5, OneLeft DEF Idle
    <2> QED
        BY <2>1, <2>2, <2>3, <2>4, <1>7 DEF MirrorPlans
<1>9. \/ Role(j.todo, TRUE, FALSE, FALSE, FALSE, TRUE) /\ Role(k.todo, TRUE, FALSE, FALSE, FALSE, FALSE) /\ k.arg = v
      \/ Role(j.todo, FALSE, TRUE, FALSE, FALSE, TRUE) /\ Role(k.todo, FALSE, TRUE, FALSE, FALSE, FALSE) /\ k.arg = v
      \/ Role(j.todo, FALSE, FALSE, FALSE, FALSE, TRUE) /\ Role(k.todo, FALSE, FALSE, FALSE, FALSE, FALSE)
    BY <1>8, Roles, CalmPlans
<1>10. ASSUME ~Upset', About(u, j), About(u, k)'
       PROVE  /\ Mirrored(u)'
              /\ \A w \in Users \ {u} : Agree(u, w) /\ Agree(w, u) /\ (\A plans : At(w, plans, u)' <=> At(w, plans, u))
                                        => Agree(u, w)' /\ Agree(w, u)'
    <2>1. Mirrored(u)'
        BY <1>10 DEF Mirrored
    <2>2. \A a : /\ At(u, RequestPlans, a)' <=> At(u, RequestPlans, a)
                 /\ At(u, GoodbyePlans, a)' <=> At(u, GoodbyePlans, a)
                 /\ At(u, AddPlans, a)' <=> At(u, AddPlans, a)
                 /\ At(u, DropPlans, a)' <=> At(u, DropPlans, a)
        BY <1>2, <1>9, <1>10 DEF About, Role
    <2>3. ASSUME NEW w \in Users \ {u}, Agree(u, w), \A plans : At(w, plans, u)' <=> At(w, plans, u)
          PROVE  Agree(u, w)'
        <3>1. HasHeard(u, w)' <=> HasHeard(u, w)
            BY <2>3 DEF HasHeard, SameSaid
        <3> QED
            BY <2>2, <2>3, <3>1 DEF Agree
    <2>4. ASSUME NEW w \in Users \ {u}, Agree(w, u), \A plans : At(w, plans, u)' <=> At(w, plans, u)
          PROVE  Agree(w, u)'
        <3>1. SameSaid(u, w)
            OBVIOUS
        <3>2. HasHeard(w, u)' <=> HasHeard(w, u)
            BY <2>2, <3>1 DEF HasHeard, SameSaid
        <3> QED
            BY <2>4, <3>2 DEF Agree
    <2> QED
        BY <2>1, <2>3, <2>4
<1>11. k.todo \in UserPlans => k.arg # u
    <2>1. <<>> \notin UserPlans
        BY UserPlan
    <2> QED
        BY <1>3, <1>8, <2>1
<1>12. u \notin follows'[u].following /\ u \notin follows'[u].followers
    BY DEF FollowInv, NotSelf
<1>13. \A w \in Users \ {u} : follows'[w] = follows[w] /\ profile'[w] = profile[w]
    OBVIOUS
<1> QED
    BY <1>1, <1>5, <1>6, <1>10, <1>11, <1>12, <1>13, FollowMoves

LEMMA MirrorFollows ==
    ASSUME SocialInv, FollowInv, NEW u \in Users, NEW x \in Tasks, WriteProfile(u, x), Stage(u, x) = "mirror"
    PROVE  FollowInv'
<1>1. PICK j : j = task[u][x]
    OBVIOUS
<1>2. /\ j.snap # Nothing /\ profile' = [profile EXCEPT ![u] = j.snap]
      /\ Advance(u, x, j.arg) /\ NoEvent /\ follows' = follows
    BY <1>1 DEF WriteProfile
<1>3. Head(j.todo) = "mirror" /\ GoodJob(u, j)
    BY <1>1, StageFacts
<1>4. PICK f \in FollowTables : f = follows[u]
    BY DEF SocialInv, SocialTypeInv
<1>5. PICK p \in Profiles : p = profile[u]
    BY DEF SocialInv, SocialTypeInv
<1>6. j.snap = [p EXCEPT !.followers = f.followers, !.following = f.following] \/ Faulty("follows")
    <2>1. FileOf(u, "mirror") = [p EXCEPT !.followers = f.followers, !.following = f.following]
        BY <1>4, <1>5, FileRead DEF ProfileStages
    <2> QED
        BY <2>1, <1>2, <1>3 DEF GoodJob, WasRead
<1>7. PICK g : g = j.snap
    OBVIOUS
<1>8. (g.followers = f.followers /\ g.following = f.following) \/ Faulty("follows")
    BY <1>6, <1>7 DEF Profiles
<1>9. profile'[u] = g /\ \A w \in Users \ {u} : profile'[w] = profile[w]
    BY <1>2, <1>7 DEF SocialInv, SocialTypeInv
<1>10. InboxOnly' /\ FaultsKept /\ \A w, a : SameSaid(w, a)
    BY <1>2, Unsaid
<1>11. \/ Upset'
       \/ profile'[u].followers = follows[u].followers /\ profile'[u].following = follows[u].following
    BY <1>4, <1>8, <1>9, <1>10 DEF FaultsKept, Upset
<1> QED
    BY <1>1, <1>2, <1>9, <1>10, <1>11, MirrorLeaves

\* The steps that fail.
LEMMA ProfileFailsFollows ==
    ASSUME SocialInv, FollowInv, NEW u \in Users, NEW x \in Tasks, ProfileFails(u, x)
    PROVE  FollowInv'
<1>1. PICK arg : arg = task[u][x].arg
    OBVIOUS
<1>2. /\ Stage(u, x) \in {"mirror", "head", "hand"} /\ Fault("profile", 1) /\ Advance(u, x, arg)
      /\ UNCHANGED <<follows, profile, queue>>
    BY <1>1 DEF ProfileFails, ProfileStages, files
<1>3. (\A k : Faulty(k) => Faulty(k)') /\ Faulty("profile")'
    <2>1. "profile" \in Kinds
        BY DEF Kinds
    <2> QED
        BY <1>2, <2>1, FaultFacts DEF SocialInv, SocialTypeInv
<1>4. SameWord
    BY <1>2, WordStays
<1>5. CASE Stage(u, x) = "mirror"
    <2>1. \A w, a : SameSaid(w, a)
        BY <1>2 DEF SameSaid
    <2> QED
        BY <1>1, <1>2, <1>3, <1>4, <1>5, <2>1, MirrorLeaves DEF SameWord, FaultsKept
<1>6. CASE Stage(u, x) \in {"head", "hand"}
    <2>1. Stage(u, x) # "done" /\ Stage(u, x) \notin FollowsStages \cup {"mirror", "request", "goodbye"}
        BY <1>6 DEF FollowsStages
    <2>2. arg \in Args
        BY <1>1, <2>1, StageFacts
    <2>3. SameWork
        BY <1>1, <1>2, <2>1, <2>2, CalmGoes
    <2> QED
        BY <1>2, <1>3, <1>4, <2>3, CalmStep
<1> QED
    BY <1>2, <1>5, <1>6

LEMMA FollowsFailsFollows ==
    ASSUME SocialInv, FollowInv, NEW u \in Users, NEW x \in Tasks, FollowsFails(u, x)
    PROVE  FollowInv'
<1>1. Fault("follows", 1) /\ queue' = queue /\ follows' = follows
    BY DEF FollowsFails, files
<1>2. Upset'
    <2>1. "follows" \in Kinds
        BY DEF Kinds
    <2> QED
        BY <1>1, <2>1, FaultFacts DEF Upset, SocialInv, SocialTypeInv
<1>3. InboxOnly'
    BY <1>1, WordStays DEF SameWord
<1>4. Stage(u, x) \in FollowsStages \cup {"mirror"} /\ Stage(u, x) # "done"
    BY DEF FollowsFails, FollowsStages
<1>5. PICK j : j = task[u][x]
    OBVIOUS
<1>6. j \in Jobs /\ j.todo \in UserPlans /\ j.arg \in Users /\ j.arg # u
    BY <1>4, <1>5, StageFacts DEF FollowInv, NotSelf
<1>7. ASSUME NEW f, task' = [task EXCEPT ![u][x].snap = f] PROVE FollowInv'
    <2>1. PICK k : k = [j EXCEPT !.snap = f]
        OBVIOUS
    <2>2. k.arg = j.arg
        BY <1>6, <2>1 DEF Jobs
    <2>3. task' = [task EXCEPT ![u][x] = k]
        BY <1>5, <1>7, <2>1 DEF SocialInv, SocialTypeInv
    <2> QED
        BY <1>1, <1>2, <1>3, <1>6, <2>2, <2>3, UpsetStep
<1>8. CASE Abandon(u, x)
    <2>1. Idle.todo \notin UserPlans /\ task' = [task EXCEPT ![u][x] = Idle]
        BY <1>8, UserPlan DEF Idle, Abandon
    <2> QED
        BY <1>1, <1>2, <1>3, <2>1, UpsetStep
<1>9. CASE Advance(u, x, task[u][x].arg)
    <2>1. PICK v \in Users : v = j.arg
        BY <1>6
    <2>2. v \in Entries \cup Id \cup (SUBSET Nat) \cup Users \cup {Nothing} /\ Advance(u, x, v)
        BY <1>5, <1>9, <2>1
    <2>3. PICK k \in Jobs : /\ task' = [task EXCEPT ![u][x] = k]
                            /\ k = Idle \/ k.arg = v
        BY <1>4, <2>2, GoesOn
    <2>4. k.todo \in UserPlans => k.arg # u
        BY <1>6, <2>1, <2>3, UserPlan DEF Idle
    <2> QED
        BY <1>1, <1>2, <1>3, <2>3, <2>4, UpsetStep
<1> QED
    <2>1. \/ Abandon(u, x) \/ Advance(u, x, task[u][x].arg)
          \/ \E f : task' = [task EXCEPT ![u][x].snap = f]
        BY DEF FollowsFails
    <2> QED
        BY <1>7, <1>8, <1>9, <2>1

LEMMA WritePostFollows ==
    ASSUME SocialInv, FollowInv, NEW u \in Users, NEW x \in Tasks, write_post(u, x)
    PROVE  FollowInv'
<1>1. PICK arg : arg = task[u][x].arg
    OBVIOUS
<1>2. /\ Stage(u, x) = "record" /\ UNCHANGED <<follows, profile, queue>>
      /\ \/ Advance(u, x, arg) /\ faults' = faults
         \/ Abandon(u, x) /\ Fault("record", 1)
    BY <1>1 DEF write_post
<1>3. Stage(u, x) # "done" /\ Stage(u, x) \notin FollowsStages \cup {"mirror", "request", "goodbye"}
    BY <1>2 DEF FollowsStages
<1>4. \A k : Faulty(k) => Faulty(k)'
    <2>1. "record" \in Kinds
        BY DEF Kinds
    <2> QED
        BY <1>2, <2>1, FaultHappened, NothingHappened
<1>5. CASE Advance(u, x, arg)
    <2>1. arg \in Args
        BY <1>1, <1>3, StageFacts
    <2>2. SameWork
        BY <1>1, <1>3, <1>5, <2>1, CalmGoes
    <2> QED
        BY <1>2, <1>4, <2>2, WordStays, CalmStep
<1> QED
    BY <1>2, <1>3, <1>4, <1>5, AbandonFollows

LEMMA FeedFailsFollows ==
    ASSUME SocialInv, FollowInv, NEW u \in Users, NEW x \in Tasks, FeedFails(u, x)
    PROVE  FollowInv'
<1>1. /\ Stage(u, x) \in FeedStages /\ Fault("feed", 1) /\ Abandon(u, x)
      /\ UNCHANGED <<follows, profile, queue>>
    BY DEF FeedFails
<1>2. Stage(u, x) # "done" /\ Stage(u, x) \notin FollowsStages \cup {"mirror", "request", "goodbye"}
    BY <1>1 DEF FollowsStages, FeedStages
<1>3. \A k : Faulty(k) => Faulty(k)'
    <2>1. "feed" \in Kinds
        BY DEF Kinds
    <2> QED
        BY <1>1, <2>1, FaultHappened
<1> QED
    BY <1>1, <1>2, <1>3, AbandonFollows

\* The follow request and the goodbye go out: the last thing that was said.
LEMMA TellFollows ==
    ASSUME SocialInv, FollowInv, NEW u \in Users, NEW x \in Tasks, Publish(u, x),
           Stage(u, x) \in {"request", "goodbye"}
    PROVE  FollowInv'
<1>1. PICK j : j = task[u][x]
    OBVIOUS
<1>2. PICK stage \in {"request", "goodbye"} : stage = Stage(u, x)
    OBVIOUS
<1>3. PICK type : type = IF stage = "request" THEN "follow.request" ELSE "follow.unfollow"
    OBVIOUS
<1>4. /\ sign_and_publish_follow(u, j.arg, type, Nothing)
      /\ Advance(u, x, j.arg) /\ follows' = follows /\ profile' = profile
    BY <1>1, <1>2, <1>3 DEF Publish, files
<1>5. stage # "done"
    BY <1>2
<1>6. PICK v \in Users : v = j.arg
    BY <1>1, <1>2, <1>5, StageFacts
<1>7. v # u /\ j.todo \in UserPlans /\ Head(j.todo) = stage
    BY <1>1, <1>2, <1>5, <1>6, StageFacts DEF FollowInv, NotSelf
<1>8. j.todo = <<stage>>
    BY <1>7, OneLeft, TwoLeft, ThreeLeft, FourLeft DEF UserPlans
<1>9. v \in Entries \cup Id \cup (SUBSET Nat) \cup Users \cup {Nothing}
    OBVIOUS
<1>10. PICK k \in Jobs : /\ task' = [task EXCEPT ![u][x] = k]
                         /\ \/ k = Idle /\ Len(j.todo) = 1
                            \/ Len(j.todo) # 1 /\ k.todo = Tail(j.todo) /\ k.arg = v
    BY <1>1, <1>2, <1>4, <1>5, <1>6, <1>9, GoesOn
<1>11. \A y \in Tasks \ {x} : task[u][y] = Idle
    BY <1>2, <1>4, <1>5, <1>6, <1>9, GoesOn
<1>12. k.todo = <<>>
    BY <1>8, <1>10, OneLeft DEF Idle
<1>13. /\ \/ stage = "request" /\ Role(j.todo, TRUE, FALSE, FALSE, FALSE, FALSE)
          \/ stage = "goodbye" /\ Role(j.todo, FALSE, TRUE, FALSE, FALSE, FALSE)
       /\ Role(k.todo, FALSE, FALSE, FALSE, FALSE, FALSE)
    BY <1>2, <1>8, <1>12, Roles, CalmPlans
<1>14. PICK e \in Events : e = [type |-> type, from |-> u, data |-> Nothing]
    <2>1. type \in EventTypes
        BY <1>2, <1>3 DEF EventTypes
    <2>2. [type |-> type, from |-> u, data |-> Nothing] \in Events
        BY <2>1 DEF Events
    <2> QED
        BY <2>2
<1>15. e.from = u /\ e.type = type /\ type \in FollowTypes /\ (type = "follow.request" <=> stage = "request")
    BY <1>2, <1>3, <1>14 DEF FollowTypes
<1>16. PICK S \in SUBSET Users : S = {v}
    OBVIOUS
<1>17. PublishTo(S, Inbox, e)
    <2>1. S = {v} \ {u}
        BY <1>7, <1>16
    <2> QED
        BY <2>1, <1>4, <1>6, <1>14 DEF sign_and_publish_follow
<1>18. /\ \A w \in Users : \A s \in Users \cup {Inbox} : Grows(S, Inbox, e, w, s)
       /\ FaultsKept
       /\ ~Faulty("lost")' =>
            queue' = [w \in Users |-> IF w \in S THEN [queue[w] EXCEPT ![Inbox] = Append(@, e)] ELSE queue[w]]
    <2>1. \A w \in Users : \A s \in Users \cup {Inbox} : Grows(S, Inbox, e, w, s)
        BY <1>17, LogsReach
    <2>2. FaultsKept
        BY <1>17, Unlost DEF FaultsKept
    <2>3. ~Faulty("lost")' =>
            queue' = [w \in Users |-> IF w \in S THEN [queue[w] EXCEPT ![Inbox] = Append(@, e)] ELSE queue[w]]
        <3>1. PICK t : t = Inbox
            OBVIOUS
        <3>2. PublishTo(S, t, e)
            BY <1>17, <3>1
        <3> QED
            BY <3>1, <3>2, Unlost
    <2> QED
        BY <2>1, <2>2, <2>3
<1>19. \A w \in Users : queue[w] \in [Users \cup {Inbox} -> Seq(Events)]
    BY DEF SocialInv, SocialTypeInv
<1>20. InboxOnly'
    <2> SUFFICES ASSUME NEW w \in Users, NEW s \in Users \cup {Inbox}, NEW i \in DOMAIN queue'[w][s],
                        queue'[w][s][i].type \in FollowTypes
                 PROVE  s = Inbox
        BY DEF InboxOnly
    <2>1. CASE queue'[w][s] = queue[w][s]
        BY <2>1 DEF FollowInv, InboxOnly
    <2> QED
        BY <1>18, <2>1 DEF Grows
<1>21. ASSUME NEW w \in Users, NEW a \in Users, w # v \/ a # u PROVE SameSaid(w, a)
    <2>1. PICK q \in Seq(Events) : q = queue[w][Inbox]
        BY <1>19
    <2>2. PICK r : r = queue'[w][Inbox]
        OBVIOUS
    <2>3. r = q \/ (w = v /\ r = Append(q, e))
        BY <1>16, <1>18, <2>1, <2>2 DEF Grows
    <2>4. (LastYes(r, a) <=> LastYes(q, a)) /\ (Silence(r, a) <=> Silence(q, a))
        <3>1. CASE r = q
            BY <3>1
        <3>2. CASE r = Append(q, e) /\ e.from # a
            BY <3>2, WordAppended
        <3> QED
            BY <1>15, <1>21, <2>3, <3>1, <3>2
    <2> QED
        BY <2>1, <2>2, <2>4 DEF SameSaid
<1>22. ASSUME ~Faulty("lost")'
       PROVE  /\ ~Silence(queue[v][Inbox], u)'
              /\ LastYes(queue[v][Inbox], u)' <=> stage = "request"
    <2>1. PICK q \in Seq(Events) : q = queue[v][Inbox]
        BY <1>19
    <2>2. PICK r : r = queue'[v][Inbox]
        OBVIOUS
    <2>3. r = Append(q, e)
        BY <1>16, <1>18, <1>19, <1>22, <2>1, <2>2
    <2>4. ~Silence(r, u) /\ (LastYes(r, u) <=> stage = "request")
        BY <1>15, <2>3, WordAppended
    <2> QED
        BY <2>2, <2>4
<1>23. ASSUME ~Faulty("lost")', About(u, j), About(u, k)', Mirrored(u)
       PROVE  /\ Mirrored(u)'
              /\ \A w \in Users \ {u} : Agree(u, w) /\ Agree(w, u) /\ (\A plans : At(w, plans, u)' <=> At(w, plans, u))
                                        => Agree(u, w)' /\ Agree(w, u)'
    <2>1. Mirrored(u)'
        BY <1>4, <1>13, <1>18, <1>23 DEF About, Role, Mirrored, FaultsKept
    <2>2. /\ \A a : /\ At(u, RequestPlans, a) <=> stage = "request" /\ a = v
                    /\ At(u, GoodbyePlans, a) <=> stage = "goodbye" /\ a = v
                    /\ ~At(u, AddPlans, a) /\ ~At(u, DropPlans, a)
          /\ \A a : /\ ~At(u, RequestPlans, a)' /\ ~At(u, GoodbyePlans, a)'
                    /\ ~At(u, AddPlans, a)' /\ ~At(u, DropPlans, a)'
        BY <1>6, <1>13, <1>23 DEF About, Role
    <2>3. ASSUME NEW w \in Users \ {u}, Agree(u, w), \A plans : At(w, plans, u)' <=> At(w, plans, u)
          PROVE  Agree(u, w)'
        <3>1. CASE w = v
            <4>1. HasHeard(u, w)' <=> stage = "request"
                BY <1>22, <1>23, <3>1 DEF HasHeard
            <4>2. w \in follows[u].following <=> stage = "request"
                BY <1>2, <2>2, <2>3, <3>1 DEF Agree
            <4> QED
                BY <1>4, <2>2, <4>1, <4>2 DEF Agree
        <3>2. CASE w # v
            <4>1. HasHeard(u, w)' <=> HasHeard(u, w)
                BY <1>4, <1>21, <2>3, <3>2 DEF HasHeard, SameSaid
            <4> QED
                BY <1>4, <2>2, <2>3, <3>2, <4>1 DEF Agree
        <3> QED
            BY <3>1, <3>2
    <2>4. ASSUME NEW w \in Users \ {u}, Agree(w, u), \A plans : At(w, plans, u)' <=> At(w, plans, u)
          PROVE  Agree(w, u)'
        <3>1. SameSaid(u, w)
            BY <1>7, <1>21
        <3>2. HasHeard(w, u)' <=> HasHeard(w, u)
            BY <1>4, <2>2, <3>1 DEF HasHeard, SameSaid
        <3> QED
            BY <1>4, <2>4, <3>2 DEF Agree
    <2> QED
        BY <2>1, <2>3, <2>4
<1>24. k.todo \notin UserPlans
    BY <1>12, UserPlan
<1>25. u \notin follows'[u].following /\ u \notin follows'[u].followers
    BY <1>4 DEF FollowInv, NotSelf
<1>26. /\ \A w \in Users \ {u} : follows'[w] = follows[w] /\ profile'[w] = profile[w]
       /\ \A w, a \in Users \ {u} : SameSaid(w, a)
    BY <1>4, <1>21
<1>27. \/ Upset'
       \/ /\ About(u, task[u][x]) /\ About(u, k)' /\ Mirrored(u)
          => /\ Mirrored(u)'
             /\ \A w \in Users \ {u} : Agree(u, w) /\ Agree(w, u) /\ (\A plans : At(w, plans, u)' <=> At(w, plans, u))
                                       => Agree(u, w)' /\ Agree(w, u)'
    BY <1>1, <1>23 DEF Upset
<1> QED
    BY <1>10, <1>11, <1>18, <1>20, <1>24, <1>25, <1>26, <1>27, FollowMoves

\* An event about posts leaves the follows alone.
LEMMA HandlePostFollows ==
    ASSUME SocialInv, FollowInv, ~Overlap, NEW u \in Users, NEW t \in Users \cup {Inbox}, Handle(u, t),
           NEW e, e = Head(queue[u][t]), e.type \notin FollowTypes
    PROVE  FollowInv'
<1>1. /\ Free(u, "poll") /\ "poll" \in Tasks /\ queue[u][t] # <<>> /\ Drained(u, t)
      /\ follows' = follows /\ profile' = profile
    BY DEF Handle, Tasks
<1>2. \/ \E found \in BOOLEAN : handle_post_create(u, e, found)
      \/ handle_posts_head(u, e) \/ handle_post_delete(u, e) \/ handle_overlay(u, e)
    BY DEF Handle, FollowTypes, handle_follow_request, handle_follow_unfollow
<1>3. SameWord
    BY <1>1, WordTaken
<1>4. ASSUME NEW todo \in {<<"insert">>, <<"filter">>, <<"merge">>}, NEW arg, Begin(u, "poll", todo, arg)
      PROVE  SameWork
    <2>1. todo \in InsertPlans \/ todo \in FilterPlans \/ todo = MergePlan
        BY DEF InsertPlans, FilterPlans, MergePlan
    <2>2. Calm(todo) /\ todo \notin UserPlans
        BY <2>1, CalmPlans, InsertPlan, FilterPlan, MergePlanOnly, UserPlan DEF FollowsStages
    <2> QED
        BY <1>1, <1>4, <2>2, CalmBegin
<1>5. ASSUME NEW n \in Nat, NEW kind \in {"missed", "record", "other"}, Fault(kind, n)
      PROVE  \A k : Faulty(k) => Faulty(k)'
    <2>1. kind \in Kinds
        BY DEF Kinds
    <2> QED
        BY <1>5, <2>1, FaultHappened
<1>6. SameWork /\ \A k : Faulty(k) => Faulty(k)'
    <2>1. CASE \E found \in BOOLEAN : handle_post_create(u, e, found)
        <3>1. PICK found \in BOOLEAN : handle_post_create(u, e, found)
            BY <2>1
        <3>2. PICK n \in Nat : n = IF found THEN 0 ELSE 1
            OBVIOUS
        <3>3. PICK arg : arg = Entry(u, e.data, e.data)
            OBVIOUS
        <3>4. \/ Fault("missed", n) /\ task' = task
              \/ (faults' = faults \/ Fault("record", 1)) /\ Begin(u, "poll", <<"insert">>, arg)
            BY <3>1, <3>2, <3>3 DEF handle_post_create
        <3>5. SameWork
            BY <1>4, <3>4, WorkStays
        <3>6. \A k : Faulty(k) => Faulty(k)'
            BY <1>5, <3>4, NothingHappened
        <3> QED
            BY <3>5, <3>6
    <2>2. CASE handle_posts_head(u, e) \/ handle_post_delete(u, e)
        <3>1. PICK arg : arg = e.data
            OBVIOUS
        <3>2. /\ faults' = faults \/ Fault("other", 1)
              /\ (Begin(u, "poll", <<"merge">>, arg) \/ Begin(u, "poll", <<"filter">>, arg))
            BY <2>2, <3>1 DEF handle_posts_head, handle_post_delete
        <3>3. SameWork
            BY <1>4, <3>2
        <3>4. \A k : Faulty(k) => Faulty(k)'
            BY <1>5, <3>2, NothingHappened
        <3> QED
            BY <3>3, <3>4
    <2>3. CASE handle_overlay(u, e)
        <3>1. (faults' = faults \/ Fault("other", 1)) /\ task' = task
            BY <2>3 DEF handle_overlay
        <3> QED
            BY <1>5, <3>1, WorkStays, NothingHappened
    <2> QED
        BY <1>2, <2>1, <2>2, <2>3
<1> QED
    BY <1>1, <1>3, <1>6, CalmStep

\* What was said and is now being acted on, was and is what v knows.
LEMMA HearFollows ==
    ASSUME SocialInv, FollowInv, ~Overlap, NEW u \in Users, NEW t \in Users \cup {Inbox}, Handle(u, t),
           NEW e, e = Head(queue[u][t]), e.type \in FollowTypes
    PROVE  FollowInv'
<1> DEFINE x == "poll"
<1>1. /\ Free(u, x) /\ x \in Tasks /\ queue[u][t] # <<>> /\ Drained(u, t)
      /\ follows' = follows /\ profile' = profile /\ made' = made
    BY DEF Handle, Tasks, counts
<1>2. e \in Events /\ e.from # u
    BY <1>1, DrainFacts DEF GoodEvent
<1>3. PICK v \in Users \ {u} : v = e.from
    BY <1>2 DEF Events
<1>4. handle_follow_request(u, e) \/ handle_follow_unfollow(u, e)
    BY DEF Handle, FollowTypes, handle_post_create, handle_posts_head, handle_post_delete, handle_overlay
<1>5. \A y \in Tasks : task[u][y] = Idle
    BY <1>1, Zenon DEF Free
<1>6. PICK f \in FollowTables : f = follows[u]
    BY DEF SocialInv, SocialTypeInv
<1>7. /\ InboxOnly' /\ t = Inbox
      /\ \A w \in Users \ {u} : queue'[w] = queue[w]
      /\ queue'[u][Inbox] = Tail(queue[u][Inbox])
    BY <1>1, WordTaken
<1>8. ASSUME Upset' PROVE FollowInv'
    <2>1. ASSUME NEW todo, NEW snap, task' = [task EXCEPT ![u][x] = [todo |-> todo, arg |-> v, snap |-> snap]]
          PROVE  FollowInv'
        <3>1. PICK k : k = [todo |-> todo, arg |-> v, snap |-> snap]
            OBVIOUS
        <3>2. k.arg # u /\ task' = [task EXCEPT ![u][x] = k]
            BY <2>1, <3>1
        <3> HIDE DEF x
        <3> QED
            BY <1>1, <1>7, <1>8, <3>2, UpsetStep
    <2>2. CASE task' = task
        <3>1. task' = [task EXCEPT ![u][x] = Idle] /\ Idle.todo \notin UserPlans
            BY <1>1, <1>5, <2>2, UserPlan DEF SocialInv, SocialTypeInv, Idle
        <3> HIDE DEF x
        <3> QED
            BY <1>1, <1>7, <1>8, <3>1, UpsetStep
    <2>3. \/ task' = task
          \/ \E todo, snap : task' = [task EXCEPT ![u][x] = [todo |-> todo, arg |-> v, snap |-> snap]]
        BY <1>3, <1>4 DEF handle_follow_request, handle_follow_unfollow, Begin
    <2> QED
        BY <2>1, <2>2, <2>3
<1> SUFFICES ASSUME ~Upset' PROVE FollowInv'
    BY <1>8
<1>9. ~Fault("follows", 1)
    <2>1. "follows" \in Kinds
        BY DEF Kinds
    <2> QED
        BY <2>1, FaultFacts DEF Upset, SocialInv, SocialTypeInv
<1>10. /\ faults' = faults /\ (e.type = "follow.request" \/ e.type = "follow.unfollow")
       /\ \/ e.type = "follow.request" /\ v \in f.followers /\ Begin(u, x, <<"hand", "notify">>, v)
          \/ e.type = "follow.request" /\ Begin(u, x, <<"addFollower", "mirror", "hand", "notify">>, v)
          \/ e.type = "follow.unfollow" /\ v \in f.followers /\ Begin(u, x, <<"dropFollower", "mirror">>, v)
          \/ e.type = "follow.unfollow" /\ v \notin f.followers /\ task' = task
    <2>1. CASE handle_follow_request(u, e)
        BY <2>1, <1>3, <1>6, <1>9 DEF handle_follow_request
    <2>2. CASE handle_follow_unfollow(u, e)
        BY <2>2, <1>3, <1>6, <1>9 DEF handle_follow_unfollow
    <2> QED
        BY <1>4, <2>1, <2>2
<1>11. FaultsKept
    BY <1>10, NothingHappened DEF FaultsKept
<1> DEFINE Outcome(k) ==
             \/ e.type = "follow.request" /\ v \in f.followers /\ k.todo = <<"hand", "notify">> /\ k.arg = v
             \/ e.type = "follow.request" /\ k.todo = <<"addFollower", "mirror", "hand", "notify">> /\ k.arg = v
             \/ e.type = "follow.unfollow" /\ v \in f.followers /\ k.todo = <<"dropFollower", "mirror">> /\ k.arg = v
             \/ e.type = "follow.unfollow" /\ v \notin f.followers /\ k.todo = <<>>
<1>12. PICK k : task' = [task EXCEPT ![u][x] = k] /\ Outcome(k)
    <2>1. ASSUME NEW todo, Begin(u, x, todo, v)
          PROVE  \E k : task' = [task EXCEPT ![u][x] = k] /\ k.todo = todo /\ k.arg = v
        <3>1. PICK k : k = [todo |-> todo, arg |-> v, snap |-> Nothing]
            OBVIOUS
        <3>2. task' = [task EXCEPT ![u][x] = k]
            BY <2>1, <3>1 DEF Begin
        <3>3. k.todo = todo /\ k.arg = v
            BY <3>1
        <3> QED
            BY <3>2, <3>3, Zenon
    <2>2. CASE task' = task
        <3>1. task' = [task EXCEPT ![u][x] = Idle] /\ Idle.todo = <<>>
            BY <1>1, <1>5, <2>2 DEF SocialInv, SocialTypeInv, Idle
        <3>2. PICK k : k = Idle
            OBVIOUS
        <3>3. task' = [task EXCEPT ![u][x] = k] /\ k.todo = <<>>
            BY <3>1, <3>2
        <3>4. CASE e.type = "follow.unfollow" /\ v \notin f.followers
            BY <3>3, <3>4, Zenon
        <3> QED
            BY <1>10, <2>1, <3>4
    <2> QED
        BY <1>10, <2>1, <2>2
<1>13. /\ Role(Idle.todo, FALSE, FALSE, FALSE, FALSE, FALSE)
       /\ \/ /\ e.type = "follow.request" /\ v \in f.followers /\ Role(k.todo, FALSE, FALSE, FALSE, FALSE, FALSE)
          \/ /\ e.type = "follow.request" /\ Role(k.todo, FALSE, FALSE, TRUE, FALSE, FALSE) /\ k.arg = v
          \/ /\ e.type = "follow.unfollow" /\ Role(k.todo, FALSE, FALSE, FALSE, TRUE, FALSE) /\ k.arg = v
          \/ /\ e.type = "follow.unfollow" /\ v \notin f.followers /\ Role(k.todo, FALSE, FALSE, FALSE, FALSE, FALSE)
    BY <1>12, Roles, CalmPlans DEF Idle
<1>14. k.todo \in UserPlans => k.arg # u
    <2>1. <<>> \notin UserPlans
        BY UserPlan
    <2> QED
        BY <1>3, <1>12, <2>1
<1> HIDE DEF Outcome
<1>15. \A w \in Users \ {u} : \A a : SameSaid(w, a)
    BY <1>7 DEF SameSaid
<1>16. /\ \A a \in Users \ {v} : SameSaid(u, a)
       /\ ~Silence(queue[u][Inbox], v)
       /\ ~Silence(queue[u][Inbox], v)' => SameSaid(u, v) \/ (LastYes(queue[u][Inbox], v)' <=> LastYes(queue[u][Inbox], v))
       /\ Silence(queue[u][Inbox], v)' =>
            (LastYes(queue[u][Inbox], v) <=> e.type = "follow.request") /\ ~LastYes(queue[u][Inbox], v)'
    <2>1. PICK q \in Seq(Events) : q = queue[u][Inbox]
        BY DEF SocialInv, SocialTypeInv
    <2>2. PICK r : r = queue'[u][Inbox]
        OBVIOUS
    <2>3. q # <<>> /\ r = Tail(q) /\ e = Head(q)
        BY <1>1, <1>7, <2>1, <2>2
    <2>4. \A a \in Users \ {v} : (LastYes(r, a) <=> LastYes(q, a)) /\ (Silence(r, a) <=> Silence(q, a))
        BY <1>3, <2>3, WordDrained
    <2>5. /\ ~Silence(q, v)
          /\ ~Silence(r, v) => (LastYes(r, v) <=> LastYes(q, v))
          /\ Silence(r, v) => (LastYes(q, v) <=> e.type = "follow.request") /\ ~LastYes(r, v)
        BY <1>3, <2>3, WordDrained
    <2> QED
        BY <2>1, <2>2, <2>4, <2>5 DEF SameSaid
<1>17. ASSUME About(u, Idle), About(u, k)', Mirrored(u)
       PROVE  /\ Mirrored(u)'
              /\ \A w \in Users \ {u} : Agree(u, w) /\ Agree(w, u) /\ (\A plans : At(w, plans, u)' <=> At(w, plans, u))
                                        => Agree(u, w)' /\ Agree(w, u)'
    <2>1. /\ ~Mirroring(u) /\ \A a : /\ ~At(u, RequestPlans, a) /\ ~At(u, GoodbyePlans, a)
                                     /\ ~At(u, AddPlans, a) /\ ~At(u, DropPlans, a)
        BY <1>13, <1>17 DEF About, Role
    <2>2. /\ \A a : ~At(u, RequestPlans, a)' /\ ~At(u, GoodbyePlans, a)'
          /\ \A a : a # v => ~At(u, AddPlans, a)' /\ ~At(u, DropPlans, a)'
        BY <1>13, <1>17 DEF About, Role
    <2>3. Mirrored(u)'
        BY <1>1, <1>11, <1>17, <2>1 DEF Mirrored, FaultsKept
    <2>4. ASSUME NEW w \in Users \ {u}, Agree(u, w), \A plans : At(w, plans, u)' <=> At(w, plans, u)
          PROVE  Agree(u, w)'
        <3>1. HasHeard(u, w)' <=> HasHeard(u, w)
            BY <1>1, <1>15, <2>4 DEF HasHeard, SameSaid
        <3> QED
            BY <1>1, <2>1, <2>2, <2>4, <3>1 DEF Agree
    <2>5. ASSUME NEW w \in Users \ {u}, Agree(w, u), \A plans : At(w, plans, u)' <=> At(w, plans, u)
          PROVE  Agree(w, u)'
        <3>1. CASE w # v
            <4>1. SameSaid(u, w)
                BY <1>16, <3>1
            <4>2. HasHeard(w, u)' <=> HasHeard(w, u)
                BY <1>1, <2>1, <2>2, <3>1, <4>1 DEF HasHeard, SameSaid
            <4> QED
                BY <1>1, <2>5, <4>2 DEF Agree
        <3>2. CASE w = v
            <4>1. /\ At(u, AddPlans, v)' \/ (v \in f.followers /\ ~At(u, DropPlans, v)') <=> e.type = "follow.request"
                <5>1. At(u, AddPlans, v)' <=> k.todo \in AddPlans /\ k.arg = v
                    BY <1>17 DEF About
                <5>2. At(u, DropPlans, v)' <=> k.todo \in DropPlans /\ k.arg = v
                    BY <1>17 DEF About
                <5> QED
                    BY <1>13, <5>1, <5>2 DEF Role
            <4>2. HasHeard(v, u)' <=> HasHeard(v, u)
                <5>1. CASE Silence(queue[u][Inbox], v)'
                    <6>1. HasHeard(v, u)' <=> e.type = "follow.request"
                        BY <1>1, <1>6, <1>16, <4>1, <5>1 DEF HasHeard
                    <6>2. HasHeard(v, u) <=> e.type = "follow.request"
                        BY <1>16, <5>1 DEF HasHeard
                    <6> QED
                        BY <6>1, <6>2
                <5>2. CASE ~Silence(queue[u][Inbox], v)'
                    BY <1>16, <5>2 DEF HasHeard, SameSaid
                <5> QED
                    BY <5>1, <5>2
            <4> QED
                BY <1>1, <2>5, <3>2, <4>2 DEF Agree
        <3> QED
            BY <3>1, <3>2
    <2> QED
        BY <2>3, <2>4, <2>5
<1>18. u \notin follows'[u].following /\ u \notin follows'[u].followers
    BY <1>1 DEF FollowInv, NotSelf
<1>19. /\ \A w \in Users \ {u} : follows'[w] = follows[w] /\ profile'[w] = profile[w]
       /\ task[u][x] = Idle /\ \A y \in Tasks \ {x} : task[u][y] = Idle
    BY <1>1, <1>5
<1> HIDE DEF x
<1> QED
    BY <1>1, <1>7, <1>11, <1>12, <1>14, <1>15, <1>17, <1>18, <1>19, FollowMoves

-----------------------------------------------------------------------------
(* The theorem about follows.                                              *)

LEMMA FollowStarts == SocialInit => FollowInv
<1> SUFFICES ASSUME SocialInit PROVE FollowInv
    OBVIOUS
<1>1. Idle.todo \notin UserPlans /\ Calm(Idle.todo)
    BY UserPlan, CalmPlans DEF Idle
<1>2. InboxOnly
    BY DEF SocialInit, InboxOnly
<1>3. \A u \in Users : NotSelf(u)
    BY <1>1 DEF SocialInit, NotSelf
<1>4. \A u \in Users : \A a : ~At(u, RequestPlans, a) /\ ~At(u, GoodbyePlans, a) /\ ~At(u, AddPlans, a)
    BY <1>1 DEF SocialInit, At, Calm
<1>5. \A u \in Users : Mirrored(u)
    BY DEF SocialInit, Mirrored
<1>6. ASSUME NEW u \in Users, NEW v \in Users PROVE Agree(u, v)
    <2>1. queue[v][Inbox] = <<>> /\ follows[u].following = {} /\ follows[v].followers = {}
        BY DEF SocialInit
    <2>2. Asked(queue[v][Inbox], u) = {}
        BY <2>1 DEF Asked
    <2>3. ~HasHeard(u, v)
        BY <1>4, <2>1, <2>2 DEF HasHeard, LastYes
    <2> QED
        BY <1>4, <2>1, <2>3 DEF Agree
<1> QED
    BY <1>2, <1>3, <1>5, <1>6 DEF FollowInv

LEMMA FollowSteps ==
    ASSUME ~Overlap, SocialInv, FollowInv, [SocialNext]_socialVars
    PROVE  FollowInv'
<1>1. CASE UNCHANGED socialVars
    <2>1. NoEvent /\ task' = task /\ follows' = follows /\ profile' = profile
        BY <1>1 DEF socialVars, NoEvent
    <2>2. SameWord /\ \A k : Faulty(k) => Faulty(k)'
        BY <2>1, WordStays, NothingHappened DEF NoEvent
    <2> QED
        BY <2>1, <2>2, WorkStays, CalmStep
<1>2. CASE \E u \in Authors, pinned \in BOOLEAN : create_post(u, pinned)
    <2>1. Authors \subseteq Users
        BY SocialConstants DEF SocialConstants
    <2> QED
        BY <1>2, <2>1, CreateFollows
<1>3. CASE \E u \in Users : \E p \in DOMAIN made : delete_post(u, p)
    BY <1>3, DeleteFollows
<1>4. CASE \E u \in Users : \E r \in posts[u], kind \in {"post.react", "post.comment"} : Overlay(u, r, kind)
    BY <1>4, OverlayFollows
<1>5. CASE \E u \in Readers, v \in Users : follow_user_with(u, v) \/ unfollow_user(u, v)
    <2>1. Readers \subseteq Users
        BY SocialConstants DEF SocialConstants
    <2> QED
        BY <1>5, <2>1, FollowFollows
<1>6. CASE \E u \in Users, x \in Tasks : Step(u, x)
    <2>1. PICK u \in Users, x \in Tasks : Step(u, x)
        BY <1>6
    <2>2. CASE WriteProfile(u, x)
        <3>1. Stage(u, x) \in {"mirror", "head"}
            BY <2>2 DEF WriteProfile, ProfileStages
        <3> QED
            BY <2>2, <3>1, MirrorFollows, HeadFollows
    <2>3. CASE Publish(u, x)
        BY <2>3, PublishFollows, TellFollows
    <2> QED
        BY <2>1, <2>2, <2>3, ReadFileFollows, WriteFeedFollows, WriteFollowsFollows, IndexFollows, NotifyFollows,
           WritePostFollows, FeedFailsFollows, FollowsFailsFollows, ProfileFailsFollows DEF Step
<1>7. CASE \E u \in Users : mark_all_read(u)
    BY <1>7, ReadFollows
<1>8. CASE \E u \in Users : \E t \in Users \cup {Inbox} : Handle(u, t)
    <2>1. PICK u \in Users, t \in Users \cup {Inbox} : Handle(u, t)
        BY <1>8
    <2>2. PICK e : e = Head(queue[u][t])
        OBVIOUS
    <2> QED
        BY <2>1, <2>2, HandlePostFollows, HearFollows
<1>9. CASE \E u \in Users : maybe_backfill_known_heads(u) \/ Reload(u)
    BY <1>9, BackfillFollows, ReloadFollows
<1> QED
    BY <1>1, <1>2, <1>3, <1>4, <1>5, <1>6, <1>7, <1>8, <1>9 DEF SocialNext

\* When the operations of a user run one after the other, no event was lost, no
\* app was reloaded and no read or write of follows.json failed, the two ends of
\* every follow agree as soon as nothing is under way; and the profile mirrors
\* follows.json, unless a call failed on the profile.
THEOREM SocialFollowsAgree ==
    ASSUME ~Overlap
    PROVE  SocialSpec => []FollowsAgree
<1>1. SocialInit => SocialInv /\ FollowInv
    BY SocialStarts, FollowStarts
<1>2. SocialInv /\ FollowInv /\ [SocialNext]_socialVars => SocialInv' /\ FollowInv'
    BY SocialSteps, FollowSteps
<1>3. SocialInv /\ FollowInv => FollowsAgree
    <2> SUFFICES ASSUME FollowInv, ~Faulty("lost"), ~Faulty("reload"), ~Faulty("follows"),
                        \A u \in Users : Quiet(u) /\ queue[u][Inbox] = <<>>
                 PROVE  \A u \in Users :
                            /\ \A v \in Users : v \in follows[u].following <=> u \in follows[v].followers
                            /\ ~Faulty("profile") => /\ profile[u].followers = follows[u].followers
                                                     /\ profile[u].following = follows[u].following
        BY DEF FollowsAgree
    <2>1. Calm(Idle.todo)
        BY CalmPlans DEF Idle
    <2>2. \A u \in Users : /\ ~Mirroring(u)
                           /\ \A a : /\ ~At(u, RequestPlans, a) /\ ~At(u, GoodbyePlans, a)
                                     /\ ~At(u, AddPlans, a) /\ ~At(u, DropPlans, a)
        BY <2>1 DEF Quiet, At, Mirroring, Calm
    <2>3. ASSUME NEW u \in Users, NEW v \in Users
          PROVE  v \in follows[u].following <=> u \in follows[v].followers
        <3>1. CASE u = v
            BY <3>1 DEF FollowInv, NotSelf
        <3>2. CASE u # v
            <4>1. Asked(queue[v][Inbox], u) = {}
                BY DEF Asked
            <4>2. HasHeard(u, v) <=> u \in follows[v].followers
                BY <2>2, <4>1 DEF HasHeard, Silence, LastYes
            <4>3. Agree(u, v)
                BY <3>2 DEF FollowInv, Upset
            <4> QED
                BY <2>2, <4>2, <4>3 DEF Agree
        <3> QED
            BY <3>1, <3>2
    <2>4. \A u \in Users :
             ~Faulty("profile") => profile[u].followers = follows[u].followers /\ profile[u].following = follows[u].following
        BY <2>2 DEF FollowInv, Mirrored, Upset
    <2> QED
        BY <2>3, <2>4
<1> QED
    BY <1>1, <1>2, <1>3, PTL DEF SocialSpec
=============================================================================
