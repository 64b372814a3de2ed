---------------------------- MODULE GroupsProofs ----------------------------
(* Proofs about Groups, for every finite set of peers, every way they know *)
(* each other at first, and every bound, with messages delivered in any    *)
(* order and more than once, operations cut off anywhere, contacts deleted *)
(* and calls on the contacts' file failing.                                *)
EXTENDS Groups, ListsProofs, FiniteSetTheorems, SequenceTheorems

Contact == [active : BOOLEAN, ratchet : BOOLEAN, there : BOOLEAN]
Ctx == [members : Seq(GroupMember), bio : 0..1]
Wires == [from : Peers, to : Peers, ctx : Ctx, text : Nat, ratchet : BOOLEAN]

TypeInv ==
    /\ contacts \in [Peers -> [Peers -> Contact]]
    /\ group \in [Peers -> Group \cup {None}]
    /\ conv \in [Peers -> Seq(Nat)]
    /\ net \in SUBSET Wires
    /\ declined \in SUBSET Peers /\ editors \in SUBSET Peers
    /\ creator \in Peers \cup {None}
    /\ crashes \in Nat /\ texts \in Nat
    /\ unseen \in [Peers -> Nat] /\ heard \in [Peers -> SUBSET Nat]
    /\ severed \in SUBSET (Peers \X Peers)

\* Whoever is on the roster with keys is an active contact in cs, or excused.
Reached(p, members, cs, excused) ==
    \A i \in 1..Len(members) :
        members[i].keyed /\ members[i].did # p =>
            cs[members[i].did].active \/ <<p, members[i].did>> \in excused

-----------------------------------------------------------------------------
(* The operators.                                                          *)

\* A picker hands over a list of its candidates.
LEMMA PickedList ==
    ASSUME NEW S \in SUBSET Peers
    PROVE  SetToSeq(S) \in Seq(S)
<1>1. IsFiniteSet(S)
    BY GroupsConstants, FS_Subset
<1>2. Cardinality(S) \in Nat /\ ExistsBijection(1..Cardinality(S), S)
    BY <1>1, FS_CardinalityType
<1>3. \E f \in [1..Cardinality(S) -> S] : IsInjective(f)
    BY <1>2 DEF ExistsBijection, Bijection, Injection
<1>4. SetToSeq(S) \in [1..Cardinality(S) -> S]
    BY <1>3 DEF SetToSeq
<1> QED
    BY <1>2, <1>4

\* What a group's messages are.
LEMMA FanOutWires ==
    ASSUME TypeInv, NEW p \in Peers, NEW g \in Group, NEW text \in Nat,
           NEW n \in 0..Len(g.members)
    PROVE  \A w \in FanOut(p, g, text, n) :
              w \in Wires /\ w.ctx.members = g.members /\ w.text = text
<1> SUFFICES ASSUME NEW w \in FanOut(p, g, text, n)
             PROVE  w \in Wires /\ w.ctx.members = g.members /\ w.text = text
    OBVIOUS
<1>1. g.members \in Seq(GroupMember) /\ g.bio \in 0..1 /\ Len(g.members) \in Nat
    BY DEF Group
<1>2. PICK i \in 1..n : w \in SealedTo(p, g.members[i].did, group_ctx(g), text)
    BY DEF FanOut
<1>3. g.members[i].did \in Peers
    <2>1. i \in 1..Len(g.members)
        BY <1>1
    <2>2. g.members[i] \in GroupMember
        BY <1>1, <2>1
    <2> QED
        BY <2>2 DEF GroupMember
<1>4. group_ctx(g) \in Ctx /\ group_ctx(g).members = g.members
    BY <1>1 DEF group_ctx, Ctx
<1> DEFINE q == g.members[i].did
           c == group_ctx(g)
<1> HIDE DEF q, c
<1>5. w = [from |-> p, to |-> q, ctx |-> c, text |-> text, ratchet |-> contacts[p][q].ratchet]
    BY <1>2 DEF SealedTo, q, c
<1>6. contacts[p][q].ratchet \in BOOLEAN /\ q \in Peers /\ c \in Ctx /\ c.members = g.members
    BY <1>3, <1>4 DEF TypeInv, Contact, q, c
<1> QED
    BY <1>5, <1>6 DEF Wires

\* The record a roster that came in leaves.
LEMMA UpsertedGroup ==
    ASSUME TypeInv, NEW p \in Peers, NEW ctx \in Ctx
    PROVE  /\ Upserted(p, ctx) \in Group
           /\ group[p] = None =>
                /\ Upserted(p, ctx).members = ctx.members
                /\ Upserted(p, ctx).pending /\ Upserted(p, ctx).unread = 0
           /\ group[p] # None =>
                /\ Upserted(p, ctx).members = Adopted(group[p], ctx)
                /\ Upserted(p, ctx).pending = group[p].pending
                /\ Upserted(p, ctx).unread = group[p].unread
<1>1. CASE group[p] = None
    BY <1>1 DEF Upserted, Group, Ctx
<1>2. CASE group[p] # None
    <2>1. group[p] \in Group
        BY <1>2 DEF TypeInv
    <2>2. Adopted(group[p], ctx) \in Seq(GroupMember)
        BY <2>1 DEF Adopted, Group, Ctx
    <2> DEFINE g == group[p]
               a == Adopted(group[p], ctx)
    <2>3. Upserted(p, ctx) = [g EXCEPT !.members = a, !.bio = IF ctx.bio = 0 THEN @ ELSE ctx.bio]
        BY <1>2 DEF Upserted
    <2> HIDE DEF g, a
    <2>4. g \in Group /\ a \in Seq(GroupMember) /\ ctx.bio \in 0..1
        BY <2>1, <2>2 DEF g, a, Ctx
    <2>5. Upserted(p, ctx) = [members |-> a, bio |-> IF ctx.bio = 0 THEN g.bio ELSE ctx.bio,
                              pending |-> g.pending, unread |-> g.unread]
        BY <2>3, <2>4 DEF Group
    <2> QED
        BY <2>5, <2>4, <1>2 DEF Group, g, a
<1> QED
    BY <1>1, <1>2

LEMMA TouchedGroup ==
    ASSUME NEW g \in Group
    PROVE  /\ touch_group(g, 1) \in Group
           /\ touch_group(g, 1).members = g.members
           /\ touch_group(g, 1).pending = g.pending
           /\ touch_group(g, 1).unread = g.unread + 1
<1>1. touch_group(g, 1) = [g EXCEPT !.unread = g.unread + 1]
    BY DEF touch_group
<1>2. g.unread + 1 \in Nat
    BY DEF Group
<1> QED
    BY <1>1, <1>2 DEF Group

\* A peer's contacts after a roster came in; no file failing, none is lost and
\* every entry with keys has become one.
LEMMA BootstrappedContacts ==
    ASSUME TypeInv, NEW p \in Peers, NEW members \in Seq(GroupMember), NEW n \in 0..Len(members),
           NEW f
    PROVE  /\ Bootstrapped(p, members, n, f) \in [Peers -> Contact]
           /\ f = Fine =>
                /\ \A q \in Peers : contacts[p][q].active => Bootstrapped(p, members, n, f)[q].active
                /\ n = Len(members) =>
                     \A i \in 1..Len(members) : members[i].keyed /\ members[i].did # p =>
                         Bootstrapped(p, members, n, f)[members[i].did].active
<1>1. /\ \A q \in Peers : contacts[p][q] \in Contact
      /\ NoContact \in Contact
    BY DEF TypeInv, Contact, NoContact
<1>2. \A c \in Contact : /\ bootstrap_contact_from_keys(c) \in Contact
                         /\ bootstrap_contact_from_keys(c).active
    BY DEF Contact, bootstrap_contact_from_keys, Pinned
<1>3. Bootstrapped(p, members, n, f) \in [Peers -> Contact]
    BY <1>1, <1>2 DEF Bootstrapped
<1>a. Fine.wiped = 0 /\ Fine.failed = {}
    BY DEF Fine
<1>4. ASSUME f = Fine, NEW q \in Peers, contacts[p][q].active
      PROVE  Bootstrapped(p, members, n, f)[q].active
    BY <1>a, <1>1, <1>2, <1>4 DEF Bootstrapped
<1>5. ASSUME f = Fine, n = Len(members),
             NEW i \in 1..Len(members), members[i].keyed, members[i].did # p
      PROVE  Bootstrapped(p, members, n, f)[members[i].did].active
    <2>1. members[i] \in GroupMember
        OBVIOUS
    <2>2. members[i].did \in Peers /\ members[i] = roster_member(members[i].did)
        BY <2>1, <1>5 DEF GroupMember, roster_member
    <2>3. i \in 1..n /\ 0 <= i /\ i \notin {}
        BY <1>5
    <2> QED
        BY <2>2, <2>3, <1>5, <1>1, <1>2, <1>a DEF Bootstrapped
<1> QED
    BY <1>3, <1>4, <1>5

\* What a roster loses and gains when it is edited.
LEMMA WithoutList ==
    ASSUME NEW members \in Seq(GroupMember), NEW q \in Peers
    PROVE  /\ Without(members, q) \in Seq(GroupMember)
           /\ \A j \in 1..Len(Without(members, q)) : \E i \in 1..Len(members) :
                 members[i] = Without(members, q)[j]
<1> DEFINE S == {m \in Range(members) : m.did # q}
<1>1. Without(members, q) = Retained(members, S)
    BY DEF Without
<1> HIDE DEF S
<1> QED
    BY <1>1, RetainedList

LEMMA NewOnesList ==
    ASSUME NEW p \in Peers, NEW dids \in Seq(Peers)
    PROVE  NewOnes(p, dids) \in Seq(Peers)
    BY RetainedList DEF NewOnes

\* The roster `members` with the contacts `new` behind it.
LEMMA Joined ==
    ASSUME NEW members \in Seq(GroupMember), NEW new \in Seq(Peers), NEW p, NEW cs, NEW excused,
           \A i \in DOMAIN new : cs[new[i]].active
    PROVE  LET all == members \o [i \in DOMAIN new |-> roster_member(new[i])]
           IN  /\ all \in Seq(GroupMember)
               /\ Len(members) <= Len(all)
               /\ \A i \in 1..Len(members) : all[i] = members[i]
               /\ Reached(p, members, cs, excused) => Reached(p, all, cs, excused)
<1> DEFINE more == [i \in DOMAIN new |-> roster_member(new[i])]
           all == members \o more
<1>1. DOMAIN new = 1..Len(new) /\ Len(new) \in Nat /\ Len(members) \in Nat
    OBVIOUS
<1>2. \A i \in 1..Len(new) : roster_member(new[i]) \in GroupMember
    BY DEF roster_member, GroupMember
<1>3. more \in Seq(GroupMember) /\ Len(more) = Len(new)
    BY <1>1, <1>2
<1>3a. \A i \in 1..Len(new) : more[i] = roster_member(new[i])
    BY <1>1
<1> HIDE DEF more
<1>4. /\ all \in Seq(GroupMember) /\ Len(all) = Len(members) + Len(more)
      /\ \A i \in 1..Len(members) + Len(more) :
            all[i] = IF i <= Len(members) THEN members[i] ELSE more[i - Len(members)]
    BY <1>3, ConcatProperties
<1> HIDE DEF all
<1>5. \A i \in 1..Len(members) : all[i] = members[i]
    BY <1>1, <1>3, <1>4
<1>6. \A i \in 1..Len(new) : all[Len(members) + i] = roster_member(new[i])
    <2> TAKE i \in 1..Len(new)
    <2>1. /\ Len(members) + i \in 1..Len(members) + Len(more)
          /\ ~(Len(members) + i <= Len(members)) /\ (Len(members) + i) - Len(members) = i
        BY <1>1, <1>3
    <2> QED
        BY <2>1, <1>3a, <1>4
<1>7. ASSUME Reached(p, members, cs, excused) PROVE Reached(p, all, cs, excused)
    <2> SUFFICES ASSUME NEW i \in 1..Len(all), all[i].keyed, all[i].did # p
                 PROVE  cs[all[i].did].active \/ <<p, all[i].did>> \in excused
        BY DEF Reached
    <2>1. CASE i \in 1..Len(members)
        BY <2>1, <1>5, <1>7 DEF Reached
    <2>2. CASE i \notin 1..Len(members)
        <3>1. i - Len(members) \in 1..Len(new) /\ i = Len(members) + (i - Len(members))
            BY <2>2, <1>1, <1>3, <1>4
        <3>2. all[i] = roster_member(new[i - Len(members)])
            BY <3>1, <1>6
        <3> QED
            <4>1. all[i].did = new[i - Len(members)]
                BY <3>2 DEF roster_member
            <4> QED
                BY <3>1, <4>1, <1>1
    <2> QED
        BY <2>1, <2>2
<1> QED
    BY <1>1, <1>3, <1>4, <1>5, <1>7 DEF all, more

\* An edit of the roster or of the bio announces a record that is waiting and
\* unread as before, with members that are reached.  No edit but a removal
\* takes anybody off the roster.
Edit(p) ==
    \/ AddMembers(p)
    \/ \E n \in 0..Cardinality(Peers) :
          set_group_meta(p, n) \/ \E q \in Peers : remove_group_member(p, q, n)

Edited(p, g) ==
    /\ group[p] # None
    /\ g.pending = group[p].pending /\ g.unread = group[p].unread
    /\ Reached(p, group[p].members, contacts[p], severed) => Reached(p, g.members, contacts[p], severed)
    /\ \/ shrunk'
       \/ /\ Len(group[p].members) <= Len(g.members)
          /\ \A i \in 1..Len(group[p].members) : g.members[i] = group[p].members[i]
    /\ \/ g.members = group[p].members /\ editors' = editors
       \/ editors' = editors \cup {p}
    /\ shrunk => shrunk'

LEMMA EditAnnounces ==
    ASSUME TypeInv, NEW p \in Peers, Edit(p)
    PROVE  \E g \in Group, n \in Nat : Announced(p, g, n) /\ Edited(p, g)
<1> DEFINE old == group[p]
<1>0. group[p] # None /\ old \in Group
    <2>1. group[p] # None
        BY DEF Edit, AddMembers, set_group_meta, remove_group_member
    <2> QED
        BY <2>1 DEF TypeInv
<1>a. Cardinality(Peers) \in Nat
    BY GroupsConstants, FS_CardinalityType
<1>b. \A m \in Seq(GroupMember) :
        /\ [old EXCEPT !.members = m] \in Group
        /\ [old EXCEPT !.members = m].members = m
        /\ [old EXCEPT !.members = m].pending = old.pending
        /\ [old EXCEPT !.members = m].unread = old.unread
    <2> HIDE DEF old
    <2> QED
        BY <1>0 DEF Group
<1>1. CASE AddMembers(p)
    <2>1. PICK k \in DOMAIN group[p].members, n \in 0..Cardinality(Peers) :
            \E dids \in ContactPicker(p, Dids(SubSeq(group[p].members, 1, k))) \ {<<>>} :
               add_group_members(p, dids, n)
        BY <1>1 DEF AddMembers
    <2>2. PICK dids \in ContactPicker(p, Dids(SubSeq(group[p].members, 1, k))) :
               add_group_members(p, dids, n)
        BY <2>1
    <2>3. PICK S \in SUBSET Peers : dids = SetToSeq(S)
        BY <2>2 DEF ContactPicker
    <2>4. dids \in Seq(Peers)
        <3>1. dids \in Seq(S)
            BY <2>3, PickedList
        <3> QED
            BY <3>1
    <2> DEFINE new == NewOnes(p, dids)
               all == old.members \o [i \in DOMAIN new |-> roster_member(new[i])]
               g == [old EXCEPT !.members = all]
    <2>5. new \in Seq(Peers)
        BY <2>4, NewOnesList
    <2>6. /\ \A i \in DOMAIN new : contacts[p][new[i]].active
          /\ Announced(p, g, n)
          /\ editors' = editors \cup {p} /\ UNCHANGED shrunk
        BY <2>2 DEF add_group_members
    <2>7. old.members \in Seq(GroupMember)
        BY <1>0 DEF Group
    <2>8. /\ all \in Seq(GroupMember)
          /\ Len(old.members) <= Len(all)
          /\ \A i \in 1..Len(old.members) : all[i] = old.members[i]
          /\ Reached(p, old.members, contacts[p], severed) => Reached(p, all, contacts[p], severed)
        <3> HIDE DEF old, new
        <3>1. \A i \in DOMAIN new : contacts[p][new[i]].active
            BY <2>6
        <3> QED
            BY <2>5, <2>7, <3>1, Joined
    <2> HIDE DEF all
    <2>9. /\ g \in Group /\ g.members = all /\ g.pending = old.pending /\ g.unread = old.unread
        BY <2>8, <1>b
    <2> HIDE DEF g
    <2>10. Edited(p, g)
        BY <2>9, <2>8, <2>6, <1>0 DEF Edited
    <2> QED
        BY <2>10, <2>9, <2>6, <1>a
<1>2. ASSUME NEW n \in 0..Cardinality(Peers), set_group_meta(p, n)
      PROVE  \E g \in Group, m \in Nat : Announced(p, g, m) /\ Edited(p, g)
    <2> DEFINE g == [old EXCEPT !.bio = 1]
    <2>1. Announced(p, g, n) /\ UNCHANGED <<editors, shrunk, banned>>
        BY <1>2 DEF set_group_meta
    <2>2. g \in Group /\ g.members = old.members /\ g.pending = old.pending /\ g.unread = old.unread
        <3> HIDE DEF old
        <3> QED
            BY <1>0 DEF Group
    <2> HIDE DEF g
    <2>3. Edited(p, g)
        BY <2>1, <2>2, <1>0 DEF Edited, Group
    <2> QED
        BY <2>1, <2>2, <2>3, <1>a
<1>3. ASSUME NEW n \in 0..Cardinality(Peers), NEW q \in Peers, remove_group_member(p, q, n)
      PROVE  \E g \in Group, m \in Nat : Announced(p, g, m) /\ Edited(p, g)
    <2> DEFINE rest == Without(old.members, q)
               g == [old EXCEPT !.members = rest]
    <2>1. Announced(p, g, n) /\ editors' = editors \cup {p} /\ shrunk'
        BY <1>3 DEF remove_group_member
    <2>2. old.members \in Seq(GroupMember)
        BY <1>0 DEF Group
    <2>3. /\ rest \in Seq(GroupMember)
          /\ \A j \in 1..Len(rest) : \E i \in 1..Len(old.members) : old.members[i] = rest[j]
        <3> HIDE DEF old
        <3> QED
            BY <2>2, WithoutList
    <2> HIDE DEF rest
    <2>4. Reached(p, old.members, contacts[p], severed) => Reached(p, rest, contacts[p], severed)
        <3> HIDE DEF old
        <3> SUFFICES ASSUME Reached(p, old.members, contacts[p], severed), NEW j \in 1..Len(rest),
                            rest[j].keyed, rest[j].did # p
                     PROVE  contacts[p][rest[j].did].active \/ <<p, rest[j].did>> \in severed
            BY DEF Reached
        <3>1. PICK i \in 1..Len(old.members) : old.members[i] = rest[j]
            BY <2>3
        <3> QED
            BY <3>1 DEF Reached
    <2>5. /\ g \in Group /\ g.members = rest /\ g.pending = old.pending /\ g.unread = old.unread
        BY <2>3, <1>b
    <2> HIDE DEF g
    <2>6. Edited(p, g)
        BY <2>1, <2>4, <2>5, <1>0 DEF Edited
    <2> QED
        BY <2>1, <2>5, <2>6, <1>a
<1> QED
    BY <1>1, <1>2, <1>3 DEF Edit

\* The record a new group starts with.
Created(p, g, n) ==
    /\ creator = None /\ creator' = p
    /\ n \in 0..Len(g.members) /\ RunsOrDies(n = Len(g.members))
    /\ group' = [group EXCEPT ![p] = g]
    /\ net' = net \cup FanOut(p, g, 0, n)
    /\ consented' = consented \cup {p}
    /\ heard' = [heard EXCEPT ![p] = {Len(g.members)}]
    /\ UNCHANGED <<contacts, declined, conv, consumed, texts, edits, local, losses, editors,
                   shrunk, unseen, banned, severed>>
    /\ ~g.pending /\ g.unread = 0
    /\ Reached(p, g.members, contacts[p], severed)

LEMMA NewGroupCreates ==
    ASSUME TypeInv, NEW p \in Peers, NewGroup(p)
    PROVE  \E g \in Group, n \in Nat : Created(p, g, n)
<1>a. Cardinality(Peers) \in Nat
    BY GroupsConstants, FS_CardinalityType
<1>1. PICK dids \in ContactPicker(p, {}), answers \in BOOLEAN, n \in 0..Cardinality(Peers) :
        create_group(p, dids, answers, n)
    BY DEF NewGroup
<1>2. PICK S \in SUBSET Peers : dids = SetToSeq(S)
    BY <1>1 DEF ContactPicker
<1>3. dids \in Seq(Peers)
    <2>1. dids \in Seq(S)
        BY <1>2, PickedList
    <2> QED
        BY <2>1
<1> DEFINE me == <<my_roster_member(p, answers)>>
           all == me \o [i \in DOMAIN dids |-> roster_member(dids[i])]
           g == [members |-> all, bio |-> 0, pending |-> FALSE, unread |-> 0]
<1>4. /\ \A i \in DOMAIN dids : contacts[p][dids[i]].active
      /\ creator = None /\ creator' = p
      /\ n \in 0..Len(g.members) /\ RunsOrDies(n = Len(g.members))
      /\ group' = [group EXCEPT ![p] = g]
      /\ net' = net \cup FanOut(p, g, 0, n)
      /\ consented' = consented \cup {p}
      /\ heard' = [heard EXCEPT ![p] = {Len(g.members)}]
      /\ UNCHANGED <<contacts, declined, conv, consumed, texts, edits, local, losses, editors,
                     shrunk, unseen, banned, severed>>
    BY <1>1 DEF create_group
<1>5. my_roster_member(p, answers) \in GroupMember /\ my_roster_member(p, answers).did = p
    BY DEF my_roster_member, GroupMember
<1>6. me \in Seq(GroupMember) /\ Reached(p, me, contacts[p], severed)
    BY <1>5 DEF Reached
<1> HIDE DEF me
<1>7. all \in Seq(GroupMember) /\ Reached(p, all, contacts[p], severed)
    <2>1. \A i \in DOMAIN dids : contacts[p][dids[i]].active
        BY <1>4
    <2> QED
        BY <1>3, <1>6, <2>1, Joined
<1> HIDE DEF all
<1>8. g \in Group /\ g.members = all /\ ~g.pending /\ g.unread = 0
    BY <1>7 DEF Group
<1> HIDE DEF g
<1>9. Created(p, g, n)
    BY <1>4, <1>7, <1>8 DEF Created
<1> QED
    BY <1>8, <1>9, <1>a

\* What a step of the group does, told by the record it leaves.
Steps(p) ==
    \/ \E g \in Group, n \in Nat : Created(p, g, n)
    \/ \E g \in Group, n \in Nat : Announced(p, g, n) /\ Edited(p, g)
    \/ \E n \in Nat : send_group_message_inner(p, n)
    \/ \E w \in net, n \in Nat, done \in 0..4 :
          \E f \in {Fine} \cup FileFaults(p, w.ctx.members, n) :
             store_incoming_group_message(p, w, n, done, f)
    \/ \E q \in Peers : delete_conversation(p, q)
    \/ accept_group(p)
    \/ \E whole \in BOOLEAN : decline_group(p, whole) \/ delete_group(p, whole)
    \/ mark_group_read(p)

LEMMA NextSteps ==
    ASSUME TypeInv, Next
    PROVE  \E p \in Peers : Steps(p)
<1>a. Cardinality(Peers) \in Nat
    BY GroupsConstants, FS_CardinalityType
<1>b. \A n \in 0..Cardinality(Peers) : n \in Nat
    BY <1>a
<1>1. ASSUME NEW p \in Peers, NewGroup(p) PROVE Steps(p)
    BY <1>1, NewGroupCreates DEF Steps
<1>2. ASSUME NEW p \in Peers, Edit(p) PROVE Steps(p)
    BY <1>2, EditAnnounces DEF Steps
<1>3. ASSUME NEW p \in Peers, NEW w \in net, NEW done \in 0..4, NEW n \in 0..Len(w.ctx.members),
             NEW f \in {Fine} \cup FileFaults(p, w.ctx.members, n),
             store_incoming_group_message(p, w, n, done, f)
      PROVE  Steps(p)
    <2>1. w.ctx.members \in Seq(GroupMember)
        BY DEF TypeInv, Wires, Ctx
    <2>2. Len(w.ctx.members) \in Nat
        BY <2>1
    <2>3. n \in Nat
        BY <2>2
    <2> QED
        BY <1>3, <2>3 DEF Steps
<1> QED
    BY <1>1, <1>2, <1>3, <1>b DEF Next, Steps, Edit

-----------------------------------------------------------------------------
(* Types.                                                                  *)

LEMMA InitType == ASSUME Init PROVE TypeInv
<1>1. contacts \in [Peers -> [Peers -> Contact]]
    <2>1. NoContact \in Contact /\ Legacy \in Contact /\ Paired \in Contact
        BY DEF Contact, NoContact, Legacy, Paired
    <2>2. InitContacts \in [Peers -> [Peers -> {NoContact, Legacy, Paired}]]
        BY GroupsConstants
    <2>3. [Peers -> {NoContact, Legacy, Paired}] \subseteq [Peers -> Contact]
        BY <2>1
    <2>4. \A p \in Peers : InitContacts[p] \in [Peers -> Contact]
        BY <2>2, <2>3
    <2> QED
        BY <2>2, <2>4 DEF Init
<1> QED
    BY <1>1 DEF Init, TypeInv

LEMMA RunsOrDiesCounts ==
    ASSUME crashes \in Nat, NEW whole \in BOOLEAN, RunsOrDies(whole)
    PROVE  /\ crashes' \in Nat /\ crashes <= crashes'
           /\ ~whole => crashes' = crashes + 1
    BY DEF RunsOrDies

\* The variables that TypeInv names are of their types after a step.
LEMMA NextType ==
    ASSUME TypeInv, NEW p \in Peers, Steps(p)
    PROVE  TypeInv'
<1> USE DEF TypeInv
<1>1. ASSUME NEW g \in Group, NEW n \in Nat, Created(p, g, n) PROVE TypeInv'
    <2>1. \A w \in FanOut(p, g, 0, n) : w \in Wires
        BY <1>1, FanOutWires DEF Created
    <2>2. crashes' \in Nat
        BY <1>1, RunsOrDiesCounts DEF Created
    <2>3. Len(g.members) \in Nat
        BY DEF Group
    <2> QED
        BY <1>1, <2>1, <2>2, <2>3 DEF Created
<1>2. ASSUME NEW g \in Group, NEW n \in Nat, Announced(p, g, n), Edited(p, g) PROVE TypeInv'
    <2>1. \A w \in FanOut(p, g, 0, n) : w \in Wires
        BY <1>2, FanOutWires DEF Announced
    <2>2. crashes' \in Nat
        BY <1>2, RunsOrDiesCounts DEF Announced
    <2>3. Len(g.members) \in Nat
        BY DEF Group
    <2>4. editors' \in SUBSET Peers
        BY <1>2 DEF Edited
    <2> QED
        BY <1>2, <2>1, <2>2, <2>3, <2>4 DEF Announced
<1>3. ASSUME NEW n \in Nat, send_group_message_inner(p, n) PROVE TypeInv'
    <2>1. group[p] \in Group /\ texts + 1 \in Nat
        BY <1>3 DEF send_group_message_inner
    <2>2. \A w \in FanOut(p, group[p], texts + 1, n) : w \in Wires
        BY <1>3, <2>1, FanOutWires DEF send_group_message_inner
    <2>3. crashes' \in Nat
        BY <1>3, RunsOrDiesCounts DEF send_group_message_inner
    <2>4. conv' \in [Peers -> Seq(Nat)]
        BY <1>3, <2>1 DEF send_group_message_inner
    <2> QED
        BY <1>3, <2>1, <2>2, <2>3, <2>4 DEF send_group_message_inner, books
<1>4. ASSUME NEW w \in net, NEW n \in Nat, NEW done \in 0..4,
             NEW f \in {Fine} \cup FileFaults(p, w.ctx.members, n),
             store_incoming_group_message(p, w, n, done, f)
      PROVE  TypeInv'
    <2>1. w \in Wires /\ w.ctx \in Ctx /\ w.text \in Nat /\ w.ctx.members \in Seq(GroupMember)
        BY DEF Wires, Ctx
    <2>2. n \in 0..Len(w.ctx.members) /\ Len(w.ctx.members) \in Nat
        BY <1>4, <2>1 DEF store_incoming_group_message
    <2>3. contacts' \in [Peers -> [Peers -> Contact]]
        <3>1. Bootstrapped(p, w.ctx.members, n, f) \in [Peers -> Contact]
            BY <2>1, <2>2, BootstrappedContacts
        <3> QED
            BY <1>4, <3>1 DEF store_incoming_group_message
    <2> DEFINE g == Upserted(p, w.ctx)
    <2>4. g \in Group
        BY <2>1, UpsertedGroup
    <2> HIDE DEF g
    <2>5. touch_group(g, 1) \in Group
        BY <2>4, TouchedGroup
    <2>6. group' \in [Peers -> Group \cup {None}]
        <3>1. group' = group \/ group' = [group EXCEPT ![p] = g] \/ group' = [group EXCEPT ![p] = touch_group(g, 1)]
            BY <1>4 DEF store_incoming_group_message, g
        <3> QED
            BY <3>1, <2>4, <2>5
    <2>7. conv' \in [Peers -> Seq(Nat)]
        BY <1>4, <2>1 DEF store_incoming_group_message
    <2>8. crashes' \in Nat
        BY <1>4, RunsOrDiesCounts DEF store_incoming_group_message
    <2>9. unseen' \in [Peers -> Nat]
        BY <1>4 DEF store_incoming_group_message
    <2>10. heard' \in [Peers -> SUBSET Nat]
        BY <1>4, <2>2 DEF store_incoming_group_message
    <2>11. severed' \in SUBSET (Peers \X Peers)
        BY <1>4 DEF store_incoming_group_message, Apart
    <2> QED
        BY <1>4, <2>3, <2>6, <2>7, <2>8, <2>9, <2>10, <2>11 DEF store_incoming_group_message
<1>5. ASSUME accept_group(p) PROVE TypeInv'
    <2> DEFINE g == [group[p] EXCEPT !.pending = FALSE]
    <2>1. g \in Group /\ group' = [group EXCEPT ![p] = g]
        BY <1>5 DEF accept_group, Group
    <2> HIDE DEF g
    <2> QED
        BY <1>5, <2>1 DEF accept_group
<1>6. ASSUME NEW whole \in BOOLEAN, decline_group(p, whole) PROVE TypeInv'
    <2>1. crashes' \in Nat
        BY <1>6, RunsOrDiesCounts DEF decline_group
    <2> QED
        BY <1>6, <2>1 DEF decline_group
<1>7. ASSUME NEW whole \in BOOLEAN, delete_group(p, whole) PROVE TypeInv'
    <2>1. crashes' \in Nat
        BY <1>7, RunsOrDiesCounts DEF delete_group
    <2>2. conv' \in [Peers -> Seq(Nat)]
        BY <1>7 DEF delete_group
    <2> QED
        BY <1>7, <2>1, <2>2 DEF delete_group
<1>8. ASSUME mark_group_read(p) PROVE TypeInv'
    <2> DEFINE g == [group[p] EXCEPT !.unread = 0]
    <2>1. g \in Group /\ group' = [group EXCEPT ![p] = g]
        BY <1>8 DEF mark_group_read, Group
    <2> HIDE DEF g
    <2> QED
        BY <1>8, <2>1 DEF mark_group_read
<1>9. ASSUME NEW q \in Peers, delete_conversation(p, q) PROVE TypeInv'
    <2>1. NoContact \in Contact
        BY DEF NoContact, Contact
    <2>2. contacts' \in [Peers -> [Peers -> Contact]]
        BY <1>9, <2>1 DEF delete_conversation
    <2>3. severed' \in SUBSET (Peers \X Peers)
        BY <1>9 DEF delete_conversation
    <2> QED
        BY <1>9, <2>2, <2>3 DEF delete_conversation
<1> QED
    BY <1>1, <1>2, <1>3, <1>4, <1>5, <1>6, <1>7, <1>8, <1>9 DEF Steps

-----------------------------------------------------------------------------
(* Consent.  Before there is a group, nobody has heard of it.              *)

ConsentInv ==
    /\ Consent
    /\ creator = None =>
         /\ declined = {} /\ net = {} /\ editors = {}
         /\ \A p \in Peers : group[p] = None

LEMMA NextConsent ==
    ASSUME TypeInv, ConsentInv, NEW p \in Peers, Steps(p)
    PROVE  ConsentInv'
<1> USE DEF TypeInv, ConsentInv, Consent
<1>a. None \notin Group /\ None \notin Peers
    BY GroupsConstants
<1>1. ASSUME NEW g \in Group, NEW n \in Nat, Created(p, g, n) PROVE ConsentInv'
    BY <1>1, <1>a DEF Created
<1>2. ASSUME NEW g \in Group, NEW n \in Nat, Announced(p, g, n), Edited(p, g) PROVE ConsentInv'
    BY <1>2, <1>a DEF Announced, Edited
<1>3. ASSUME NEW n \in Nat, send_group_message_inner(p, n) PROVE ConsentInv'
    BY <1>3, <1>a DEF send_group_message_inner, books
<1>4. ASSUME NEW w \in net, NEW n \in Nat, NEW done \in 0..4,
             NEW f \in {Fine} \cup FileFaults(p, w.ctx.members, n),
             store_incoming_group_message(p, w, n, done, f)
      PROVE  ConsentInv'
    <2>1. w.ctx \in Ctx
        BY DEF Wires
    <2> DEFINE g == Upserted(p, w.ctx)
    <2>2. /\ g \in Group
          /\ group[p] = None => g.pending
          /\ group[p] # None => g.pending = group[p].pending
        BY <2>1, UpsertedGroup
    <2>3. touch_group(g, 1) \in Group /\ touch_group(g, 1).pending = g.pending
        BY <2>2, TouchedGroup
    <2>4. group' = group \/ group' = [group EXCEPT ![p] = g] \/ group' = [group EXCEPT ![p] = touch_group(g, 1)]
        BY <1>4 DEF store_incoming_group_message
    <2>5. /\ p \notin declined /\ declined' = declined /\ creator' = creator
          /\ consented' = consented /\ creator # None
        BY <1>4 DEF store_incoming_group_message, read_declined_groups
    <2> HIDE DEF g
    <2> DEFINE h == touch_group(g, 1)
    <2> HIDE DEF h
    <2>6. h \in Group /\ h.pending = g.pending /\ (group' = group \/ group' = [group EXCEPT ![p] = g] \/ group' = [group EXCEPT ![p] = h])
        BY <2>3, <2>4 DEF h
    <2> QED
        BY <2>2, <2>5, <2>6, <1>a
<1>5. ASSUME accept_group(p) PROVE ConsentInv'
    BY <1>5, <1>a DEF accept_group, Group
<1>6. ASSUME NEW whole \in BOOLEAN, decline_group(p, whole) PROVE ConsentInv'
    BY <1>6, <1>a DEF decline_group
<1>7. ASSUME NEW whole \in BOOLEAN, delete_group(p, whole) PROVE ConsentInv'
    BY <1>7, <1>a DEF delete_group
<1>8. ASSUME mark_group_read(p) PROVE ConsentInv'
    BY <1>8, <1>a DEF mark_group_read, Group
<1>9. ASSUME NEW q \in Peers, delete_conversation(p, q) PROVE ConsentInv'
    BY <1>9 DEF delete_conversation
<1> QED
    BY <1>1, <1>2, <1>3, <1>4, <1>5, <1>6, <1>7, <1>8, <1>9 DEF Steps

-----------------------------------------------------------------------------
(* Reaching the members.                                                   *)

ReachInv == \A p \in Peers : group[p] # None => Reached(p, group[p].members, contacts[p], severed)

\* Nobody p could reach is out of reach without an excuse after the step.
StaysReached(p) ==
    \A q \in Peers : contacts[p][q].active \/ <<p, q>> \in severed =>
        contacts'[p][q].active \/ <<p, q>> \in severed'

\* Then a roster that was reached still is.
LEMMA ReachedStays ==
    ASSUME NEW p \in Peers, NEW members \in Seq(GroupMember), StaysReached(p),
           Reached(p, members, contacts[p], severed)
    PROVE  Reached(p, members, contacts'[p], severed')
<1> SUFFICES ASSUME NEW i \in 1..Len(members), members[i].keyed, members[i].did # p
             PROVE  contacts'[p][members[i].did].active \/ <<p, members[i].did>> \in severed'
    BY DEF Reached
<1>1. members[i] \in GroupMember
    OBVIOUS
<1>2. members[i].did \in Peers
    BY <1>1 DEF GroupMember
<1> QED
    BY <1>2 DEF Reached, StaysReached

\* A step that replaces no roster by another.
LEMMA ReachKept ==
    ASSUME TypeInv, ReachInv, \A q \in Peers : StaysReached(q),
           \A q \in Peers : group'[q] # None =>
               group[q] # None /\ group'[q].members = group[q].members
    PROVE  ReachInv'
<1> SUFFICES ASSUME NEW q \in Peers, group'[q] # None
             PROVE  Reached(q, group'[q].members, contacts'[q], severed')
    BY DEF ReachInv
<1>1. group[q] \in Group /\ group'[q].members = group[q].members
    BY DEF TypeInv
<1>2. group[q].members \in Seq(GroupMember)
    BY <1>1 DEF Group
<1>3. Reached(q, group[q].members, contacts[q], severed)
    BY <1>1, GroupsConstants DEF ReachInv
<1> QED
    BY <1>1, <1>2, <1>3, ReachedStays

LEMMA NextReach ==
    ASSUME TypeInv, ReachInv, NEW p \in Peers, Steps(p)
    PROVE  ReachInv'
<1> USE DEF TypeInv, ReachInv
<1>a. None \notin Group
    BY GroupsConstants
<1>1. ASSUME NEW g \in Group, NEW n \in Nat, Created(p, g, n) PROVE ReachInv'
    BY <1>1, <1>a DEF Created
<1>2. ASSUME NEW g \in Group, NEW n \in Nat, Announced(p, g, n), Edited(p, g) PROVE ReachInv'
    BY <1>2, <1>a DEF Announced, Edited
<1>3. ASSUME NEW n \in Nat, send_group_message_inner(p, n) PROVE ReachInv'
    BY <1>3, <1>a DEF send_group_message_inner, books
<1>4. ASSUME NEW w \in net, NEW n \in Nat, NEW done \in 0..4,
             NEW f \in {Fine} \cup FileFaults(p, w.ctx.members, n),
             store_incoming_group_message(p, w, n, done, f)
      PROVE  ReachInv'
    <2> DEFINE members == w.ctx.members
               known == {q \in Peers : contacts[p][q].active \/ q \in Dids(members)}
               cs == Bootstrapped(p, members, n, f)
               g == Upserted(p, w.ctx)
               h == touch_group(g, 1)
    <2>1. w.ctx \in Ctx /\ members \in Seq(GroupMember) /\ Len(members) \in Nat
        BY DEF Wires, Ctx
    <2>2. n \in 0..Len(members) /\ (done > 0 => n = Len(members))
        BY <1>4 DEF store_incoming_group_message
    <2>3. /\ cs \in [Peers -> Contact]
          /\ f = Fine =>
                /\ \A q \in Peers : contacts[p][q].active => cs[q].active
                /\ n = Len(members) =>
                     \A i \in 1..Len(members) : members[i].keyed /\ members[i].did # p =>
                         cs[members[i].did].active
        <3> HIDE DEF members
        <3> QED
            BY <2>1, <2>2, BootstrappedContacts
    <2>4. contacts' = [contacts EXCEPT ![p] = cs]
        BY <1>4 DEF store_incoming_group_message
    <2>4a. /\ contacts'[p] = cs
           /\ \A q \in Peers : q # p => contacts'[q] = contacts[q]
        BY <2>4
    <2>4b. severed' = Apart(severed \cup (IF f = Fine THEN {} ELSE {p} \X known))
        BY <1>4 DEF store_incoming_group_message
    <2>5. /\ g \in Group
          /\ group[p] = None => g.members = members
          /\ group[p] # None => g.members = members \/ g.members = group[p].members
        BY <2>1, UpsertedGroup DEF Adopted
    <2>6. h \in Group /\ h.members = g.members
        BY <2>5, TouchedGroup
    <2>7. \/ group' = group
          \/ n = Len(members) /\ (group' = [group EXCEPT ![p] = g] \/ group' = [group EXCEPT ![p] = h])
        <3>1. \/ done = 0 /\ group' = group
              \/ done # 0 /\ (group' = [group EXCEPT ![p] = g] \/ group' = [group EXCEPT ![p] = h])
            BY <1>4 DEF store_incoming_group_message
        <3>2. done # 0 => n = Len(members)
            BY <2>2
        <3> QED
            BY <3>1, <3>2
    <2>k. \A i \in 1..Len(members) : members[i].did \in Peers /\ members[i].did \in Dids(members)
        <3> HIDE DEF members
        <3> TAKE i \in 1..Len(members)
        <3>1. members[i] \in GroupMember /\ i \in DOMAIN members
            BY <2>1
        <3> QED
            BY <3>1 DEF GroupMember, Dids
    <2> HIDE DEF members, cs, g, h
    <2>m. \A q \in known : f # Fine => contacts'[p][q].active \/ <<p, q>> \in severed'
        BY <2>4b DEF Apart
    <2>n. \A q, r \in Peers : <<q, r>> \in severed => contacts'[q][r].active \/ <<q, r>> \in severed'
        BY <2>4b DEF Apart
    <2>s. \A q \in Peers : StaysReached(q)
        <3> SUFFICES ASSUME NEW q \in Peers, NEW r \in Peers, contacts[q][r].active \/ <<q, r>> \in severed
                     PROVE  contacts'[q][r].active \/ <<q, r>> \in severed'
            BY DEF StaysReached
        <3>1. CASE <<q, r>> \in severed
            BY <3>1, <2>n
        <3>2. CASE contacts[q][r].active /\ q # p
            BY <3>2, <2>4a
        <3>3. CASE contacts[q][r].active /\ q = p
            <4>1. CASE f = Fine
                BY <3>3, <4>1, <2>3, <2>4a
            <4>2. CASE f # Fine
                BY <3>3, <4>2, <2>m
            <4> QED
                BY <4>1, <4>2
        <3> QED
            BY <3>1, <3>2, <3>3
    <2>8. CASE group' = group
        BY <2>8, <2>s, ReachKept
    <2>9. ASSUME NEW x \in Group, x.members = g.members, group' = [group EXCEPT ![p] = x],
                 n = Len(members)
          PROVE  ReachInv'
        <3>1. Reached(p, members, contacts'[p], severed')
            <4> SUFFICES ASSUME NEW i \in 1..Len(members), members[i].keyed, members[i].did # p
                         PROVE  contacts'[p][members[i].did].active \/ <<p, members[i].did>> \in severed'
                BY DEF Reached
            <4>1. members[i].did \in known
                BY <2>k
            <4>2. CASE f = Fine
                BY <4>2, <2>3, <2>4a, <2>9
            <4>3. CASE f # Fine
                BY <4>1, <4>3, <2>m
            <4> QED
                BY <4>2, <4>3
        <3>2. ASSUME NEW q \in Peers, group[q] # None
              PROVE  Reached(q, group[q].members, contacts'[q], severed')
            <4>1. group[q].members \in Seq(GroupMember) /\ Reached(q, group[q].members, contacts[q], severed)
                BY <3>2 DEF Group
            <4> QED
                BY <4>1, <2>s, ReachedStays
        <3> SUFFICES ASSUME NEW q \in Peers, group'[q] # None
                     PROVE  Reached(q, group'[q].members, contacts'[q], severed')
            OBVIOUS
        <3>3. CASE q = p
            <4>0. group'[q].members = g.members
                BY <3>3, <2>9
            <4>1. \/ group'[q].members = members
                  \/ group[p] # None /\ group'[q].members = group[p].members
                <5>1. CASE group[p] = None
                    BY <4>0, <5>1, <2>5
                <5>2. CASE group[p] # None
                    BY <4>0, <5>2, <2>5
                <5> QED
                    BY <5>1, <5>2
            <4> QED
                BY <3>1, <3>2, <3>3, <4>1
        <3>4. CASE q # p
            <4>1. group'[q] = group[q]
                BY <3>4, <2>9
            <4> QED
                BY <3>2, <4>1
        <3> QED
            BY <3>3, <3>4
    <2> QED
        BY <2>5, <2>6, <2>7, <2>8, <2>9
<1>5. ASSUME accept_group(p) PROVE ReachInv'
    BY <1>5, <1>a DEF accept_group, Group
<1>6. ASSUME NEW whole \in BOOLEAN, decline_group(p, whole) PROVE ReachInv'
    BY <1>6, <1>a DEF decline_group
<1>7. ASSUME NEW whole \in BOOLEAN, delete_group(p, whole) PROVE ReachInv'
    BY <1>7, <1>a DEF delete_group
<1>8. ASSUME mark_group_read(p) PROVE ReachInv'
    BY <1>8, <1>a DEF mark_group_read, Group
<1>9. ASSUME NEW q \in Peers, delete_conversation(p, q) PROVE ReachInv'
    <2>1. \A r \in Peers : StaysReached(r)
        BY <1>9 DEF delete_conversation, StaysReached
    <2>2. group' = group
        BY <1>9 DEF delete_conversation
    <2> QED
        BY <2>1, <2>2, ReachKept
<1> QED
    BY <1>1, <1>2, <1>3, <1>4, <1>5, <1>6, <1>7, <1>8, <1>9 DEF Steps

-----------------------------------------------------------------------------
(* Unread counts.  A group that is not there has nothing unread, and ids of *)
(* texts were given out.                                                   *)

\* A list without repetitions, of numbers up to n.
Plain(s, n) ==
    /\ \A i, j \in 1..Len(s) : s[i] = s[j] => i = j
    /\ \A i \in 1..Len(s) : s[i] <= n

\* The count of g is at most u, and at most n short of it.
Counted(g, u, n) ==
    /\ g = None => u = 0
    /\ g # None => g.unread <= u /\ u <= g.unread + n

UnreadInv ==
    /\ \A p \in Peers : Counted(group[p], unseen[p], crashes)
    /\ \A p \in Peers : Plain(conv[p], texts)
    /\ \A w \in net : w.text <= texts

LEMMA PlainAppend ==
    ASSUME NEW s \in Seq(Nat), NEW n \in Nat, Plain(s, n), NEW m \in Nat, NEW id \in Nat,
           n <= m, id <= m, \A i \in 1..Len(s) : s[i] # id
    PROVE  Plain(Append(s, id), m)
<1> DEFINE t == Append(s, id)
<1>1. Len(t) = Len(s) + 1 /\ t[Len(s) + 1] = id /\ Len(s) \in Nat
    OBVIOUS
<1>2. \A i \in 1..Len(s) : t[i] = s[i] /\ s[i] \in Nat
    OBVIOUS
<1>3. \A i \in 1..Len(t) : i = Len(s) + 1 \/ i \in 1..Len(s)
    BY <1>1
<1> HIDE DEF t
<1>4. \A i, j \in 1..Len(t) : t[i] = t[j] => i = j
    BY <1>1, <1>2, <1>3 DEF Plain
<1>5. \A i \in 1..Len(t) : t[i] <= m
    BY <1>1, <1>2, <1>3 DEF Plain
<1> QED
    BY <1>4, <1>5 DEF Plain, t

\* A new text has a number that is not in the list.
LEMMA PlainNext ==
    ASSUME NEW s \in Seq(Nat), NEW n \in Nat, Plain(s, n)
    PROVE  Plain(Append(s, n + 1), n + 1)
<1>1. \A i \in 1..Len(s) : s[i] # n + 1
    BY DEF Plain
<1>2. n + 1 \in Nat /\ n <= n + 1 /\ n + 1 <= n + 1
    OBVIOUS
<1> QED
    BY <1>1, <1>2, PlainAppend

LEMMA CountedGrows ==
    ASSUME NEW g \in Group \cup {None}, NEW u \in Nat, NEW m \in Nat, NEW n \in Nat, m <= n,
           Counted(g, u, m)
    PROVE  Counted(g, u, n)
    BY DEF Counted, Group

LEMMA PlainGrows ==
    ASSUME NEW s \in Seq(Nat), NEW m \in Nat, NEW n \in Nat, m <= n, Plain(s, m)
    PROVE  Plain(s, n)
    BY DEF Plain

\* A step in which only p's record, count and log change.
UnreadMove(p, g, u, log) ==
    /\ crashes' \in Nat /\ crashes <= crashes' /\ texts' \in Nat /\ texts <= texts'
    /\ group' = [group EXCEPT ![p] = g] /\ Counted(g, u, crashes')
    /\ unseen' = [unseen EXCEPT ![p] = u]
    /\ conv' = [conv EXCEPT ![p] = log] /\ Plain(log, texts')
    /\ \A w \in net' : w \in net \/ w.text <= texts'

LEMMA UnreadStep ==
    ASSUME TypeInv, UnreadInv, NEW p \in Peers, NEW g, NEW u, NEW log, UnreadMove(p, g, u, log)
    PROVE  UnreadInv'
<1> USE DEF UnreadMove
<1>1. ASSUME NEW q \in Peers PROVE Counted(group'[q], unseen'[q], crashes')
    <2>1. CASE q = p
        BY <2>1 DEF TypeInv
    <2>2. CASE q # p
        <3>1. group'[q] = group[q] /\ unseen'[q] = unseen[q]
            BY <2>2 DEF TypeInv
        <3>2. Counted(group[q], unseen[q], crashes')
            BY CountedGrows DEF TypeInv, UnreadInv
        <3> QED
            BY <3>1, <3>2
    <2> QED
        BY <2>1, <2>2
<1>2. ASSUME NEW q \in Peers PROVE Plain(conv'[q], texts')
    <2>1. CASE q = p
        BY <2>1 DEF TypeInv
    <2>2. CASE q # p
        <3>1. conv'[q] = conv[q]
            BY <2>2 DEF TypeInv
        <3>2. Plain(conv[q], texts')
            BY PlainGrows DEF TypeInv, UnreadInv
        <3> QED
            BY <3>1, <3>2
    <2> QED
        BY <2>1, <2>2
<1>3. \A w \in net' : w.text <= texts'
    <2>1. \A w \in net : w.text \in Nat /\ w.text <= texts /\ texts \in Nat
        BY DEF TypeInv, UnreadInv, Wires
    <2> QED
        BY <2>1
<1> QED
    BY <1>1, <1>2, <1>3 DEF UnreadInv

LEMMA NextUnread ==
    ASSUME TypeInv, ConsentInv, UnreadInv, NEW p \in Peers, Steps(p)
    PROVE  UnreadInv'
<1>a. None \notin Group
    BY GroupsConstants
<1>b. /\ group = [group EXCEPT ![p] = group[p]] /\ conv = [conv EXCEPT ![p] = conv[p]]
      /\ unseen = [unseen EXCEPT ![p] = unseen[p]]
    BY DEF TypeInv
<1>c. Counted(group[p], unseen[p], crashes) /\ Plain(conv[p], texts)
    BY DEF UnreadInv
<1>d. /\ unseen[p] \in Nat /\ conv[p] \in Seq(Nat) /\ group[p] \in Group \cup {None}
      /\ texts \in Nat /\ crashes \in Nat
    BY DEF TypeInv
<1>1. ASSUME NEW g \in Group, NEW n \in Nat, Created(p, g, n) PROVE UnreadInv'
    <2>1. crashes' \in Nat /\ crashes <= crashes'
        BY <1>1, <1>d, RunsOrDiesCounts DEF Created
    <2>2. \A w \in FanOut(p, g, 0, n) : w.text = 0
        <3>1. n \in 0..Len(g.members)
            BY <1>1 DEF Created
        <3> QED
            BY <3>1, FanOutWires
    <2>3. unseen[p] = 0
        BY <1>1, <1>c DEF Created, ConsentInv, Counted
    <2>4. Counted(g, unseen[p], crashes')
        <3>1. g.unread = 0 /\ g # None
            BY <1>1, <1>a DEF Created
        <3>2. \A m \in Nat : Counted(g, 0, m)
            BY <3>1 DEF Counted
        <3> QED
            BY <3>2, <2>1, <2>3
    <2>5. /\ group' = [group EXCEPT ![p] = g] /\ unseen' = [unseen EXCEPT ![p] = unseen[p]]
          /\ conv' = [conv EXCEPT ![p] = conv[p]] /\ texts' = texts
          /\ \A w \in net' : w \in net \/ w.text <= texts'
        BY <1>1, <1>b, <1>d, <2>2 DEF Created
    <2>6. UnreadMove(p, g, unseen[p], conv[p])
        BY <1>c, <1>d, <2>1, <2>4, <2>5 DEF UnreadMove
    <2> QED
        BY <2>6, UnreadStep
<1>2. ASSUME NEW g \in Group, NEW n \in Nat, Announced(p, g, n), Edited(p, g) PROVE UnreadInv'
    <2>1. crashes' \in Nat /\ crashes <= crashes'
        BY <1>2, <1>d, RunsOrDiesCounts DEF Announced
    <2>2. \A w \in FanOut(p, g, 0, n) : w.text = 0
        BY <1>2, FanOutWires DEF Announced
    <2>3. Counted(g, unseen[p], crashes)
        BY <1>2, <1>a, <1>c DEF Edited, Counted
    <2>4. Counted(g, unseen[p], crashes')
        BY <1>d, <2>1, <2>3, CountedGrows
    <2>5. /\ group' = [group EXCEPT ![p] = g] /\ unseen' = [unseen EXCEPT ![p] = unseen[p]]
          /\ conv' = [conv EXCEPT ![p] = conv[p]] /\ texts' = texts
          /\ \A w \in net' : w \in net \/ w.text <= texts'
        BY <1>2, <1>b, <1>d, <2>2 DEF Announced
    <2>6. UnreadMove(p, g, unseen[p], conv[p])
        BY <1>c, <1>d, <2>1, <2>4, <2>5 DEF UnreadMove
    <2> QED
        BY <2>6, UnreadStep
<1>3. ASSUME NEW n \in Nat, send_group_message_inner(p, n) PROVE UnreadInv'
    <2>1. crashes' \in Nat /\ crashes <= crashes'
        BY <1>3, <1>d, RunsOrDiesCounts DEF send_group_message_inner
    <2>2. \A w \in FanOut(p, group[p], texts + 1, n) : w.text = texts + 1
        <3>1. group[p] \in Group /\ texts + 1 \in Nat /\ n \in 0..Len(group[p].members)
            BY <1>3, <1>d DEF send_group_message_inner
        <3> QED
            BY <3>1, FanOutWires
    <2>3. Counted(group[p], unseen[p], crashes')
        BY <1>c, <1>d, <2>1, CountedGrows
    <2> DEFINE log == Append(conv[p], texts + 1)
    <2>4. Plain(log, texts + 1)
        BY <1>c, <1>d, PlainNext
    <2>5. /\ group' = [group EXCEPT ![p] = group[p]] /\ unseen' = [unseen EXCEPT ![p] = unseen[p]]
          /\ conv' = [conv EXCEPT ![p] = log] /\ texts' = texts + 1 /\ texts <= texts'
          /\ texts' \in Nat
          /\ \A w \in net' : w \in net \/ w.text <= texts'
        BY <1>3, <1>b, <1>d, <2>2 DEF send_group_message_inner, books
    <2> HIDE DEF log
    <2>6. UnreadMove(p, group[p], unseen[p], log)
        BY <1>d, <2>1, <2>3, <2>4, <2>5 DEF UnreadMove
    <2> QED
        BY <2>6, UnreadStep
<1>4. ASSUME NEW w \in net, NEW n \in Nat, NEW done \in 0..4,
             NEW f \in {Fine} \cup FileFaults(p, w.ctx.members, n),
             store_incoming_group_message(p, w, n, done, f)
      PROVE  UnreadInv'
    <2> DEFINE appends == w.text # 0 /\ ~IsRedelivery(p, w)
               g == Upserted(p, w.ctx)
               h == touch_group(g, 1)
               log == Append(conv[p], w.text)
    <2>1. crashes' \in Nat /\ crashes <= crashes' /\ (done # 4 => crashes' = crashes + 1)
        BY <1>4, <1>d, RunsOrDiesCounts DEF store_incoming_group_message
    <2>2. w.ctx \in Ctx /\ w.text \in Nat
        BY DEF TypeInv, Wires
    <2>3. /\ g \in Group
          /\ group[p] = None => g.unread = 0
          /\ group[p] # None => g.unread = group[p].unread
        BY <2>2, UpsertedGroup
    <2>4. h \in Group /\ h.unread = g.unread + 1
        BY <2>3, TouchedGroup
    <2>5. Counted(g, unseen[p], crashes)
        BY <1>a, <1>c, <1>d, <2>3 DEF Counted, Group
    <2>6. appends => Plain(log, texts)
        <3> HAVE appends
        <3>1. \A i \in 1..Len(conv[p]) : conv[p][i] # w.text
            BY DEF IsRedelivery
        <3>2. w.text <= texts
            BY DEF UnreadInv
        <3> QED
            BY <3>1, <3>2, <1>c, <1>d, <2>2, PlainAppend
    <2>7. /\ group' = IF done = 0 THEN group
                      ELSE [group EXCEPT ![p] = IF appends /\ done > 2 THEN h ELSE g]
          /\ conv' = IF appends /\ done > 1 THEN [conv EXCEPT ![p] = log] ELSE conv
          /\ unseen' = IF appends /\ done > 1 THEN [unseen EXCEPT ![p] = unseen[p] + 1] ELSE unseen
          /\ texts' = texts /\ net' = net
        BY <1>4 DEF store_incoming_group_message
    <2>7a. ~appends \/ done <= 1 => conv' = conv /\ unseen' = unseen
        BY <2>7
    <2>7b. ~appends \/ done <= 1 => group' = group \/ group' = [group EXCEPT ![p] = g]
        <3> HAVE ~appends \/ done <= 1
        <3>1. ~(appends /\ done > 2)
            OBVIOUS
        <3> HIDE DEF appends, g, h
        <3>2. (IF appends /\ done > 2 THEN h ELSE g) = g
            BY <3>1
        <3> QED
            BY <2>7, <3>2
    <2> HIDE DEF appends, g, h, log
    <2>8. CASE ~appends \/ done <= 1
        <3>1. conv' = [conv EXCEPT ![p] = conv[p]] /\ unseen' = [unseen EXCEPT ![p] = unseen[p]]
            BY <1>b, <2>7a, <2>8
        <3>2. \/ group' = [group EXCEPT ![p] = group[p]]
              \/ group' = [group EXCEPT ![p] = g]
            BY <1>b, <2>7b, <2>8
        <3>3. Counted(group[p], unseen[p], crashes') /\ Counted(g, unseen[p], crashes')
            BY <1>c, <1>d, <2>1, <2>3, <2>5, CountedGrows
        <3>4. UnreadMove(p, group[p], unseen[p], conv[p]) \/ UnreadMove(p, g, unseen[p], conv[p])
            BY <3>1, <3>2, <3>3, <1>c, <1>d, <2>1, <2>7 DEF UnreadMove
        <3> QED
            BY <3>4, UnreadStep
    <2>9. CASE appends /\ done = 2
        <3>1. conv' = [conv EXCEPT ![p] = log] /\ unseen' = [unseen EXCEPT ![p] = unseen[p] + 1]
            BY <2>7, <2>9
        <3>2. group' = [group EXCEPT ![p] = g]
            BY <2>7, <2>9
        <3>3. Counted(g, unseen[p] + 1, crashes')
            BY <1>a, <1>d, <2>1, <2>3, <2>5, <2>9 DEF Counted, Group
        <3>4. UnreadMove(p, g, unseen[p] + 1, log)
            BY <3>1, <3>2, <3>3, <1>d, <2>1, <2>6, <2>7, <2>9 DEF UnreadMove
        <3> QED
            BY <3>4, UnreadStep
    <2>10. CASE appends /\ done > 2
        <3>1. conv' = [conv EXCEPT ![p] = log] /\ unseen' = [unseen EXCEPT ![p] = unseen[p] + 1]
            BY <2>7, <2>10
        <3>2. group' = [group EXCEPT ![p] = h]
            BY <2>7, <2>10
        <3>3. Counted(h, unseen[p] + 1, crashes')
            BY <1>a, <1>d, <2>1, <2>3, <2>4, <2>5 DEF Counted, Group
        <3>4. UnreadMove(p, h, unseen[p] + 1, log)
            BY <3>1, <3>2, <3>3, <1>d, <2>1, <2>6, <2>7, <2>10 DEF UnreadMove
        <3> QED
            BY <3>4, UnreadStep
    <2> QED
        BY <2>8, <2>9, <2>10
<1>5. ASSUME accept_group(p) PROVE UnreadInv'
    <2> DEFINE g == [group[p] EXCEPT !.pending = FALSE]
    <2>1. g \in Group /\ g.unread = group[p].unread
        BY <1>5, <1>d DEF accept_group, Group
    <2>2. group' = [group EXCEPT ![p] = g] /\ conv' = [conv EXCEPT ![p] = conv[p]]
          /\ unseen' = [unseen EXCEPT ![p] = unseen[p]]
          /\ UNCHANGED <<crashes, texts, net>> /\ group[p] # None
        BY <1>5, <1>b DEF accept_group
    <2> HIDE DEF g
    <2>3. Counted(g, unseen[p], crashes)
        BY <1>a, <1>c, <2>1, <2>2 DEF Counted
    <2>4. UnreadMove(p, g, unseen[p], conv[p])
        BY <1>c, <1>d, <2>2, <2>3 DEF UnreadMove
    <2> QED
        BY <2>4, UnreadStep
<1>6. ASSUME NEW whole \in BOOLEAN, decline_group(p, whole) PROVE UnreadInv'
    <2>1. crashes' \in Nat /\ crashes <= crashes'
        BY <1>6, <1>d, RunsOrDiesCounts DEF decline_group
    <2>2. Counted(None, 0, crashes')
        BY DEF Counted
    <2>3. /\ group' = [group EXCEPT ![p] = None] /\ conv' = [conv EXCEPT ![p] = conv[p]]
          /\ unseen' = [unseen EXCEPT ![p] = 0] /\ UNCHANGED <<texts, net>>
        BY <1>6, <1>b DEF decline_group
    <2>4. UnreadMove(p, None, 0, conv[p])
        BY <1>c, <1>d, <2>1, <2>2, <2>3 DEF UnreadMove
    <2> QED
        BY <2>4, UnreadStep
<1>7. ASSUME NEW whole \in BOOLEAN, delete_group(p, whole) PROVE UnreadInv'
    <2>1. crashes' \in Nat /\ crashes <= crashes'
        BY <1>7, <1>d, RunsOrDiesCounts DEF delete_group
    <2>2. Counted(None, 0, crashes') /\ Plain(<<>>, texts)
        BY DEF Counted, Plain
    <2>3. /\ group' = [group EXCEPT ![p] = None]
          /\ unseen' = [unseen EXCEPT ![p] = 0] /\ UNCHANGED <<texts, net>>
        BY <1>7 DEF delete_group
    <2>4. conv' = [conv EXCEPT ![p] = conv[p]] \/ conv' = [conv EXCEPT ![p] = <<>>]
        BY <1>7, <1>b DEF delete_group
    <2>5. CASE conv' = [conv EXCEPT ![p] = conv[p]]
        <3>1. UnreadMove(p, None, 0, conv[p])
            BY <1>c, <1>d, <2>1, <2>2, <2>3, <2>5 DEF UnreadMove
        <3> QED
            BY <3>1, UnreadStep
    <2>6. CASE conv' = [conv EXCEPT ![p] = <<>>]
        <3>1. UnreadMove(p, None, 0, <<>>)
            BY <1>d, <2>1, <2>2, <2>3, <2>6 DEF UnreadMove
        <3> QED
            BY <3>1, UnreadStep
    <2> QED
        BY <2>4, <2>5, <2>6
<1>8. ASSUME mark_group_read(p) PROVE UnreadInv'
    <2> DEFINE g == [group[p] EXCEPT !.unread = 0]
    <2>1. g \in Group /\ g.unread = 0
        BY <1>8, <1>d DEF mark_group_read, Group
    <2>2. group' = [group EXCEPT ![p] = g] /\ conv' = [conv EXCEPT ![p] = conv[p]]
          /\ unseen' = [unseen EXCEPT ![p] = 0] /\ UNCHANGED <<crashes, texts, net>>
        BY <1>8, <1>b DEF mark_group_read
    <2> HIDE DEF g
    <2>3. Counted(g, 0, crashes)
        BY <1>a, <1>d, <2>1 DEF Counted
    <2>4. UnreadMove(p, g, 0, conv[p])
        BY <1>c, <1>d, <2>2, <2>3 DEF UnreadMove
    <2> QED
        BY <2>4, UnreadStep
<1>9. ASSUME NEW q \in Peers, delete_conversation(p, q) PROVE UnreadInv'
    BY <1>9 DEF delete_conversation, UnreadInv
<1> QED
    BY <1>1, <1>2, <1>3, <1>4, <1>5, <1>6, <1>7, <1>8, <1>9 DEF Steps

-----------------------------------------------------------------------------
(* Rosters.  While one peer edits and only adds, its roster begins with    *)
(* every other one there is, in a record or on its way; before anybody     *)
(* edits there is one roster.                                              *)

Rosters ==
    {group[p].members : p \in {x \in Peers : group[x] # None}} \cup {w.ctx.members : w \in net}

\* The list b begins with a.
Begins(a, b) == Len(a) <= Len(b) /\ \A i \in 1..Len(a) : b[i] = a[i]

Agree(R, E, G) ==
    (\A a, b \in E : a = b) =>
        /\ \A e \in E : G[e] # None /\ \A r \in R : Begins(r, G[e].members)
        /\ E = {} => \A r, s \in R : r = s

\* What p has heard of is in its roster.
Kept(g, H) == IF g = None THEN H = {} ELSE \A n \in H : n <= Len(g.members)

RosterInv ==
    ~shrunk => /\ Agree(Rosters, editors, group)
               /\ \A p \in Peers : Kept(group[p], heard[p])

LEMMA RostersAreLists ==
    ASSUME TypeInv
    PROVE  \A r \in Rosters : r \in Seq(GroupMember)
    BY DEF TypeInv, Rosters, Group, Wires, Ctx

LEMMA BeginsTransitive ==
    ASSUME NEW a \in Seq(GroupMember), NEW b \in Seq(GroupMember), NEW c \in Seq(GroupMember),
           Begins(a, b), Begins(b, c)
    PROVE  Begins(a, c)
<1>1. Len(a) \in Nat /\ Len(b) \in Nat /\ Len(c) \in Nat
    OBVIOUS
<1>2. \A i \in 1..Len(a) : i \in 1..Len(b)
    BY <1>1 DEF Begins
<1> QED
    BY <1>1, <1>2 DEF Begins

LEMMA BeginsItself ==
    ASSUME NEW a \in Seq(GroupMember)
    PROVE  Begins(a, a)
    BY DEF Begins

\* Two beginnings of one list are comparable.
LEMMA BeginsComparable ==
    ASSUME NEW a \in Seq(GroupMember), NEW b \in Seq(GroupMember), NEW c \in Seq(GroupMember),
           Begins(a, c), Begins(b, c)
    PROVE  IsPrefix(a, b) \/ IsPrefix(b, a)
<1>1. Len(a) \in Nat /\ Len(b) \in Nat
    OBVIOUS
<1>2. ASSUME NEW x \in Seq(GroupMember), NEW y \in Seq(GroupMember), Begins(x, c), Begins(y, c),
             Len(x) <= Len(y)
      PROVE  IsPrefix(x, y)
    <2>1. \A i \in 1..Len(x) : i \in 1..Len(y) /\ x[i] = y[i]
        BY <1>2 DEF Begins
    <2>2. SubSeq(x, 1, Len(x)) = SubSeq(y, 1, Len(x))
        BY <2>1, <1>2
    <2> QED
        BY <2>2, <1>2 DEF IsPrefix
<1> QED
    BY <1>1, <1>2

\* No roster is new, and the editor's is as it was.
LEMMA AgreeStays ==
    ASSUME NEW R, NEW Q, NEW E, NEW G, NEW H, Agree(R, E, G), Q \subseteq R,
           \A e \in E : G[e] # None => H[e] # None /\ H[e].members = G[e].members
    PROVE  Agree(Q, E, H)
    BY DEF Agree

\* A step that changes p's record alone and sends what was a roster before.
RosterMove(p, g, H) ==
    /\ group' = [group EXCEPT ![p] = g] /\ heard' = [heard EXCEPT ![p] = H]
    /\ editors' = editors /\ (shrunk => shrunk')
    /\ g # None => g.members \in Rosters
    /\ \A w \in net' : w \in net \/ w.ctx.members \in Rosters
    /\ ~shrunk' => /\ Kept(g, H)
                   /\ p \in editors => group[p] # None /\ g # None /\ g.members = group[p].members

LEMMA RosterStep ==
    ASSUME TypeInv, RosterInv, NEW p \in Peers, NEW g, NEW H, RosterMove(p, g, H)
    PROVE  RosterInv'
<1> SUFFICES ASSUME ~shrunk' PROVE Agree(Rosters', editors', group') /\ \A q \in Peers : Kept(group'[q], heard'[q])
    BY DEF RosterInv
<1>1. Agree(Rosters, editors, group) /\ \A q \in Peers : Kept(group[q], heard[q])
    BY DEF RosterInv, RosterMove
<1>2. group'[p] = g /\ heard'[p] = H /\ \A q \in Peers : q # p => group'[q] = group[q] /\ heard'[q] = heard[q]
    BY DEF RosterMove, TypeInv
<1>3. Rosters' \subseteq Rosters
    <2> SUFFICES ASSUME NEW r \in Rosters' PROVE r \in Rosters
        OBVIOUS
    <2>1. CASE \E q \in Peers : group'[q] # None /\ r = group'[q].members
        <3>1. PICK q \in Peers : group'[q] # None /\ r = group'[q].members
            BY <2>1
        <3>2. CASE q = p
            BY <3>1, <3>2, <1>2 DEF RosterMove
        <3>3. CASE q # p
            BY <3>1, <3>3, <1>2 DEF Rosters
        <3> QED
            BY <3>2, <3>3
    <2>2. CASE \E w \in net' : r = w.ctx.members
        <3>1. PICK w \in net' : r = w.ctx.members
            BY <2>2
        <3> QED
            BY <3>1 DEF RosterMove, Rosters
    <2> QED
        BY <2>1, <2>2 DEF Rosters
<1>4. \A e \in editors : group[e] # None => group'[e] # None /\ group'[e].members = group[e].members
    BY <1>2 DEF RosterMove, TypeInv
<1>5. Agree(Rosters', editors, group')
    BY <1>1, <1>3, <1>4, AgreeStays
<1> QED
    BY <1>1, <1>2, <1>5 DEF RosterMove

LEMMA NextRoster ==
    ASSUME TypeInv, ConsentInv, RosterInv, NEW p \in Peers, Steps(p)
    PROVE  RosterInv'
<1>a. None \notin Group
    BY GroupsConstants
<1>b. group = [group EXCEPT ![p] = group[p]] /\ heard = [heard EXCEPT ![p] = heard[p]]
    BY DEF TypeInv
<1>c. ~shrunk => Kept(group[p], heard[p])
    BY DEF RosterInv
<1>d. /\ group[p] \in Group \cup {None} /\ heard[p] \in SUBSET Nat
      /\ group[p] # None => group[p].members \in Rosters /\ group[p].members \in Seq(GroupMember)
    BY DEF TypeInv, Rosters, Group
<1>1. ASSUME NEW g \in Group, NEW n \in Nat, Created(p, g, n) PROVE RosterInv'
    <2>0. n \in 0..Len(g.members)
        BY <1>1 DEF Created
    <2>1. \A w \in FanOut(p, g, 0, n) : w.ctx.members = g.members
        BY <2>0, FanOutWires
    <2>2. net = {} /\ editors = {} /\ \A q \in Peers : group[q] = None
        BY <1>1 DEF Created, ConsentInv
    <2>3. /\ group' = [group EXCEPT ![p] = g] /\ net' = net \cup FanOut(p, g, 0, n)
          /\ editors' = editors /\ shrunk' = shrunk /\ heard' = [heard EXCEPT ![p] = {Len(g.members)}]
        BY <1>1 DEF Created
    <2>4. \A r \in Rosters' : r = g.members
        BY <2>1, <2>2, <2>3 DEF Rosters, TypeInv
    <2>5. Agree(Rosters', editors', group')
        BY <2>2, <2>3, <2>4 DEF Agree
    <2>6. ASSUME NEW q \in Peers, ~shrunk PROVE Kept(group'[q], heard'[q])
        <3>1. CASE q = p
            <4>1. group'[q] = g /\ heard'[q] = {Len(g.members)} /\ Len(g.members) \in Nat
                BY <2>3, <3>1 DEF TypeInv, Group
            <4> QED
                BY <4>1, <1>a DEF Kept
        <3>2. CASE q # p
            <4>1. group'[q] = group[q] /\ heard'[q] = heard[q]
                BY <2>3, <3>2 DEF TypeInv
            <4> QED
                BY <4>1, <2>6 DEF RosterInv
        <3> QED
            BY <3>1, <3>2
    <2> QED
        BY <2>3, <2>5, <2>6 DEF RosterInv
<1>2. ASSUME NEW g \in Group, NEW n \in Nat, Announced(p, g, n), Edited(p, g) PROVE RosterInv'
    <2>0. n \in 0..Len(g.members)
        BY <1>2 DEF Announced
    <2>1. \A w \in FanOut(p, g, 0, n) : w.ctx.members = g.members
        BY <2>0, FanOutWires
    <2>2. /\ group' = [group EXCEPT ![p] = g] /\ net' = net \cup FanOut(p, g, 0, n)
          /\ heard' = [heard EXCEPT ![p] = heard[p] \cup {Len(g.members)}]
        BY <1>2 DEF Announced
    <2>3. group[p] # None /\ (shrunk => shrunk') /\ g.members \in Seq(GroupMember)
        BY <1>2 DEF Edited, Group
    <2>4. CASE g.members = group[p].members /\ editors' = editors
        <3>1. ~shrunk' => Kept(g, heard[p] \cup {Len(g.members)})
            BY <2>3, <2>4, <1>a, <1>c DEF Kept
        <3>2. RosterMove(p, g, heard[p] \cup {Len(g.members)})
            BY <2>1, <2>2, <2>3, <2>4, <3>1, <1>a, <1>d DEF RosterMove
        <3> QED
            BY <3>2, RosterStep
    <2>5. CASE editors' = editors \cup {p}
        <3> SUFFICES ASSUME ~shrunk' PROVE RosterInv'
            BY DEF RosterInv
        <3>1. Begins(group[p].members, g.members)
            BY <1>2 DEF Edited, Begins
        <3>2. ASSUME NEW q \in Peers PROVE Kept(group'[q], heard'[q])
            <4>1. CASE q = p
                <5>1. \A m \in heard[p] : m <= Len(group[p].members)
                    BY <1>c, <2>3 DEF Kept
                <5>2. Len(group[p].members) \in Nat /\ Len(g.members) \in Nat
                    BY <1>d, <2>3
                <5>3. \A m \in heard[p] \cup {Len(g.members)} : m <= Len(g.members)
                    BY <5>1, <5>2, <3>1, <1>d DEF Begins
                <5>4. group'[q] = g /\ heard'[q] = heard[p] \cup {Len(g.members)}
                    BY <2>2, <4>1 DEF TypeInv
                <5> QED
                    BY <5>3, <5>4, <1>a DEF Kept
            <4>2. CASE q # p
                <5>1. group'[q] = group[q] /\ heard'[q] = heard[q]
                    BY <2>2, <4>2 DEF TypeInv
                <5> QED
                    BY <5>1, <2>3 DEF RosterInv
            <4> QED
                BY <4>1, <4>2
        <3>3. \A r \in Rosters' : r \in Rosters \/ r = g.members
            <4> SUFFICES ASSUME NEW r \in Rosters' PROVE r \in Rosters \/ r = g.members
                OBVIOUS
            <4>1. CASE \E q \in Peers : group'[q] # None /\ r = group'[q].members
                <5>1. PICK q \in Peers : group'[q] # None /\ r = group'[q].members
                    BY <4>1
                <5>2. q = p \/ group'[q] = group[q]
                    BY <2>2 DEF TypeInv
                <5>3. group'[p] = g
                    BY <2>2 DEF TypeInv
                <5> QED
                    BY <5>1, <5>2, <5>3 DEF Rosters
            <4>2. CASE \E w \in net' : r = w.ctx.members
                BY <4>2, <2>1, <2>2 DEF Rosters
            <4> QED
                BY <4>1, <4>2 DEF Rosters
        <3>4. ASSUME \A a, b \in editors' : a = b
              PROVE  \A r \in Rosters' : Begins(r, g.members)
            <4>1. \A a \in editors : a = p
                BY <3>4, <2>5
            <4>2. \A r \in Rosters : Begins(r, group[p].members)
                <5>1. Agree(Rosters, editors, group)
                    BY <2>3 DEF RosterInv
                <5>2. CASE p \in editors
                    BY <5>1, <5>2, <4>1 DEF Agree
                <5>3. CASE p \notin editors
                    <6>1. editors = {}
                        BY <5>3, <4>1
                    <6>2. \A r \in Rosters : r = group[p].members
                        BY <5>1, <6>1, <1>d, <2>3 DEF Agree
                    <6>3. Begins(group[p].members, group[p].members)
                        BY <1>d, <2>3, BeginsItself
                    <6> QED
                        BY <6>2, <6>3
                <5> QED
                    BY <5>2, <5>3
            <4> SUFFICES ASSUME NEW r \in Rosters' PROVE Begins(r, g.members)
                OBVIOUS
            <4>3. CASE r \in Rosters
                <5>1. r \in Seq(GroupMember)
                    BY <4>3, RostersAreLists
                <5> QED
                    BY <5>1, <4>2, <4>3, <3>1, <1>d, <2>3, BeginsTransitive
            <4>4. CASE r = g.members
                BY <4>4, <2>3, BeginsItself
            <4> QED
                BY <4>3, <4>4, <3>3
        <3>5. Agree(Rosters', editors', group')
            <4>1. group'[p] = g /\ g # None
                BY <2>2, <1>a DEF TypeInv
            <4> QED
                BY <3>4, <4>1, <2>5 DEF Agree
        <3> QED
            BY <3>2, <3>5 DEF RosterInv
    <2> QED
        BY <1>2, <2>4, <2>5 DEF Edited
<1>3. ASSUME NEW n \in Nat, send_group_message_inner(p, n) PROVE RosterInv'
    <2>1. group[p] # None /\ n \in 0..Len(group[p].members) /\ group[p] \in Group
        BY <1>3, <1>d DEF send_group_message_inner
    <2>2. texts + 1 \in Nat
        BY DEF TypeInv
    <2>3. \A w \in FanOut(p, group[p], texts + 1, n) : w.ctx.members = group[p].members
        BY <2>1, <2>2, FanOutWires
    <2>4. RosterMove(p, group[p], heard[p])
        BY <1>3, <1>b, <1>c, <1>d, <2>1, <2>3 DEF send_group_message_inner, books, RosterMove
    <2> QED
        BY <2>4, RosterStep
<1>4. ASSUME NEW w \in net, NEW n \in Nat, NEW done \in 0..4,
             NEW f \in {Fine} \cup FileFaults(p, w.ctx.members, n),
             store_incoming_group_message(p, w, n, done, f)
      PROVE  RosterInv'
    <2> DEFINE members == w.ctx.members
               g == Upserted(p, w.ctx)
               h == touch_group(g, 1)
               H == heard[p] \cup {Len(members)}
    <2>1. w.ctx \in Ctx /\ members \in Seq(GroupMember) /\ Len(members) \in Nat /\ members \in Rosters
        BY DEF TypeInv, Wires, Ctx, Rosters
    <2>2. /\ g \in Group
          /\ group[p] = None => g.members = members
          /\ group[p] # None => g.members = IF Len(members) > Len(group[p].members) THEN members ELSE group[p].members
        BY <2>1, UpsertedGroup DEF Adopted
    <2>3. h \in Group /\ h.members = g.members
        BY <2>2, TouchedGroup
    <2>4. \/ group' = group /\ heard' = heard
          \/ /\ group' = [group EXCEPT ![p] = g] \/ group' = [group EXCEPT ![p] = h]
             /\ heard' = [heard EXCEPT ![p] = H]
        BY <1>4 DEF store_incoming_group_message
    <2>5. editors' = editors /\ shrunk' = shrunk /\ net' = net
        BY <1>4 DEF store_incoming_group_message
    <2> HIDE DEF members, g, h
    <2>6. ~shrunk => \A m \in H : m <= Len(g.members)
        <3> HAVE ~shrunk
        <3>1. CASE group[p] = None
            BY <3>1, <1>c, <2>1, <2>2 DEF Kept
        <3>2. CASE group[p] # None
            <4>1. Len(group[p].members) \in Nat /\ \A m \in heard[p] : m \in Nat /\ m <= Len(group[p].members)
                BY <3>2, <1>c, <1>d DEF Kept
            <4> QED
                BY <3>2, <4>1, <2>1, <2>2
        <3> QED
            BY <3>1, <3>2
    <2> HIDE DEF H
    <2>7. g.members \in Rosters
        BY <1>d, <2>1, <2>2
    <2>8. ASSUME ~shrunk, p \in editors, \A a, b \in editors : a = b
          PROVE  group[p] # None /\ g.members = group[p].members
        <3>1. group[p] # None /\ Begins(members, group[p].members)
            BY <2>8, <2>1 DEF RosterInv, Agree
        <3>2. ~(Len(members) > Len(group[p].members))
            BY <3>1, <2>1, <1>d DEF Begins
        <3> QED
            BY <3>1, <3>2, <2>2
    <2>9. CASE group' = group /\ heard' = heard
        <3>1. Rosters' = Rosters
            BY <2>5, <2>9 DEF Rosters
        <3> QED
            BY <3>1, <2>5, <2>9 DEF RosterInv
    <2>10. ASSUME NEW x \in {g, h}, group' = [group EXCEPT ![p] = x], heard' = [heard EXCEPT ![p] = H]
           PROVE  RosterInv'
        <3>1. x \in Group /\ x.members = g.members /\ x # None
            BY <2>2, <2>3, <1>a
        <3>2. ~shrunk => Kept(x, H)
            BY <3>1, <2>6 DEF Kept
        <3>3. CASE p \in editors => group[p] # None /\ g.members = group[p].members
            <4>1. RosterMove(p, x, H)
                BY <2>5, <2>7, <2>10, <3>1, <3>2, <3>3 DEF RosterMove
            <4> QED
                BY <4>1, RosterStep
        <3>4. CASE ~shrunk /\ ~(\A a, b \in editors : a = b)
            <4>1. Agree(Rosters', editors', group')
                BY <3>4, <2>5 DEF Agree
            <4>2. ASSUME NEW q \in Peers PROVE Kept(group'[q], heard'[q])
                <5>1. CASE q = p
                    <6>1. group'[q] = x /\ heard'[q] = H
                        BY <5>1, <2>10 DEF TypeInv
                    <6> QED
                        BY <6>1, <3>2, <3>4
                <5>2. CASE q # p
                    <6>1. group'[q] = group[q] /\ heard'[q] = heard[q]
                        BY <5>2, <2>10 DEF TypeInv
                    <6> QED
                        BY <6>1, <3>4 DEF RosterInv
                <5> QED
                    BY <5>1, <5>2
            <4> QED
                BY <4>1, <4>2 DEF RosterInv
        <3>5. CASE shrunk
            BY <3>5, <2>5 DEF RosterInv
        <3> QED
            BY <3>3, <3>4, <3>5, <2>8
    <2> QED
        BY <2>4, <2>9, <2>10
<1>5. ASSUME accept_group(p) PROVE RosterInv'
    <2> DEFINE g == [group[p] EXCEPT !.pending = FALSE]
    <2>1. g \in Group /\ g.members = group[p].members /\ group[p] # None
        BY <1>5, <1>d DEF accept_group, Group
    <2>2. group' = [group EXCEPT ![p] = g] /\ heard' = [heard EXCEPT ![p] = heard[p]]
          /\ UNCHANGED <<editors, shrunk, net>>
        BY <1>5, <1>b DEF accept_group
    <2> HIDE DEF g
    <2>3. ~shrunk => Kept(g, heard[p])
        BY <1>a, <1>c, <2>1 DEF Kept
    <2>4. RosterMove(p, g, heard[p])
        BY <2>1, <2>2, <2>3, <1>a, <1>d DEF RosterMove
    <2> QED
        BY <2>4, RosterStep
<1>6. ASSUME NEW whole \in BOOLEAN, decline_group(p, whole) PROVE RosterInv'
    <2>1. Kept(None, {})
        BY DEF Kept
    <2>2. RosterMove(p, None, {})
        BY <1>6, <2>1 DEF decline_group, RosterMove
    <2> QED
        BY <2>2, RosterStep
<1>7. ASSUME NEW whole \in BOOLEAN, delete_group(p, whole) PROVE RosterInv'
    BY <1>7 DEF delete_group, RosterInv
<1>8. ASSUME mark_group_read(p) PROVE RosterInv'
    <2> DEFINE g == [group[p] EXCEPT !.unread = 0]
    <2>1. g \in Group /\ g.members = group[p].members /\ group[p] # None
        BY <1>8, <1>d DEF mark_group_read, Group
    <2>2. group' = [group EXCEPT ![p] = g] /\ heard' = [heard EXCEPT ![p] = heard[p]]
          /\ UNCHANGED <<editors, shrunk, net>>
        BY <1>8, <1>b DEF mark_group_read
    <2> HIDE DEF g
    <2>3. ~shrunk => Kept(g, heard[p])
        BY <1>a, <1>c, <2>1 DEF Kept
    <2>4. RosterMove(p, g, heard[p])
        BY <2>1, <2>2, <2>3, <1>a, <1>d DEF RosterMove
    <2> QED
        BY <2>4, RosterStep
<1>9. ASSUME NEW q \in Peers, delete_conversation(p, q) PROVE RosterInv'
    <2>1. Rosters' = Rosters
        BY <1>9 DEF delete_conversation, Rosters
    <2> QED
        BY <1>9, <2>1 DEF delete_conversation, RosterInv
<1> QED
    BY <1>1, <1>2, <1>3, <1>4, <1>5, <1>6, <1>7, <1>8, <1>9 DEF Steps

-----------------------------------------------------------------------------
(* The theorems.                                                           *)

GroupsInv == TypeInv /\ ConsentInv /\ ReachInv /\ UnreadInv /\ RosterInv

LEMMA InitGroups == ASSUME Init PROVE GroupsInv
<1>1. TypeInv
    BY InitType
<1>2. \A p \in Peers : group[p] = None
    BY DEF Init
<1>3. ConsentInv
    BY <1>2 DEF Init, ConsentInv, Consent
<1>4. ReachInv
    BY <1>2 DEF ReachInv
<1>5. UnreadInv
    <2>1. \A p \in Peers : Counted(group[p], unseen[p], crashes)
        BY <1>2 DEF Init, Counted
    <2>2. \A p \in Peers : Plain(conv[p], texts)
        BY DEF Init, Plain
    <2> QED
        BY <2>1, <2>2 DEF Init, UnreadInv
<1>6. RosterInv
    BY <1>2 DEF Init, RosterInv, Rosters, Agree, Kept
<1> QED
    BY <1>1, <1>3, <1>4, <1>5, <1>6 DEF GroupsInv

LEMMA NextGroups == ASSUME GroupsInv, [Next]_vars PROVE GroupsInv'
<1>1. CASE Next
    <2>1. PICK p \in Peers : Steps(p)
        BY <1>1, NextSteps DEF GroupsInv
    <2> QED
        BY <2>1, NextType, NextConsent, NextReach, NextUnread, NextRoster DEF GroupsInv
<1>2. CASE UNCHANGED vars
    <2>1. /\ UNCHANGED <<contacts, group, declined, conv, net, creator, crashes, texts>>
          /\ UNCHANGED <<editors, shrunk, heard, consented, unseen, severed>>
        BY <1>2 DEF vars
    <2>2. TypeInv'
        BY <2>1 DEF GroupsInv, TypeInv
    <2>3. ConsentInv'
        BY <2>1 DEF GroupsInv, ConsentInv, Consent
    <2>4. ReachInv' /\ UnreadInv'
        BY <2>1 DEF GroupsInv, ReachInv, UnreadInv
    <2>5. RosterInv'
        <3>1. Rosters' = Rosters
            BY <2>1 DEF Rosters
        <3> QED
            BY <2>1, <3>1 DEF GroupsInv, RosterInv
    <2> QED
        BY <2>2, <2>3, <2>4, <2>5 DEF GroupsInv
<1> QED
    BY <1>1, <1>2

LEMMA GroupsInvariant == Spec => []GroupsInv
    BY InitGroups, NextGroups, PTL DEF Spec

\* What was declined stays gone, and nobody is a member who did not create or
\* accept the group, for any number of peers and messages.
THEOREM GroupsConsent == Spec => []Consent
<1>1. GroupsInv => Consent
    BY DEF GroupsInv, ConsentInv
<1> QED
    BY <1>1, GroupsInvariant, PTL

\* Whoever is on a roster with keys is a contact that can be written to, unless
\* he was deleted, or lost to a failing contacts' file, and has not become an
\* active contact again since.
THEOREM GroupsFanoutReaches == Spec => []FanoutReaches
<1>1. ASSUME GroupsInv PROVE FanoutReaches
    <2> SUFFICES ASSUME NEW p \in Peers, group[p] # None, NEW q \in Dids(group[p].members) \ {p},
                        roster_member(q) \in Range(group[p].members)
                 PROVE  contacts[p][q].active \/ <<p, q>> \in severed
        BY DEF FanoutReaches
    <2>1. group[p].members \in Seq(GroupMember) /\ Reached(p, group[p].members, contacts[p], severed)
        BY <1>1 DEF GroupsInv, TypeInv, ReachInv, Group
    <2>2. PICK i \in 1..Len(group[p].members) : group[p].members[i] = roster_member(q)
        BY <2>1 DEF Range
    <2>3. group[p].members[i].keyed /\ group[p].members[i].did = q
        BY <2>2 DEF roster_member
    <2> QED
        BY <2>1, <2>2, <2>3 DEF Reached
<1> QED
    BY <1>1, GroupsInvariant, PTL

\* The unread count never exceeds what came in and falls short of it by no more
\* than one for each operation that was cut off; no line shows twice.
THEOREM GroupsUnreadCounts == Spec => []UnreadCounts
<1>1. ASSUME GroupsInv PROVE UnreadCounts
    <2> SUFFICES ASSUME NEW p \in Peers, group[p] # None
                 PROVE  /\ group[p].unread <= unseen[p]
                        /\ unseen[p] <= group[p].unread + crashes
                        /\ \A i, j \in DOMAIN conv[p] : conv[p][i] = conv[p][j] => i = j
        BY DEF UnreadCounts
    <2>1. Counted(group[p], unseen[p], crashes) /\ Plain(conv[p], texts) /\ conv[p] \in Seq(Nat)
        BY <1>1 DEF GroupsInv, UnreadInv, TypeInv
    <2> QED
        BY <2>1 DEF Counted, Plain
<1> QED
    BY <1>1, GroupsInvariant, PTL

\* A set of peers with one element at most.
LEMMA OneAtMost ==
    ASSUME NEW E \in SUBSET Peers, Cardinality(E) <= 1
    PROVE  \A a, b \in E : a = b
<1>1. IsFiniteSet(E)
    BY GroupsConstants, FS_Subset
<1>2. Cardinality(E) \in Nat
    BY <1>1, FS_CardinalityType
<1>3. CASE Cardinality(E) = 0
    BY <1>1, <1>3, FS_EmptySet
<1>4. CASE Cardinality(E) = 1
    BY <1>1, <1>4, FS_Singleton
<1> QED
    BY <1>2, <1>3, <1>4

\* While one peer edits the roster, keeps the group and only adds, no peer falls
\* behind a roster it has worked in and no two rosters fork, whatever order
\* announcements come in.
THEOREM GroupsNoRosterLost == Spec => []NoRosterLost
<1>1. ASSUME GroupsInv PROVE NoRosterLost
    <2> SUFFICES ASSUME ~shrunk, Cardinality(editors) <= 1
                 PROVE  /\ \A p \in Peers : group[p] # None =>
                              \A n \in heard[p] : n <= Len(group[p].members)
                        /\ \A p, q \in Peers : group[p] # None /\ group[q] # None =>
                              \/ IsPrefix(group[p].members, group[q].members)
                              \/ IsPrefix(group[q].members, group[p].members)
        BY DEF NoRosterLost
    <2>1. \A a, b \in editors : a = b
        BY <1>1, OneAtMost DEF GroupsInv, TypeInv
    <2>2. \A p \in Peers : group[p] # None => \A n \in heard[p] : n <= Len(group[p].members)
        BY <1>1 DEF GroupsInv, RosterInv, Kept
    <2>3. ASSUME NEW p \in Peers, NEW q \in Peers, group[p] # None, group[q] # None
          PROVE  \/ IsPrefix(group[p].members, group[q].members)
                 \/ IsPrefix(group[q].members, group[p].members)
        <3> DEFINE a == group[p].members
                   b == group[q].members
        <3>1. a \in Rosters /\ b \in Rosters /\ a \in Seq(GroupMember) /\ b \in Seq(GroupMember)
            BY <1>1, <2>3 DEF Rosters, GroupsInv, TypeInv, Group
        <3>2. Agree(Rosters, editors, group)
            BY <1>1 DEF GroupsInv, RosterInv
        <3> HIDE DEF a, b
        <3>3. CASE editors = {}
            <4>1. a = b /\ Begins(a, a)
                BY <3>1, <3>2, <3>3, BeginsItself DEF Agree
            <4>2. IsPrefix(a, b) \/ IsPrefix(b, a)
                BY <4>1, <3>1, BeginsComparable
            <4> QED
                BY <4>2 DEF a, b
        <3>4. ASSUME NEW e \in editors PROVE IsPrefix(a, b) \/ IsPrefix(b, a)
            <4>1. group[e] # None /\ Begins(a, group[e].members) /\ Begins(b, group[e].members)
                BY <2>1, <3>1, <3>2 DEF Agree
            <4>2. group[e].members \in Seq(GroupMember)
                BY <1>1, <4>1 DEF GroupsInv, TypeInv, Group
            <4> QED
                BY <4>1, <4>2, <3>1, BeginsComparable
        <3> QED
            BY <3>3, <3>4 DEF a, b
    <2> QED
        BY <2>2, <2>3
<1> QED
    BY <1>1, GroupsInvariant, PTL

=============================================================================
