------------------------------- MODULE Groups -------------------------------
(***************************************************************************)
(* Group chats of hey-core/src/api/dms.rs, for one group: every peer keeps *)
(* its own record of it, and the roster travels inside every message, over *)
(* the pairwise channels, with no order between the channels.              *)
(*                                                                         *)
(* A peer works on one operation at a time, as the command line does; its  *)
(* storage writes happen in the order of the code, and an operation may be *)
(* cut off after any of them (the constant MaxCrashes).  What was sent is  *)
(* delivered late, in any order and, where the channel is not a ratchet,   *)
(* more than once; what the outbox and the ratchet do for that is in the   *)
(* modules Outbox and Ratchet.  A DID has one genuine key pair, so the     *)
(* branches of bootstrap_contact_from_keys for keys that differ from the   *)
(* pinned ones are never taken here.  Its calls on the contacts' file may  *)
(* fail, and the code goes on (the constant MaxLosses); calls on           *)
(* groups.json and declined-groups.json do not fail here.                  *)
(***************************************************************************)
EXTENDS Lists, Integers, FiniteSets, SequencesExt

CONSTANTS Peers,
          InitContacts,  \* InitContacts[p][q]: what p knows of q: NoContact, Legacy or Paired
          MaxTexts,      \* bound: texts sent to the group
          MaxEdits,      \* bound: additions, removals and changes of the group's bio
          MaxLocal,      \* bound: accepts, declines and deletions
          MaxCrashes,    \* bound: operations cut off
          MaxLosses,     \* bound: contacts deleted, rosters taken in while the contacts' file fails
          Mixed,         \* bound: do these come in one behaviour with the two above?
          None

\* A contact record: are its keys and queues there (is_v2_active), and does a
\* ratchet run over it?
NoContact == [active |-> FALSE, ratchet |-> FALSE, there |-> FALSE]
Legacy    == [active |-> FALSE, ratchet |-> FALSE, there |-> TRUE]
Pinned    == [active |-> TRUE,  ratchet |-> FALSE, there |-> TRUE]
Paired    == [active |-> TRUE,  ratchet |-> TRUE,  there |-> TRUE]

\* A roster entry, has it keys?, and the record of dm/groups.json.
GroupMember == [did : Peers, keyed : BOOLEAN]
Group == [members : Seq(GroupMember), bio : 0..1, pending : BOOLEAN, unread : Nat]

ASSUME GroupsConstants ==
    /\ IsFiniteSet(Peers)
    /\ None \notin Peers \cup Group
    /\ InitContacts \in [Peers -> [Peers -> {NoContact, Legacy, Paired}]]
    /\ \A n \in {MaxTexts, MaxEdits, MaxLocal, MaxCrashes, MaxLosses} : n \in Nat
    /\ Mixed \in BOOLEAN

VARIABLES contacts,  \* contacts[p][q]: p's contact record of q
          group,     \* group[p]: p's record in dm/groups.json, or None
          declined,  \* the peers whose dm/declined-groups.json names the group
          conv,      \* conv[p]: ids of the lines of p's group conversation
          net,       \* sealed messages on their way; they are never taken out
          consumed,  \* ratchet messages whose key the receiver has used up
          creator,   \* who created the group, or None
          crashes,
          \* Bookkeeping:
          texts, edits, local, losses,
          editors,   \* who changed a roster after the group was created
          shrunk,    \* was anybody removed, or the group deleted, or declined by an editor?
          heard,     \* heard[p]: lengths of the rosters p has worked in
          consented, \* who created or accepted the group
          unseen,    \* unseen[p]: lines that came in since p last read the group
          banned,    \* <<p, q>>: p removed q, or was told so by the owner
          severed    \* <<p, q>>: p deleted q, or the contacts' file failed over q, and q has
                     \* not become an active contact of p since

vars == <<contacts, group, declined, conv, net, consumed, creator, crashes, texts, edits,
          local, losses, editors, shrunk, heard, consented, unseen, banned, severed>>
books == <<losses, editors, shrunk, heard, consented, unseen, banned, severed>>

Init ==
    /\ contacts = InitContacts
    /\ group = [p \in Peers |-> None]
    /\ declined = {} /\ net = {} /\ consumed = {} /\ creator = None
    /\ conv = [p \in Peers |-> <<>>]
    /\ crashes = 0 /\ texts = 0 /\ edits = 0 /\ local = 0 /\ losses = 0
    /\ editors = {} /\ shrunk = FALSE /\ consented = {} /\ banned = {} /\ severed = {}
    /\ heard = [p \in Peers |-> {}]
    /\ unseen = [p \in Peers |-> 0]

Dids(members) == {members[i].did : i \in DOMAIN members}

\* May contacts be lost, may an operation be cut off or be a local one, in this
\* behaviour?
MayLose == Mixed \/ (local = 0 /\ crashes = 0)
MayCut == Mixed \/ losses = 0

\* An operation runs to its end, or is cut off.
RunsOrDies(toTheEnd) ==
    IF toTheEnd THEN UNCHANGED crashes
    ELSE crashes < MaxCrashes /\ MayCut /\ crashes' = crashes + 1

-----------------------------------------------------------------------------
(* Sending to the members.                                                 *)

\* The roster and the bio ride in every message.
group_ctx(g) == [members |-> g.members, bio |-> g.bio]

\* send_body_to_contact, as far as groups see it: who is no active contact is
\* passed over in silence.
SealedTo(p, q, ctx, text) ==
    IF contacts[p][q].active
    THEN {[from |-> p, to |-> q, ctx |-> ctx, text |-> text, ratchet |-> contacts[p][q].ratchet]}
    ELSE {}

\* One message to each of the first n members of the roster.
FanOut(p, g, text, n) ==
    UNION {SealedTo(p, g.members[i].did, group_ctx(g), text) :
              i \in {k \in 1..n : g.members[k].did # p}}

\* A roster entry of an active contact; my own has keys if the identity
\* provider answers.
roster_member(q) == [did |-> q, keyed |-> TRUE]
my_roster_member(p, answers) == [did |-> p, keyed |-> answers]

\* create_group: everybody picked must be an active contact.
create_group(p, dids, answers, n) ==
    LET g == [members |-> <<my_roster_member(p, answers)>> \o
                          [i \in DOMAIN dids |-> roster_member(dids[i])],
              bio |-> 0, pending |-> FALSE, unread |-> 0]
    IN  /\ creator = None
        /\ \A i \in DOMAIN dids : contacts[p][dids[i]].active
        /\ dids # <<>>
        /\ n \in 0..Len(g.members) /\ RunsOrDies(n = Len(g.members))
        /\ creator' = p
        /\ group' = [group EXCEPT ![p] = g]
        /\ net' = net \cup FanOut(p, g, 0, n)
        /\ consented' = consented \cup {p}
        /\ heard' = [heard EXCEPT ![p] = {Len(g.members)}]
        /\ UNCHANGED <<contacts, declined, conv, consumed, texts, edits, local, losses, editors,
                       shrunk, unseen, banned, severed>>

\* The contact picker offers active contacts that are not in the group yet.
ContactPicker(p, exclude) ==
    {SetToSeq(S) : S \in SUBSET {q \in Peers \ (exclude \cup {p}) : contacts[p][q].active}}

\* The new-group dialog, and the command create-group, want at least one pick.
NewGroup(p) ==
    \E dids \in ContactPicker(p, {}) \ {<<>>}, answers \in BOOLEAN, n \in 0..Cardinality(Peers) :
        create_group(p, dids, answers, n)

\* send_group_message_inner: my own line, then the fan-out of the record read
\* before it.  A pending group can be written to as well.
send_group_message_inner(p, k) ==
    LET id == texts + 1
    IN  /\ group[p] # None /\ texts < MaxTexts
        /\ k \in 0..Len(group[p].members) /\ RunsOrDies(k = Len(group[p].members))
        /\ texts' = id
        /\ conv' = [conv EXCEPT ![p] = Append(@, id)]
        /\ net' = net \cup FanOut(p, group[p], id, k)
        /\ UNCHANGED <<contacts, group, declined, consumed, creator, edits, local, books>>

\* A changed record is written and then announced to its members.
Announced(p, g, n) ==
    /\ edits < MaxEdits /\ edits' = edits + 1
    /\ n \in 0..Len(g.members) /\ RunsOrDies(n = Len(g.members))
    /\ group' = [group EXCEPT ![p] = g]
    /\ net' = net \cup FanOut(p, g, 0, n)
    /\ heard' = [heard EXCEPT ![p] = @ \cup {Len(g.members)}]
    /\ UNCHANGED <<contacts, declined, conv, consumed, creator, texts, local, losses, consented,
                   unseen, severed>>

\* Those of the picked ones who are not on the roster.
NewOnes(p, dids) == Retained(dids, Peers \ Dids(group[p].members))

\* add_group_members: anybody who has the group may add.
add_group_members(p, dids, n) ==
    LET new == NewOnes(p, dids)
    IN  /\ \A i \in DOMAIN new : contacts[p][new[i]].active
        /\ Announced(p, [group[p] EXCEPT !.members = @ \o [i \in DOMAIN new |-> roster_member(new[i])]], n)
        /\ editors' = editors \cup {p}
        /\ banned' = {b \in banned : \A i \in DOMAIN new : new[i] # b[2]}
        /\ UNCHANGED shrunk

\* The add-members dialog hides who was a member when it was opened; the
\* roster may have grown since.
AddMembers(p) ==
    /\ group[p] # None
    /\ \E k \in DOMAIN group[p].members, n \in 0..Cardinality(Peers) :
          \E dids \in ContactPicker(p, Dids(SubSeq(group[p].members, 1, k))) \ {<<>>} :
             add_group_members(p, dids, n)

\* The roster without the entries of one member.
Without(members, q) == Retained(members, {m \in Range(members) : m.did # q})

\* remove_group_member: owner only, never oneself.
remove_group_member(p, q, n) ==
    /\ group[p] # None /\ creator = p /\ p # q
    /\ q \in Dids(group[p].members)
    /\ Announced(p, [group[p] EXCEPT !.members = Without(@, q)], n)
    /\ editors' = editors \cup {p} /\ shrunk' = TRUE
    /\ banned' = banned \cup {<<p, q>>}

\* set_group_meta: owner only.
set_group_meta(p, n) ==
    /\ group[p] # None /\ creator = p
    /\ Announced(p, [group[p] EXCEPT !.bio = 1], n)
    /\ UNCHANGED <<editors, shrunk, banned>>

-----------------------------------------------------------------------------
(* Receiving.                                                              *)

\* Mutant of bootstrap_contact_from_keys: a record without keys stays as it is.
bootstrap_unknown_only(c) == IF c.there THEN c ELSE Pinned

\* bootstrap_contact_from_keys with keys out of a roster: an unknown member
\* becomes a contact, a legacy one gets its keys, everybody else stays.
bootstrap_contact_from_keys(c) == IF c.active THEN c ELSE Pinned

\* Every entry of a roster that has keys and is somebody else's reads and
\* writes the contacts' file anew.  Of the first n entries, the writes of those
\* in `failed` are lost, and entry `wiped` took the file for empty when its read
\* failed, so that its write left nothing but its own contact.
Fine == [wiped |-> 0, failed |-> {}]
FileFaults(p, members, n) ==
    LET touching == {i \in 1..n : members[i].keyed /\ members[i].did # p}
    IN  IF losses >= MaxLosses \/ ~MayLose THEN {}
        ELSE {f \in [wiped : touching \cup {0}, failed : SUBSET touching] :
                 f # Fine /\ \A i \in f.failed : f.wiped < i}

\* bootstrap_roster_contact for the first n entries; one without keys is
\* passed over, and nobody is a contact of himself.
Bootstrapped(p, members, n, f) ==
    [q \in Peers |->
        LET c == IF f.wiped = 0 THEN contacts[p][q] ELSE NoContact
        IN  IF q # p /\ \E i \in 1..n : /\ f.wiped <= i /\ i \notin f.failed
                                        /\ members[i] = roster_member(q)
            THEN bootstrap_contact_from_keys(c) ELSE c]

\* Those of the pairs who are no active contacts after the step.
Apart(pairs) == {s \in pairs : ~contacts'[s[1]][s[2]].active}

\* Mutant of Adopted: whatever roster comes in replaces the one that is there.
AdoptedAlways(g, ctx) == ctx.members

\* The roster a known group is left with: a longer one replaces it.
Adopted(g, ctx) == IF Len(ctx.members) > Len(g.members) THEN ctx.members ELSE g.members

\* upsert_group_from_ctx, its write of groups.json.
Upserted(p, ctx) ==
    IF group[p] = None
    THEN [members |-> ctx.members, bio |-> ctx.bio, pending |-> TRUE, unread |-> 0]
    ELSE [group[p] EXCEPT !.members = Adopted(group[p], ctx),
                          !.bio = IF ctx.bio = 0 THEN @ ELSE ctx.bio]

\* Mutant of IsRedelivery: the dedup id is not looked up.
IsRedeliveryNever(p, w) == FALSE

\* Does the conversation hold this message already?
IsRedelivery(p, w) == \E i \in DOMAIN conv[p] : conv[p][i] = w.text

\* touch_group for an incoming line.
touch_group(g, unreadDelta) == [g EXCEPT !.unread = @ + unreadDelta]

\* Can p take w at all?  Its sender must be an active contact; a ratchet
\* message opens once, and from a ratchet contact nothing else is taken.
Accepts(p, w) ==
    LET c == contacts[p][w.from]
    IN  /\ w.to = p /\ c.active /\ c.ratchet = w.ratchet
        /\ w.ratchet => w \notin consumed

\* Mutant of read_declined_groups: it is never consulted.
DeclinedForgotten(p) == FALSE

\* read_declined_groups: what concerns a declined group is refused before
\* anything is written, the used-up ratchet key included.
read_declined_groups(p) == p \in declined

\* store_incoming_group_message and what its caller does: contacts, record,
\* line, unread count, ratchet state, in this order, the last `done` of them
\* missing when the peer dies on the way.
store_incoming_group_message(p, w, n, done, f) ==
    LET appends == w.text # 0 /\ ~IsRedelivery(p, w)
        g == Upserted(p, w.ctx)
        known == {q \in Peers : contacts[p][q].active \/ q \in Dids(w.ctx.members)}
    IN  /\ Accepts(p, w) /\ ~read_declined_groups(p)
        /\ n \in 0..Len(w.ctx.members) /\ done \in 0..4
        /\ done > 0 => n = Len(w.ctx.members)
        /\ f \in {Fine} \cup FileFaults(p, w.ctx.members, n)
        /\ RunsOrDies(done = 4)
        /\ losses' = losses + (IF f = Fine THEN 0 ELSE 1)
        /\ contacts' = [contacts EXCEPT ![p] = Bootstrapped(p, w.ctx.members, n, f)]
        /\ severed' = Apart(severed \cup (IF f = Fine THEN {} ELSE {p} \X known))
        /\ group' = IF done = 0 THEN group
                    ELSE [group EXCEPT ![p] = IF appends /\ done > 2 THEN touch_group(g, 1) ELSE g]
        /\ conv' = IF appends /\ done > 1 THEN [conv EXCEPT ![p] = Append(@, w.text)] ELSE conv
        /\ consumed' = IF done = 4 /\ w.ratchet THEN consumed \cup {w} ELSE consumed
        /\ unseen' = IF appends /\ done > 1 THEN [unseen EXCEPT ![p] = @ + 1] ELSE unseen
        /\ heard' = IF done = 0 THEN heard
                    ELSE [heard EXCEPT ![p] = @ \cup {Len(w.ctx.members)}]
        /\ banned' = banned \cup {<<p, b[2]>> : b \in {x \in banned : done > 0 /\ x[1] = w.from
                                    /\ w.from = creator /\ x[2] \notin Dids(w.ctx.members)}}
        /\ UNCHANGED <<declined, net, creator, texts, edits, local, editors, shrunk, consented>>

-----------------------------------------------------------------------------
(* What the user does to the record.                                       *)

Locally == local < MaxLocal /\ MayCut /\ local' = local + 1

\* accept_group.
accept_group(p) ==
    /\ group[p] # None /\ group[p].pending /\ Locally
    /\ group' = [group EXCEPT ![p].pending = FALSE]
    /\ consented' = consented \cup {p}
    /\ UNCHANGED <<contacts, declined, conv, net, consumed, creator, crashes, texts, edits,
                   losses, editors, shrunk, heard, unseen, banned, severed>>

\* decline_group: the record goes first, the id joins the declined ones then.
decline_group(p, remembers) ==
    /\ group[p] # None /\ group[p].pending /\ Locally
    /\ RunsOrDies(remembers)
    /\ group' = [group EXCEPT ![p] = None]
    /\ declined' = IF remembers THEN declined \cup {p} ELSE declined
    /\ unseen' = [unseen EXCEPT ![p] = 0] /\ heard' = [heard EXCEPT ![p] = {}]
    /\ shrunk' = (shrunk \/ p \in editors)
    /\ UNCHANGED <<contacts, conv, net, consumed, creator, texts, edits, losses, editors,
                   consented, banned, severed>>

\* delete_group: the record goes, then the conversation.
delete_group(p, erases) ==
    /\ group[p] # None /\ Locally
    /\ RunsOrDies(erases)
    /\ group' = [group EXCEPT ![p] = None]
    /\ conv' = IF erases THEN [conv EXCEPT ![p] = <<>>] ELSE conv
    /\ unseen' = [unseen EXCEPT ![p] = 0] /\ heard' = [heard EXCEPT ![p] = {}]
    /\ consented' = consented \ {p}
    /\ shrunk' = TRUE
    /\ UNCHANGED <<contacts, declined, net, consumed, creator, texts, edits, losses, editors,
                   banned, severed>>

\* delete_conversation of dms.rs, as far as groups see it: the contact goes,
\* with its keys, queues and ratchet; groups.json is left alone.
delete_conversation(p, q) ==
    /\ contacts[p][q].there
    /\ losses < MaxLosses /\ MayLose /\ losses' = losses + 1
    /\ contacts' = [contacts EXCEPT ![p][q] = NoContact]
    /\ severed' = severed \cup {<<p, q>>}
    /\ UNCHANGED <<group, declined, conv, net, consumed, creator, crashes, texts, edits, local,
                   editors, shrunk, heard, consented, unseen, banned>>

\* mark_group_read.
mark_group_read(p) ==
    /\ group[p] # None /\ group[p].unread # 0
    /\ group' = [group EXCEPT ![p].unread = 0]
    /\ unseen' = [unseen EXCEPT ![p] = 0]
    /\ UNCHANGED <<contacts, declined, conv, net, consumed, creator, crashes, texts, edits,
                   local, losses, editors, shrunk, heard, consented, banned, severed>>

Next ==
    \/ \E p \in Peers : NewGroup(p) \/ AddMembers(p) \/ accept_group(p) \/ mark_group_read(p)
    \/ \E p \in Peers, n \in 0..Cardinality(Peers) :
          \/ send_group_message_inner(p, n) \/ set_group_meta(p, n)
          \/ \E q \in Peers : remove_group_member(p, q, n)
    \/ \E p \in Peers : \E w \in {m \in net : Accepts(p, m)}, done \in 0..4 :
          \E n \in 0..Len(w.ctx.members) : \E f \in {Fine} \cup FileFaults(p, w.ctx.members, n) :
             store_incoming_group_message(p, w, n, done, f)
    \/ \E p, q \in Peers : delete_conversation(p, q)
    \/ \E p \in Peers, whole \in BOOLEAN : decline_group(p, whole) \/ delete_group(p, whole)

Spec == Init /\ [][Next]_vars

-----------------------------------------------------------------------------
(* Properties.                                                             *)

\* Whoever is on a peer's roster with keys can be written to, members he had
\* never met included, and so can a member he deleted or lost to a failing
\* contacts' file as soon as one roster naming that member has come in whole.
\* The excuse is the code's own: until then the fan-out passes the member over.
FanoutReaches ==
    \A p \in Peers : group[p] # None =>
        \A q \in Dids(group[p].members) \ {p} :
            roster_member(q) \in Range(group[p].members) =>
                contacts[p][q].active \/ <<p, q>> \in severed

\* A group that was declined stays gone however many members still write to
\* it, and no message makes a group more than pending: only its user does.
Consent ==
    \A p \in Peers :
        /\ p \in declined => group[p] = None
        /\ group[p] # None /\ ~group[p].pending => p \in consented

\* As long as one peer alone edits the roster, keeps the group and only adds,
\* and nobody deletes the group, a peer that has worked in a roster never falls
\* behind it, in whatever order and how often announcements and texts carrying
\* older ones come in; and all rosters are prefixes of one another.
NoRosterLost ==
    ~shrunk /\ Cardinality(editors) <= 1 =>
        /\ \A p \in Peers : group[p] # None => \A n \in heard[p] : n <= Len(group[p].members)
        /\ \A p, q \in Peers : group[p] # None /\ group[q] # None =>
             LET a == group[p].members
                 b == group[q].members
             IN  IsPrefix(a, b) \/ IsPrefix(b, a)

\* The unread count is the number of lines that came in since the group was
\* last read, redeliveries not counted; each operation that was cut off may
\* leave it one short, never one above.
UnreadCounts ==
    \A p \in Peers : group[p] # None =>
        /\ group[p].unread <= unseen[p]
        /\ unseen[p] <= group[p].unread + crashes
        /\ \A i, j \in DOMAIN conv[p] : conv[p][i] = conv[p][j] => i = j

\* What remove_group_member says of a removed member: nobody who took part in
\* the removal, the owner and the members he announced it to, still has the
\* removed one on the roster he fans out to.
RemovalSticks ==
    \A b \in banned : group[b[1]] # None => b[2] \notin Dids(group[b[1]].members)
=============================================================================
