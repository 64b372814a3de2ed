---------------------------- MODULE SocialGroups ----------------------------
(***************************************************************************)
(* The group chats of hey-social (hey-social/src/api/groups.rs), which are *)
(* not those of the shared engine: a group event is signed, sealed once    *)
(* per member and published on the topic "hey-v0/dm/<did>" of each member; *)
(* receive_event makes the group up from the roster the event carries.     *)
(*                                                                         *)
(* What decides whether an event arrives is which topics a poll drains, so *)
(* topics are modelled as values: the posts topic of a user, his follow    *)
(* inbox, the queue of a pair, and his DM topic.  The overlay itself is    *)
(* reliable here: an event published on a topic is in its log for good.    *)
(* Names, previews and the order of the list are left out; a text is the   *)
(* number of the message.                                                  *)
(***************************************************************************)
EXTENDS Naturals, FiniteSets, Sequences, TLC

CONSTANTS Users,
          Following,   \* Following[u]: the users u follows
          Contacts,    \* Contacts[u]: the DM contacts of u
          MaxGroups,   \* bound: groups created
          MaxSends,    \* bound: messages sent
          MaxFaults,   \* bound: failing encryptions, signatures and openings
          None

Gids == 1..MaxGroups
Panes == {"dialog", "composer"}   \* what can have a fan-out under way

\* The topics of the program.
PostsOf(u) == [kind |-> "posts", did |-> u]
FollowInbox(u) == [kind |-> "follow", did |-> u]
PairQueue(u, v) == [kind |-> "q", did |-> <<u, v>>]
DmTopic(u) == [kind |-> "dm", did |-> u]
Topics == UNION {{PostsOf(u), FollowInbox(u), DmTopic(u)} : u \in Users}
            \cup {PairQueue(u, v) : u \in Users, v \in Users}

VARIABLES groups,    \* groups[u]: groups/index.json, by group id
          lines,     \* lines[u][g]: the conversation of g, what u sees
          keys,      \* keys[u]: users whose public keys u has cached
          notes,     \* notes[u]: notifications of group messages
          selected,  \* selected[u]: the members ticked in the new-group dialog
          fan,       \* fan[u][x]: the fan-out pane x is in
          log,       \* log[t]: what was published on topic t
          cursor,    \* cursor[u][t]: how much of it u has drained
          made,      \* groups created so far
          sent,      \* messages sent so far
          faults     \* failures so far

vars == <<groups, lines, keys, notes, selected, fan, log, cursor, made, sent, faults>>
received == <<groups, lines, keys, notes>>

Init ==
    /\ groups = [u \in Users |-> << >>]
    /\ lines = [u \in Users |-> [g \in Gids |-> {}]]
    /\ keys = [u \in Users |-> {}]
    /\ notes = [u \in Users |-> 0]
    /\ selected = [u \in Users |-> {}]
    /\ fan = [u \in Users |-> [x \in Panes |-> None]]
    /\ log = [t \in Topics |-> << >>]
    /\ cursor = [u \in Users |-> [t \in Topics |-> 0]]
    /\ made = 0 /\ sent = 0 /\ faults = 0

Fails == faults < MaxFaults /\ faults' = faults + 1

-----------------------------------------------------------------------------
(* Creating a group and sending to it.                                     *)

\* The dialog: a contact is ticked or unticked, any DID may be pasted.
toggle(u, d) ==
    /\ d \in Contacts[u]
    /\ selected' = [selected EXCEPT ![u] = IF d \in @ THEN @ \ {d} ELSE @ \cup {d}]
    /\ UNCHANGED <<received, fan, log, cursor, made, sent, faults>>

add_extra(u, d) ==
    /\ selected' = [selected EXCEPT ![u] = @ \cup {d}]
    /\ UNCHANGED <<received, fan, log, cursor, made, sent, faults>>

\* send_group_event_with_attachments, its start: the group as it was read.
StartFan(u, x, g, members, type, text) ==
    fan' = [fan EXCEPT ![u][x] =
              [group |-> g, members |-> members, type |-> type, text |-> text,
               left |-> members \ {u}]]

\* create_group: the roster has no creator in it.
create_group(u, members) ==
    LET all == members \ {u}
    IN  /\ all # {}
        /\ made < MaxGroups /\ made' = made + 1
        /\ groups' = [groups EXCEPT ![u] =
              (made' :> [members |-> all, creator |-> u, unread |-> 0]) @@ @]
        /\ StartFan(u, "dialog", made', all, "group.create.v1", None)
        /\ UNCHANGED <<lines, keys, notes, selected, log, cursor, sent, faults>>

do_create(u) == fan[u]["dialog"] = None /\ create_group(u, selected[u])

\* send_message_inner: the line is written before anything is published.
send_message(u, g) ==
    /\ g \in DOMAIN groups[u]
    /\ sent < MaxSends /\ sent' = sent + 1
    /\ lines' = [lines EXCEPT ![u][g] = @ \cup {[text |-> sent', from |-> u, sealed |-> TRUE]}]
    /\ StartFan(u, "composer", g, groups[u][g].members, "group.message.v1", sent')
    /\ UNCHANGED <<groups, keys, notes, selected, log, cursor, made, faults>>

\* The conversation page, one message at a time.
send(u, g) == fan[u]["composer"] = None /\ send_message(u, g)

\* A fan-out goes on with the members left; the dialog closes with its last.
FanNext(u, x, m) ==
    LET left == fan[u][x].left \ {m}
    IN  /\ fan' = [fan EXCEPT ![u][x] = IF left = {} THEN None ELSE [@ EXCEPT !.left = left]]
        /\ selected' = IF x = "dialog" /\ left = {} THEN [selected EXCEPT ![u] = {}] ELSE selected

\* One member's copy: an envelope when his keys are cached, else plain text.
PublishTo(u, x, m) ==
    /\ fan[u][x] # None /\ m \in fan[u][x].left
    /\ log' = [log EXCEPT ![DmTopic(m)] = Append(@,
                 [type |-> fan[u][x].type, group |-> fan[u][x].group,
                  members |-> fan[u][x].members, from |-> u,
                  text |-> fan[u][x].text, sealed |-> m \in keys[u]])]
    /\ FanNext(u, x, m)
    /\ UNCHANGED <<received, cursor, made, sent, faults>>

\* Sealing or signing a copy fails: that member is passed over.
Skip(u, x, m) ==
    /\ fan[u][x] # None /\ m \in fan[u][x].left
    /\ Fails
    /\ FanNext(u, x, m)
    /\ UNCHANGED <<received, log, cursor, made, sent>>

-----------------------------------------------------------------------------
(* Receiving.                                                              *)

extra_topics(u) == {PostsOf(v) : v \in {u} \cup Following[u]} \cup {FollowInbox(u)}
my_v2_topics(u) == {PairQueue(u, v) : v \in Contacts[u]}

\* upsert_group: the union of the rosters; sender and receiver belong to it.
upsert_group(u, e) ==
    LET members == e.members \cup {e.from, u}
        unread == IF e.type = "group.message.v1" THEN 1 ELSE 0
        known == e.group \in DOMAIN groups[u]
        new == [members |-> members, creator |-> e.from, unread |-> unread]
    IN  groups' = [groups EXCEPT ![u] =
            IF known THEN [@ EXCEPT ![e.group].members = @ \cup members,
                                    ![e.group].unread = @ + unread]
            ELSE (e.group :> new) @@ @]

cache_peer_keys(u, did) == keys' = [keys EXCEPT ![u] = @ \cup {did}]

\* The identity provider opens an envelope, or fails to.
open_group_envelope(e, opens) ==
    IF opens THEN UNCHANGED faults
    ELSE e.type = "group.message.v1" /\ e.sealed /\ Fails

\* receive_event: the group is updated before its envelope is opened.
receive_event(u, e, opens) ==
    /\ cache_peer_keys(u, e.from)
    /\ upsert_group(u, e)
    /\ open_group_envelope(e, opens)
    /\ lines' = IF e.type = "group.message.v1" /\ opens
                THEN [lines EXCEPT ![u][e.group] =
                        @ \cup {[text |-> e.text, from |-> e.from, sealed |-> e.sealed]}]
                ELSE lines

\* handle_group: the notification is pushed whatever came of the event.
handle_group(u, e, opens) ==
    /\ receive_event(u, e, opens)
    /\ notes' = [notes EXCEPT ![u] = @ + (IF e.type = "group.message.v1" THEN 1 ELSE 0)]

\* A poll takes the next event of a topic it drains; its own events are skipped.
Poll(u, t) ==
    /\ t \in extra_topics(u) \cup my_v2_topics(u)
    /\ cursor[u][t] < Len(log[t])
    /\ cursor' = [cursor EXCEPT ![u][t] = @ + 1]
    /\ LET e == log[t][cursor[u][t] + 1]
       IN  IF e.from = u THEN UNCHANGED <<received, faults>>
           ELSE \E opens \in BOOLEAN : handle_group(u, e, opens)
    /\ UNCHANGED <<selected, fan, log, made, sent>>

\* The conversation page of a group is opened.
mark_read(u, g) ==
    /\ g \in DOMAIN groups[u] /\ groups[u][g].unread > 0
    /\ groups' = [groups EXCEPT ![u][g].unread = 0]
    /\ UNCHANGED <<lines, keys, notes, selected, fan, log, cursor, made, sent, faults>>

-----------------------------------------------------------------------------
Click ==
    \E u \in Users :
        \/ \E d \in Users : toggle(u, d) \/ add_extra(u, d)
        \/ do_create(u)
        \/ \E g \in Gids : send(u, g) \/ mark_read(u, g)

Next ==
    \/ Click
    \/ \E u \in Users, x \in Panes, m \in Users : PublishTo(u, x, m) \/ Skip(u, x, m)
    \/ \E u \in Users, t \in Topics : Poll(u, t)

\* A fan-out the app has begun goes on; the poll loop of a user runs for ever.
Spec ==
    /\ Init /\ [][Next]_vars
    /\ \A u \in Users : WF_vars(\E x \in Panes, m \in Users : PublishTo(u, x, m))
    /\ \A u \in Users : WF_vars(\E t \in Topics : Poll(u, t))

-----------------------------------------------------------------------------
(* What create_group says: members see a new group in their own list.      *)

\* A group someone has created comes to be in the list of each of its members,
\* when no copy fails ("broadcast a creation marker so members see it in their
\* group list immediately", create_group).
MembersSeeGroup ==
    \A u \in Users, m \in Users, g \in Gids :
        (g \in DOMAIN groups[u] /\ m \in groups[u][g].members)
            ~> (g \in DOMAIN groups[m])
=============================================================================
