------------------------------- MODULE Invite -------------------------------
(***************************************************************************)
(* Contacts of hey-core/src/api/dms.rs: how two people who share an invite *)
(* link become contacts, which queue each listens and sends on, how queues *)
(* rotate, and how an invite or a conversation is withdrawn.               *)
(*                                                                         *)
(* A handler writes several files and publishes at its end, and nobody     *)
(* else sees what it does before that.  So a handler is one action, and    *)
(* `cut` says after how many of its writes the app died or a write failed. *)
(* Identities, queues and ratchet sessions are symbolic; the ratchet that  *)
(* a session starts is module Ratchet's.  Wires that were published stay   *)
(* in net: they may be delivered late, in any order, again, or never, and  *)
(* one wire stands for any number of messages alike.  The code looks for   *)
(* the first record that fits in a list sorted by last activity; here it   *)
(* may be any that fits.                                                   *)
(***************************************************************************)
EXTENDS Integers, FiniteSets, Functions

CONSTANTS Peers,
          Inviters,       \* peers that hand out invite links
          Pairings,       \* pairs <<mode of inviter, mode of accepter>> in use
          MaxLinks,       \* bound: links handed out
          MaxQueues,      \* bound: MaxQueues[p] queues are minted by p
          MaxMishaps,     \* bound: crashes and failing writes
          MaxRemovals,    \* bound: invites revoked and conversations deleted
          None

ASSUME InviteAssumption ==
    /\ Inviters \subseteq Peers
    /\ MaxQueues \in [Peers -> Nat]
    /\ {MaxLinks, MaxMishaps, MaxRemovals} \subseteq Nat

Modes == {"regular", "anonymous"}

VARIABLES contacts,   \* contacts[p]: the records of contacts.json
          ratchet,    \* ratchet[p]: per did (or placeholder) what dm/ratchet holds
          links,      \* the links handed out, to whoever got hold of them
          net,        \* every wire published
          minted,     \* minted[p]: queues p has drawn
          mishaps, removals,
          \* Bookkeeping:
          accepted,   \* the links accepted: as whom, of whom, for which session, and
                      \* whether after a deletion
          guests,     \* who was let in by which link
          revoked,    \* queues of links that were revoked
          lapsed,     \* queues retired for good: an invite's, or past the grace
          removed     \* removed[p]: dids whose conversation p deleted, not re-added

vars == <<contacts, ratchet, links, net, minted, mishaps, removals, accepted, guests, revoked,
          lapsed, removed>>

-----------------------------------------------------------------------------
(* Identities, queues, records.                                            *)

\* The did p presents: its own, or one drawn for this contact alone together
\* with its n-th queue (mint_anon_identity).
DidOf(p, mode, n) == <<"did", p, IF mode = "regular" THEN 0 ELSE n>>
RealDid(p) == DidOf(p, "regular", 0)
Owner(did) == did[2]

Queue(p, n) == <<"minted", p, n>>
PairQueue(recipient, sender) == <<"pair", recipient, sender>>
Placeholder(q) == <<"pending", q>>

\* Ratchet sessions: a fresh one per accepted link; a stashed prekey is none.
Session(link, q) == <<"session", link.q, q>>
Prekey == <<"prekey">>

IsActive(c) == c.status = "active"

OwnsInboundQueue(c, q) == c.myQ = q \/ \E r \in c.retired : r.q = q

OwnsInboundQueueWith(p, c, q) ==
    \/ OwnsInboundQueue(c, q)
    \/ c.mode = "regular" /\ q = PairQueue(RealDid(p), c.did)

\* my_v2_topics: the queues p polls.
Topics(p) ==
    UNION {{c.myQ} \cup {r.q : r \in {x \in c.retired : ~x.aged}}
             \cup IF c.mode = "regular" THEN {PairQueue(RealDid(p), c.did)} ELSE {} :
           c \in contacts[p]}

\* decrypt_via_for_contact and decrypt_via_for_queue: whose key opens what
\* comes in on q.  A queue no contact lists as its current one falls back to
\* the session's own identity.
KeyFor(p, q) ==
    IF \E c \in contacts[p] : c.myQ = q
    THEN (CHOOSE c \in contacts[p] : c.myQ = q).myDid
    ELSE RealDid(p)

\* send_body_to_contact: the queue a message to c goes to.
SendQueue(p, c) == IF c.mode = "regular" THEN PairQueue(c.did, RealDid(p)) ELSE c.theirQ

\* A wire: signed by from, sealed to the keys of seal, published on queue.
build_inner(kind, queue, from, seal, body, session) ==
    [kind |-> kind, queue |-> queue, from |-> from, seal |-> seal, body |-> body,
     session |-> session]

Welcome(from, to, theirQ, q) == build_inner("welcome", theirQ, from, to, q, None)

InviteLink(q, did, mode) == [q |-> q, did |-> did, mode |-> mode, expired |-> FALSE]
decode_invite_link(link) == link \in links /\ ~link.expired

Fails == mishaps < MaxMishaps /\ mishaps' = mishaps + 1
Completes(cut, writes) == IF cut = writes THEN UNCHANGED mishaps ELSE Fails

\* upsert_contact_record: by did.
Upserted(p, c) == [contacts EXCEPT ![p] = {x \in @ : x.did # c.did} \cup {c}]
Replaced(p, c, new) == [contacts EXCEPT ![p] = (@ \ {c}) \cup {new}]
WriteRatchet(p, did, s) ==
    [ratchet EXCEPT ![p] = [d \in DOMAIN @ \cup {did} |-> IF d = did THEN s ELSE @[d]]]
RemoveRatchets(p, dids) == [ratchet EXCEPT ![p] = Restrict(@, DOMAIN @ \ dids)]

Init ==
    /\ contacts = [p \in Peers |-> {}]
    /\ ratchet = [p \in Peers |-> <<>>]
    /\ links = {} /\ net = {}
    /\ minted = [p \in Peers |-> 0]
    /\ mishaps = 0 /\ removals = 0
    /\ accepted = {} /\ guests = {} /\ revoked = {} /\ lapsed = {}
    /\ removed = [p \in Peers |-> {}]

-----------------------------------------------------------------------------
(* Links.                                                                  *)

\* generate_invite: a pending contact, the prekey stash (whose write may fail
\* unnoticed), then the link.
GenerateInvite(p, mode, cut) ==
    /\ p \in Inviters /\ Cardinality(links) < MaxLinks /\ minted[p] < MaxQueues[p]
    /\ LET n == minted[p] + 1
           q == Queue(p, n)
       IN  /\ minted' = [minted EXCEPT ![p] = n]
           /\ contacts' = Upserted(p, [did |-> Placeholder(q), myQ |-> q, theirQ |-> None,
                                  status |-> "pending", mode |-> mode,
                                  myDid |-> DidOf(p, mode, n), capable |-> FALSE,
                                  timed |-> FALSE, retired |-> {}])
           /\ ratchet' = IF cut = 2 THEN WriteRatchet(p, Placeholder(q), Prekey) ELSE ratchet
           /\ links' = links \cup {InviteLink(q, DidOf(p, mode, n), mode)}
    /\ Completes(cut, 2)
    /\ UNCHANGED <<net, removals, accepted, guests, revoked, lapsed, removed>>

\* INVITE_TTL_MS goes by.
LinkExpires(link) ==
    /\ link \in links /\ ~link.expired
    /\ links' = (links \ {link}) \cup {[link EXCEPT !.expired = TRUE]}
    /\ UNCHANGED <<contacts, ratchet, net, minted, mishaps, removals, accepted, guests, revoked, lapsed,
                   removed>>

\* revoke_invite: the pending contact goes, then its prekey stash.
RevokeInvite(p, c, cut) ==
    /\ c \in contacts[p] /\ ~IsActive(c) /\ removals < MaxRemovals
    /\ removals' = removals + 1
    /\ contacts' = [contacts EXCEPT ![p] = @ \ {c}]
    /\ ratchet' = IF cut = 2 THEN RemoveRatchets(p, {c.did}) ELSE ratchet
    /\ revoked' = revoked \cup {c.myQ}
    /\ Completes(cut, 2)
    /\ UNCHANGED <<links, net, minted, accepted, guests, lapsed, removed>>

\* Mutant of IsContact: a link is accepted again on every click.
IsContactNever(p, did) == FALSE

\* Someone who is a contact already is not accepted again.
IsContact(p, did) == \E c \in contacts[p] : c.did = did /\ IsActive(c)

\* accept_invite: an active contact, the initiator's ratchet, the handshake.
AcceptInvite(p, link, mode, cut) ==
    /\ decode_invite_link(link)
    /\ link.did # RealDid(p)
    /\ <<link.mode, mode>> \in Pairings
    /\ ~IsContact(p, link.did)
    /\ minted[p] < MaxQueues[p]
    /\ LET n == minted[p] + 1
           q == Queue(p, n)
           me == DidOf(p, mode, n)
           s == Session(link, q)
       IN  /\ minted' = [minted EXCEPT ![p] = n]
           /\ contacts' = Upserted(p, [did |-> link.did, myQ |-> q, theirQ |-> link.q,
                                  status |-> "active", mode |-> mode, myDid |-> me,
                                  capable |-> TRUE, timed |-> FALSE, retired |-> {}])
           /\ ratchet' = IF cut > 1 THEN WriteRatchet(p, link.did, s) ELSE ratchet
           /\ net' = IF cut > 2
                     THEN net \cup {build_inner("handshake", link.q, me, link.did, q, s)}
                     ELSE net
           /\ accepted' = accepted \cup {[by |-> me, of |-> link.did, session |-> s,
                                         anew |-> link.did \in removed[p]]}
    /\ removed' = [removed EXCEPT ![p] = @ \ {link.did}]
    /\ Completes(cut, 3)
    /\ UNCHANGED <<links, removals, guests, revoked, lapsed>>

-----------------------------------------------------------------------------
(* Wires that come in (receive_v2_wire).  A batch drained before its queue *)
(* was retired is still handed on, so nothing here asks for Topics(p).     *)

Reaches(w, p) ==
    /\ w \in net
    /\ \/ w.queue[1] = "minted" /\ w.queue[2] = p
       \/ w.queue[1] = "pair" /\ w.queue[2] = RealDid(p)

\* The key chosen by the queue opens the wire; the sender signed it.
open_envelope(p, w) == w.seal = KeyFor(p, w.queue)

\* The session of the handshake, under the guest's did; the stash stays.
bootstrap_responder_ratchet(p, w) == WriteRatchet(p, w.from, w.session)

\* Mutant of Promoted: the pending record is copied, not moved.
PromotedCopy(p, c, new) == [contacts EXCEPT ![p] = @ \cup {new}]

\* The pending record leaves the list, the promoted one joins it.
Promoted(p, c, new) == Replaced(p, c, new)

\* receive_handshake: the responder's ratchet under the guest's did, then the
\* promoted contact with a new queue, then the stash goes and the welcome out.
\* Without a pending contact on that queue, or its stash, nothing happens.
ReceiveHandshake(p, w, cut) ==
    /\ Reaches(w, p) /\ w.kind = "handshake" /\ minted[p] < MaxQueues[p]
    /\ open_envelope(p, w)
    /\ \E c \in contacts[p] :
         /\ c.myQ = w.queue /\ ~IsActive(c)
         /\ c.did \in DOMAIN ratchet[p]
         /\ LET n == minted[p] + 1
                q == Queue(p, n)
                new == [c EXCEPT !.did = w.from, !.theirQ = w.body, !.status = "active",
                                 !.myQ = q, !.capable = TRUE]
                booted == bootstrap_responder_ratchet(p, w)
                guest == [q |-> w.queue, who |-> w.from]
            IN  \/ /\ cut = 1
                   /\ ratchet' = booted
                   /\ UNCHANGED <<contacts, net, minted, guests, lapsed, removed>>
                \/ /\ cut > 1
                   /\ minted' = [minted EXCEPT ![p] = n]
                   /\ contacts' = Promoted(p, c, new)
                   /\ guests' = guests \cup {guest}
                   /\ lapsed' = lapsed \cup {w.queue}
                   /\ removed' = IF guest \in guests THEN removed
                                 ELSE [removed EXCEPT ![p] = @ \ {w.from}]
                   /\ IF cut = 2 THEN ratchet' = booted /\ UNCHANGED net
                      ELSE /\ ratchet' = [booted EXCEPT ![p] = Restrict(@, DOMAIN @ \ {c.did})]
                           /\ net' = net \cup {Welcome(c.myDid, w.from, w.body, q)}
    /\ Completes(cut, 3)
    /\ UNCHANGED <<links, removals, accepted, revoked>>

\* receive_welcome: from now on we send to the queue it names.
ReceiveWelcome(p, w) ==
    /\ Reaches(w, p) /\ w.kind = "welcome"
    /\ open_envelope(p, w)
    /\ \E c \in contacts[p] :
         /\ c.did = w.from
         /\ contacts' = Replaced(p, c, [c EXCEPT !.theirQ = w.body])
    /\ UNCHANGED <<ratchet, links, net, minted, mishaps, removals, accepted, guests, revoked,
                   lapsed, removed>>

\* send_body_to_contact over the ratchet; without a ratchet it refuses.
SendMessage(p, c) ==
    /\ c \in contacts[p] /\ IsActive(c) /\ c.did \in DOMAIN ratchet[p]
    /\ net' = net \cup {build_inner("message", SendQueue(p, c), c.myDid, c.did, None,
                                    ratchet[p][c.did])}
    /\ UNCHANGED <<contacts, ratchet, links, minted, mishaps, removals, accepted, guests, revoked,
                   lapsed, removed>>

\* receive_ratchet_message: who a message that came in on w.queue is from.
Accepts(p, c, w) ==
    /\ OwnsInboundQueueWith(p, c, w.queue) /\ IsActive(c) /\ c.capable
    /\ c.did \in DOMAIN ratchet[p] /\ ratchet[p][c.did] = w.session
    /\ w.from = c.did

\* prune_retired_queues and rotate_contact_queue, on the record c.
Pruned(c) == [c EXCEPT !.retired = {r \in @ : ~r.aged}, !.timed = TRUE]

\* Mutant of Rotated: the old queue is dropped at once.
RotatedAtOnce(c, q) == [c EXCEPT !.myQ = q]

Rotated(c, q) ==
    [c EXCEPT !.retired = @ \cup {[q |-> c.myQ, aged |-> FALSE]}, !.myQ = q]

\* maybe_rotate_inbound_queue, after a message was stored.  The rotation floor
\* is the grace period, so a queue rotates only when the last one is past it.
ReceiveMessage(p, w, rotate, cut) ==
    /\ Reaches(w, p) /\ w.kind = "message"
    /\ \E c \in contacts[p] :
         /\ Accepts(p, c, w)
         /\ lapsed' = lapsed \cup {r.q : r \in {x \in c.retired : x.aged}}
         /\ IF ~rotate
            THEN /\ contacts' = Replaced(p, c, Pruned(c))
                 /\ UNCHANGED <<net, minted>>
            ELSE LET q == Queue(p, minted[p] + 1)
                 IN  /\ c.timed /\ (\A r \in c.retired : r.aged) /\ minted[p] < MaxQueues[p]
                     /\ minted' = [minted EXCEPT ![p] = @ + 1]
                     /\ contacts' = Replaced(p, c, Rotated(Pruned(c), q))
                     /\ net' = IF cut = 2 THEN net \cup {Welcome(c.myDid, c.did, c.theirQ, q)}
                                         ELSE net
    /\ IF rotate THEN Completes(cut, 2) ELSE cut = 2 /\ UNCHANGED mishaps
    /\ UNCHANGED <<ratchet, links, removals, accepted, guests, revoked, removed>>

\* QUEUE_GRACE_MS goes by since c's last rotation.
GraceEnds(p, c) ==
    /\ c \in contacts[p] /\ \E r \in c.retired : ~r.aged
    /\ contacts' = Replaced(p, c, [c EXCEPT !.retired = {[r EXCEPT !.aged = TRUE] : r \in @}])
    /\ UNCHANGED <<ratchet, links, net, minted, mishaps, removals, accepted, guests, revoked,
                   lapsed, removed>>

\* delete_conversation: the contact, then its ratchet.  The interface offers
\* it for active contacts, and revoke_invite for pending ones.
DeleteConversation(p, c, cut) ==
    /\ c \in contacts[p] /\ IsActive(c) /\ removals < MaxRemovals
    /\ removals' = removals + 1
    /\ contacts' = [contacts EXCEPT ![p] = @ \ {c}]
    /\ ratchet' = IF cut = 2 THEN RemoveRatchets(p, {c.did, Placeholder(c.myQ)}) ELSE ratchet
    /\ removed' = [removed EXCEPT ![p] = @ \cup {c.did}]
    /\ Completes(cut, 2)
    /\ UNCHANGED <<links, net, minted, accepted, guests, revoked, lapsed>>

Next ==
    \/ \E p \in Peers, mode \in Modes, cut \in 1..2 : GenerateInvite(p, mode, cut)
    \/ \E link \in links : LinkExpires(link)
    \/ \E p \in Peers, link \in links, mode \in Modes, cut \in 1..3 :
          AcceptInvite(p, link, mode, cut)
    \/ \E p \in Peers, w \in net, cut \in 1..3 : ReceiveHandshake(p, w, cut)
    \/ \E p \in Peers, w \in net : ReceiveWelcome(p, w)
    \/ \E p \in Peers, w \in net, rotate \in BOOLEAN, cut \in 1..2 :
          ReceiveMessage(p, w, rotate, cut)
    \/ \E p \in Peers : \E c \in contacts[p] :
          \/ SendMessage(p, c) \/ GraceEnds(p, c)
          \/ \E cut \in 1..2 : RevokeInvite(p, c, cut) \/ DeleteConversation(p, c, cut)

Spec == Init /\ [][Next]_vars

-----------------------------------------------------------------------------
(* Properties.                                                             *)


\* A link lets in one guest at most, however often its handshake arrives and
\* whoever else got hold of it, and none once it was revoked.
SingleUse ==
    /\ \A g, h \in guests : g.q = h.q => g = h
    /\ \A g \in guests : g.q \notin revoked

\* p's record c and q's record d are the two ends of one conversation.
Linked(c, d) == IsActive(c) /\ IsActive(d) /\ c.did = d.myDid /\ d.did = c.myDid

\* Neither of p and q accepted a link of the other's that crossed an earlier
\* one or followed the deletion of their conversation.
Between(x, p, q) ==
    \/ Owner(x.by) = p /\ Owner(x.of) = q
    \/ Owner(x.by) = q /\ Owner(x.of) = p
OneWay(p, q) ==
    \A x, y \in accepted :
        Between(x, p, q) /\ Between(y, p, q) => x.of = y.of /\ ~x.anew /\ ~y.anew

\* The two ends of a conversation run the same ratchet session, through replayed
\* handshakes, further clicks on the link, other guests of it, deletions, and
\* crashes between the writes of a handler, if they are connected one way.  (When
\* each accepts the other's link, each overwrites its own session with the
\* other's: ratchet states are kept by did.)
SessionsAgree ==
    \A p, q \in Peers : OneWay(p, q) =>
        \A c \in contacts[p], d \in contacts[q] :
            (/\ Linked(c, d)
             /\ c.did \in DOMAIN ratchet[p] /\ d.did \in DOMAIN ratchet[q])
            => ratchet[p][c.did] = ratchet[q][d.did]

\* A deleted conversation does not come back by itself: no replayed handshake,
\* welcome or message makes its contact anew, if the two are connected one way.
DeletedStaysDeleted ==
    \A p \in Peers : \A c \in contacts[p] :
        IsActive(c) /\ OneWay(p, Owner(c.did)) => c.did \notin removed[p]

\* delete_conversation: "A later message from them lands on a queue we no longer
\* own and is dropped as unowned (no silent auto-recreate)", whatever links were
\* accepted before.
DeletedIsUnowned ==
    \A p \in Peers : \A c \in contacts[p] : IsActive(c) => c.did \notin removed[p]

\* A message sent to p by the other end of one of its conversations is on a
\* queue that p owns for that conversation, or that it retired for good: no
\* order of rotations, welcomes and crashes strands it.
NothingStranded ==
    \A p \in Peers : \A c \in contacts[p] : \A w \in net :
        (w.kind = "message" /\ IsActive(c) /\ w.from = c.did /\ w.seal = c.myDid)
        => OwnsInboundQueueWith(p, c, w.queue) \/ w.queue \in lapsed

\* What is sent to a per-pair queue is on a queue its recipient polls: both
\* ends derive the same one, as send_body_to_contact says of regular contacts.
PairQueuesMeet ==
    \A p \in Peers : \A c \in contacts[p] : \A w \in net :
        (w.kind = "message" /\ IsActive(c) /\ w.from = c.did /\ w.seal = c.myDid
         /\ w.queue[1] = "pair")
        => w.queue \in Topics(p)

\* A welcome on a queue we own and poll, rotated away or not, can be opened:
\* what lands on an old queue in mid-rotation still routes home, so the peer
\* keeps learning where to send.
RoutesHome ==
    \A p \in Peers : \A c \in contacts[p] : \A w \in net :
        (w.kind = "welcome" /\ IsActive(c) /\ w.from = c.did /\ w.queue \in Topics(p)
         /\ OwnsInboundQueue(c, w.queue))
        => w.seal = KeyFor(p, w.queue)
=============================================================================
