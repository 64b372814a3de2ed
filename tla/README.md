# Hey capsules: TLA+ models of the messaging engine

Hey is a set of capsules for the Elastos runtime: an end-to-end encrypted messenger (`hey-chat`), a
social network (`hey-social`), their command-line clients, the shared library `hey-core`, and provider
processes that give the capsules gossip, blobs, content and identity. Two people meet through an invite
link, run a hybrid Double Ratchet over queues that rotate, cut large messages into fragments, and retry
what gossip did not take; groups, attachments, feeds and follows are built on top. All of it runs on a
single-threaded executor that switches tasks at every `.await`, over files that are read and rewritten
whole, with no locks. This directory models the engine and what is built on it, checks the models with
TLC and proves part of the results with TLAPS.

Paths below are relative to `src/capsules/`; `dms.rs`, `frag.rs` and `outbox.rs` are in
`hey-core/src/api/`, `crypto.rs`, `runtime.rs` and, unless `hey-social` is named, `peer_receiver.rs` in
`hey-core/src/`; `posts.rs`, `profile.rs` and `groups.rs` are in `hey-social/src/api/`.
`PROJECT.json` maps every definition to its lines.

## Inventory

| Component | State | Operations | Hard because |
|---|---|---|---|
| Fragmentation (`frag.rs`, `publish_wire`, `consume_v2_queue`) | `BUF`: partial wires by uuid, thread-local | `fragment`, `reassemble`, TTL sweep, pass-through | gossip loses, repeats, reorders; a retry is a new id; a reload forgets the buffer but not the cursor |
| Outbox (`outbox.rs`) | one file: items with retries and backoff | `publish_or_enqueue`, `enqueue`, `flush`, `purge_topic`, `clear` | read-modify-write over awaits; "sent" does not mean delivered; crashes; storage errors ignored |
| Double Ratchet (`dms.rs` 1549-1957, 2195-2253, 3352-3497; `crypto.rs`) | per-contact `RatchetState`, conversation file | bootstrap, send, receive, skip, evict | order of writes decides key reuse and desynchronisation; messages overtake each other across key turns |
| Invites and contacts (`dms.rs`) | `contacts.json`, prekey stash, links abroad | `generate_invite`, `accept_invite`, `revoke_invite`, `receive_handshake`, `receive_welcome`, `delete_conversation` | several writes per handler, links leak, handshakes are replayed, two identity modes |
| Queue rotation (`dms.rs` 4292-4448) | current, retired and pair queues of a contact | count, rotate, announce, prune | both ends rotate on their own; the announcement may be late, lost or repeated |
| Group chats (`dms.rs` 2413-3140) | `groups.json` with rosters, declined groups, group logs, over pairwise sends | create, add, remove, describe, accept, decline, delete, fan-out, receive | no authority: rosters converge, or not, from messages; members who never met |
| Attachments (`dms.rs` 1967-2191, `hey-chat/src/lib.rs`) | references in messages, blobs, pinned chunks, a byte cache, one view per file | pick, upload in chunks, fall back, fetch, time out, retry, unpin | one chunk of several fails; a provider restarts; a timer races the fetch |
| Conversations (`dms.rs`, both chat pages) | `contacts.json`, logs, unread badges, expiry; the page's signals | send, receive, mark read, expire, delete, wipe, open, poll | several writes per operation; reads that return after the user has moved on |
| Poll loop (`peer_receiver.rs`) | joined topics, cursors at the provider | join, drain, route, flush | a drained entry is gone whether or not its handler succeeds |
| Runtime bridge (`runtime.rs`, sign-in gate) | launch token, redeemed bit, capability tokens, storage route, session, gate | redeem, request, probe, retry, read and write storage | cached tokens and routes go stale; answers come late |
| Signed events, session, identity (`events.rs`, `session.rs`, `identity.rs`) | session record | sign, verify | cryptography rather than protocol |
| `peer-provider` broker | log per topic, cursor per consumer, subscriptions, `broker.json` | join, send, receive, save, load, re-join | two threads; the snapshot is written outside the lock, into a file emptied first |
| `blobs-`, `content-`, `docs-`, `identity-projection-provider` | third-party stores, key files | request/response | mostly I/O |
| `hey-social` feeds (`posts.rs`, `profile.rs`, `peer_receiver.rs`) | feed, post records, follows and their mirror, heads, notifications | post, delete, react, comment, follow, backfill, handle events | a post comes both live and through an index; events are lost; reloads between two steps |
| `hey-social` groups (`api/groups.rs`) | group list, group logs, key cache | create, send, receive, mark read | sender and poll loop must agree on a topic |
| Interfaces, command-line clients, mobile shells | view state | spawn tasks side by side (interfaces) or one at a time (clients) | decide what may interleave |

How they interact: the interface (or a client) calls `dms.rs`; it builds a wire and gives it to
`publish_or_enqueue`; `publish_wire` cuts it and calls the runtime, whose peer provider broadcasts it on
a gossip topic, the recipient's queue. There the poll loop drains every queue that `my_v2_topics`
names, `reassemble` puts wires together, `receive_v2_wire` dispatches to the ratchet, the handshake or
the welcome, and the loop ends with `flush`. All state is in files under the app's storage, shared by all
tasks of the app.

What makes each part correct:

* fragmentation hands on whole wires only, as often as they came, and does so when all pieces came in
  time;
* the outbox keeps a queued wire until it is delivered or dropped on purpose, never revives a dropped
  one, stays within its limit and drains;
* the ratchet never uses a message key twice, never falls out of step, shows no line twice and never
  falls back to classical key agreement;
* an invite lets one person in, both ends agree on the session, deleted conversations stay deleted, and
  no rotation strands a message;
* the broker passes no entry a consumer was not handed, and what it answered survives a restart as long
  as saves do not collide;
* a group reaches every member its roster names, except one whose contact was deleted or lost to a failing
  file and not taken in again, is joined only by consent, and no late message makes a
  roster shrink or counts as unread twice;
* a conversation keeps every line whose key was used up, unless the log could not be read when the next one
  was stored, its badge counts no line twice, and the page
  ends up showing the conversation it is on;
* an attachment in a message is the whole file in one place, and its view never loads for ever;
* a feed lists every post of the indexes it heard of, once; both ends of a follow agree;
* the bridge gets a write through on whatever route the runtime has, and the gate opens or says why not.

`PROJECT.json` lists under "hazards" what a test would hardly reach in this code, each at its line, with
the properties aimed at it or a note on why there is none yet.

## Modules

| Module | Models | Run by | Proved in |
|---|---|---|---|
| `Frag` | fragmentation between `publish_wire` and `consume_v2_queue` | `MCFrag` | `TransferProofs` |
| `Outbox` | the retry queue and the tasks that use it | `MCOutbox` | `ClientProofs` |
| `Ratchet` | the hybrid Double Ratchet and its two tasks | `MCRatchet` | `RatchetProofs` |
| `Invite` | invites, contacts, handshake, welcome, rotation, deletion | `MCInvite` | `ContactsProofs` |
| `Broker` | the durable log of `peer-provider` and its file | `MCBroker` | `BrokerProofs` |
| `Lists` | `Vec::retain` and `Iterator::filter` (`Retained`), used by several of the others | with them | `ListsProofs` |
| `Channel` | what fragmentation promises: a lossy, repeating channel of whole wires | as a property of `MCFrag` | `TransferProofs` (refinement) |
| `Groups` | group chats of the engine: rosters, consent, fan-out, receiving | `MCGroups` | `GroupsProofs` |
| `Chat` | contacts, logs, badges, expiry, deletion, and what the chat pages show | `MCChat` | `ChatProofs` |
| `Attach` | attachments from the composer to the view, with both stores and the cache | `MCAttach` | `TransferProofs` |
| `Bridge` | launch, session, capability tokens, storage routes, sign-in gate | `MCBridge` | `ClientProofs` |
| `Social` | posts, indexes, follows and notifications of `hey-social` | `MCSocial` | `ContactsProofs` |
| `SocialGroups` | the group chats of `hey-social` | `MCSocialGroups` | model-checked only |

Operators called "Mutant of ..." are plausible bugs; they are not used by the specifications. Each is a
variant of the definition below it, and a property counts as meaningful only because swapping the
mutant in makes TLC find a violation (the pairs are under "mutants").

### Frag

`attempt[a]` is the wire that the call of `publish_wire` with uuid `a` sends, `onNet[a]` how many of its
contents went out, `buf` the receiver's `BUF`, `handed[a]` what `receive_v2_wire` was given. Actions:
`PublishWire` and `SendContent`/`SendFails` are the loop of `publish_wire` (it returns at the first
failure; the answer may be lost after the content went out), `ConsumeContent` is one drained entry with
`reassemble` (sweep, insert, completeness test, join), `Reload` a restart of the receiving app, `Tick`
the clock. Wires are sequences of symbols cut by the real arithmetic (`FragCount`, `Slice`), with
`CHUNK_BYTES` scaled down. Ids are never drawn twice, as 122 random bits justify. That cutting and
joining are inverse is the assumption `RoundTrip` on `Wires`, which TLC evaluates for the wires of the
run; `BoundaryLengths` evaluates it for every length around four chunk boundaries.

### Outbox

The file is a set of items with their order of insertion. Each task has a program counter, and a step
runs from one await to the next: `PublishFirst`, `ConfirmFirst`, `EnqueueReads`, `EnqueueWrites` are
`publish_or_enqueue`; `FlushReads`, `FlushSkips`, `FlushPublishes`, `FlushConfirms`, `FlushWrites` are
`flush` on the poll loop; `PurgeReads`/`PurgeWrites` and `Clear` the withdrawals. A read that fails
yields an empty queue and a write that fails changes nothing (`.ok()`, `let _`), as in the code.
`NeighborChanges` (external) is the gossip overlay. `Overlap` says whether tasks may start while
another is at an await: FALSE is the command-line client, and the app as long as the user does nothing
while a flush runs; TRUE is the app in general.

### Ratchet

Keys are symbolic: a root key is the sequence of what was folded into it, so two chains are equal
exactly when they came from the same inputs. `StepRecv`, `SkipMessageKeys`, `EvictSkipped`, `DhRatchet`,
`StepSend`, `InitInitiator` and `InitResponder` translate the pure core; `SendReads`, `SendPersists`,
`SendPublishes` are `build_ratchet_wire`, and `RecvAdvances`, `RecvStores`, `RecvCommits` (or
`RecvRejects`, `RecvErrs`) are `receive_ratchet_message`, which works on a clone, stores the plaintext
first and writes the ratchet last. `Crash` may hit between any two. The network keeps every wire
and delivers it whenever and as often as it likes. `lost` records which keys the eviction dropped, so
that `NoDesync` excuses exactly those.

### Invite

Each handler is one action with a parameter `cut`: after how many of its writes the app died or a write
failed. That is exact, because a handler makes itself known to others only by the publish at its end and
`Invite` runs one handler at a time per app. Identities are symbolic: `DidOf` gives the real identity in
regular mode and one tied to the contact in anonymous mode; a session is named by the link and the
accepter's queue. `Topics` is what is polled, `KeyFor` which key opens what lands on a queue, `SendQueue`
where a message goes. Retired queues carry one bit, `aged`, for the grace hour; the rotation floor is as
long as the grace period, so a queue rotates only when the previous one is past it. Whether a rotation
is due (200 messages or a week) is left open. Three variables only record what happened, for the
properties: `accepted` the links accepted and whether their owner had been deleted before (`anew`), `guests`
and `removed`. `OneWay` says that two people were connected one way: neither accepted a link of the
other's while a link the other way was accepted too (crossed invites), nor one of somebody it had deleted.

### Broker

`broker` is what the mutex guards: logs, cursors, `next_seq` and subscriptions. `Main` handles one request
after the other (`GossipJoin`, `GossipSend` with `SendJoins`, `GossipRecv`, each ended by `Answer`); every
topic in `listening` has a receiver task (`Received`). Every change is followed by `save_broker`, three steps:
`TakeSnapshot` under the lock, `OpenFile`, which empties the file, and `WriteFile`. Two writers at once can
leave one text with the tail of the other, which `load_broker` takes for an empty broker, like a file
that is emptied or absent. `Restart` loads the file, `Rejoin` and `Rejoined` are the loop over the persisted
subscriptions before the first request. `KilledAnywhere` tells a kill from the orderly end at a closed
stdin. A write that fails for lack of space is not modelled.

### Channel, and Frag as its implementation

`Channel` is the contract the outbox and the receivers rely on: a call of `publish_wire` is given a wire
once (`Post`), answers yes only when all of the wire is out (`Confirm`), or no with the wire out or not
(`GiveUp`); what is out may be handed on any number of times, late and in any order (`Deliver`), and
nothing else is ever handed on. `Frag` implements it under the mapping `Whole`: the wire posted is
`attempt`, it is whole when all of its contents went out, `handed` is itself. Steps on single fragments
that complete nothing are stutters. `ImplementsChannel` is checked by `frag` and proved for all
parameters.

### Groups

One group, several peers. `group[p]` is p's record in `groups.json` (roster, bio, pending, unread),
`conv[p]` the group's log, `contacts[p][q]` what p can send to q: nothing, a record without keys, a contact
made from a roster (`Pinned`), or a ratchet session (`Paired`). Messages stay in `net` and are delivered in
any order; one under a ratchet opens once (`consumed`), others may come again. Each operation is one action
with a parameter for the point at which the app died: sends stop after `n` members of the fan-out,
`store_incoming_group_message` after `done` of its writes. The roster travels in every message
(`group_ctx`); the receiver makes contacts from it (`Bootstrapped`) and adopts it if it is longer
(`Adopted`). Every entry of the roster reads and rewrites `contacts.json`: a failed read counts as an empty
file and a failed write is ignored (`dms.rs` 405-413, 2614, 2642), which is the parameter `f`
(`FileFaults`). `delete_conversation` takes a contact away, whoever it came from, and leaves `groups.json`
alone, and the fan-out then passes that member over (`dms.rs` 2354, 2949) until a roster brings it back;
`severed` says of whom that is so, and is the one excuse of `FanoutReaches`. Calls on `groups.json` and
`declined-groups.json` do not fail. `shrunk` records that somebody was removed, or a group deleted, or
declined by one who had changed its roster: with them rosters may get shorter. A DID has one key pair, so
the refusals for keys that differ from pinned ones are not reached.

### Chat

One device. An operation is a task (`todo`, its remaining writes) and each write is a step: `WriteFails` and
`Crash` may come between any two, and a step whose error the code returns ends the task while one whose
error it ignores is skipped. `ReadFails` is the read that a step begins with: `read_conversation`,
`list_contacts` and `read_expiry` turn a failure into an empty file, and the write that follows makes it so.
`forgotten` holds the lines written over that way, the one excuse of `LinesKept`. `Steps` names the writes
and `Task` what an operation may hold between two of them. `ReceiveSteps` is the order store, touch,
ratchet. The pages differ: hey-chat has a signal per conversation, hey-social one signal for all, set
whenever a read returns (`loads`, `Loaded`), so a late read of one conversation can be shown under another
until the next poll. Tasks of the device do not overlap here (`Ratchet` with `Overlap` is where they do).

### Attach

Chunks are named by upload and number, because every upload is sealed under a new key. `add_bytes` and
`publish_bytes` are one chunk each; a failing chunk at the blobs provider (`try_upload_blobs_fails`) sends
the whole file to the content store, a failing one there drops the file. Tickets carry the id of the
endpoint that minted them, which a restart changes (`spawn`). `CidCache::put` is `put` and `Evicted`, with
both of its bounds. A view has a state and a picture (`url`), every fetch its own timer; a tap on retry
begins another fetch beside the old one. `Reap` (external) is garbage collection of unpinned blocks.
A deletion (`delete_conversation`, `unpin` per attachment, `remove_log`) unpins before it removes the log, and
a `PageReload` may end it in between; `doomed` are the messages it began with. A look-up in the cache with the
fetch and the put that follow (`get_bytes`) is one step, although the code awaits the fetch: `put` tests again
whether the chunk is there, so what another fetch put meanwhile is not counted twice.

### Bridge

One browser tab as an event loop: `turn` is the task that runs, until it awaits a request (`req`);
sessionStorage survives a page load, memory does not. `Load` is a page load with or without a fresh
launch token; boot redeems, scrubs the URL and asks for a capability token. `redeem_launch_token`,
`SessionStart`, `RuntimeToken`, `ensure_capability_token`, `request_capability_token` and `provider_call` are
the token chain, `dispatch_storage` with `CachedAnswer`, `DetectAnswer` and `FallbackAnswer` the choice of the
storage route, `probe_runtime`, `Judged`, `MountProbe` and `Retry` the sign-in gate. The runtime is one of the
three kinds the comments of `runtime.rs` tell apart, and may be upgraded under the tab; which statuses it
answers is external, taken from those comments.

### Social

A user runs three tasks: clicks, the poll loop with its handlers, and the backfill. An operation is a list
of stages; one that rewrites a file reads it in one step and writes it in a later one. The cid of a post
is the post and the head of an index the set of posts in it, as content addressing has it; ids of posts
are local, a reader makes up its own. `sign_and_publish` appends to what subscribers have still to drain,
or loses the event; the content store may fail to deliver or to pin. `Handle` drains one event and runs its
handler; `maybe_backfill_known_heads` publishes the own index once per session and merges every head heard
of. Every read or write of a file may fail. What the code makes of that differs: `create_post` stops when its
record cannot be written (`write_post`), while a received or merged post is listed all the same (`posts.rs:215`,
`hey-social/src/peer_receiver.rs:162`); a feed that cannot be read ends the operation (`FeedFails`);
`follows.json` counts as empty, and a failed write of it ends a click but not a handler (`FollowsFails`);
the mirror and the head on the profile are skipped (`ProfileFails`). `faults` records the kinds, so that a
property names what it excuses. An index that cannot be fetched counts as a fault of the feed.
Pinning a new post and publishing it are one step; its record is the next. `Overlap` is FALSE in the runs: each
operation of a user runs to its end first.

### SocialGroups

`hey-social` has group chats of its own. Topics are values here, because what decides whether an event
arrives is whether a poll drains the topic it was published on: `DmTopic` is where
`send_group_event_with_attachments` publishes, `extra_topics` and `my_v2_topics` what is drained. The dialog
(`toggle`, `add_extra`, `do_create`), the fan-out with its skipped members, `receive_event`, the key cache and
the notifications are modelled; with `DmTopic` among the drained topics the property would hold.

## Runs

| Run | Result | Shows |
|---|---|---|
| `frag` | pass | `TypeOK`, `OnlyWholeWires`, `NoAmplification`, `HandedWithinTTL`, and that `Frag` implements `Channel` |
| `ratchet` | pass | `TypeOK`, `NoKeyReuse`, `NoDesync`, `NoDuplicateLine`, `HybridTurns` |
| `outbox` | pass | `TypeOK`, `NoSilentLoss`, `DroppedStaysDropped`, `BoundedNoTwins`, and `Drains` under fairness |
| `invite` | pass | `SingleUse`, `SessionsAgree`, `DeletedStaysDeleted`, `NothingStranded` |
| `broker` | pass | `TypeOK`, `SeqsDiffer`, `NoGap`, `Durable` |
| `groups` | pass | `FanoutReaches`, `Consent`, `NoRosterLost`, `UnreadCounts` |
| `social` | pass | `NoTwins`, `FollowsAgree`, and `HeadCatchesUp`, `CatchesUp` under fairness |
| `attach` | pass | `Reachable`, `CacheSound`, and `NeverStuck` under fairness |
| `chat` | pass | `LinesKept`, `UnreadSound`, and `ShownSettles` under fairness |
| `bridge` | pass | `WritesGoThrough`, `ReadyStays`, and `GateSettles` under fairness |
| `ratchet_overlap` | violation of `NoKeyReuse` | a send inside a receive is overwritten, and the next send reuses its message key |
| `social_groups` | violation of `MembersSeeGroup` | a group created in `hey-social` is announced on topics nobody drains |

The two violations disagree with comments of the code, quoted under "findings".

### Counterexample configurations

These configurations check one property each, a comment of the code taken at its word, and TLC finds it
violated. They are kept to be run by hand (`tlc -config X.cfg Module`) when the code they are about
changes; the passing runs state what does hold.

| Configuration | Property | What the code says | What it does |
|---|---|---|---|
| `MCOutboxOverlap` (`MCOutbox`) | `NoSilentLoss` | `outbox.rs:10` "Every publish attempt that errors gets stashed here" | `flush` writes back the queue it read many awaits ago (`outbox.rs:222`) over a wire enqueued meanwhile |
| `MCOutboxConfirm` (`MCOutbox`) | `ConfirmedReached` | `outbox.rs:142-145` "Returns Ok only when confirmed delivered" | the neighbour is looked for after the broadcast (`outbox.rs:172`), so one that comes up in between confirms a broadcast to nobody |
| `MCInviteMixed` (`MCInvite`) | `PairQueuesMeet` | `dms.rs:2359-2361` "the send topic always matches the recipient's listen topic" | a regular inviter sends to a pair queue that an anonymous accepter does not poll (`dms.rs:2363`) |
| `MCInviteRotation` (`MCInvite`) | `RoutesHome` | `dms.rs:302-304` messages "on an old queue mid-rotation still route home" | the key is chosen by the current queue (`dms.rs:794`), so a welcome on a retired queue of an anonymous contact is not opened |
| `MCInviteCrossed` (`MCInvite`) | `DeletedIsUnowned` | `dms.rs:1124-1126` after a deletion a later message "lands on a queue we no longer own and is dropped as "unowned" (no silent auto-recreate)" | `receive_handshake` adds a record without looking for the DID (`dms.rs:3594`), deletion removes the first one only (`dms.rs:1130`): crossed invites leave a second |
| `MCBrokerStale` (`MCBroker`) | `AckedSurvives` | `peer-provider/src/main.rs:24` "a restart doesn't drop in-flight messages" | two saves write `broker.json` at once, outside the lock (`main.rs:135`) |
| `MCGroupsRemoval` (`MCGroups`) | `RemovalSticks` | `dms.rs:3019-3023` the roster is re-announced "so future fan-outs exclude them" | a receiver keeps the longer roster (`dms.rs:2694`), so the remaining members keep the removed one |
| `MCSocialOverlap` (`MCSocial`) | `NoTwins` | `posts.rs:179` backfill is "Idempotent" | the backfill that `maybe_backfill_known_heads` spawns (`hey-social/src/peer_receiver.rs:99`) runs beside the poll; both find a post missing and list it |
| `MCSocialFollowsOverlap` (`MCSocial`) | `FollowsAgree` | `profile.rs:169-173` `follows.json` is mirrored into the profile "after every follow-state mutation" | the head written by the spawned backfill (`profile.rs:250-253`) and the mirror written by the poll rewrite one file, each from what it read before the other wrote |
| `MCSocialDelete` (`MCSocial`) | `DeleteReaches` | `hey-social/src/peer_receiver.rs:12` "post.delete → remove from feed index + drop the cached post" | the event names the author's id of the post (`peer_receiver.rs:170-175`), the follower stored it under one of its own |
| `MCAttachUnpin` (`MCAttach`) | `NothingLingers` | `dms.rs:1158-1160` unpinned, or "the encrypted files linger pinned in the content store" | only the `cid` field is unpinned (`dms.rs:1163`), the first chunk of several |
| `MCBridgeRelaunch` (`MCBridge`) | `FreshLaunchTaken` | `runtime.rs:188-191` a fresh launch drops the redeemed bit "so we re-handshake against the new launch token" | `redeem_launch_token` returns on the old bit (`runtime.rs:275`) before the fresh token is read, and the URL is scrubbed next |

`MCSocialFollows` (`MCSocial`) is a larger instance of a property that holds, `FollowsAgree` with four clicks
and one fault (2.1 million states, two minutes), too large to be run each time beside the others.

Bounds, and why they are enough for what is asked:

* `frag`: one wire in one piece and one in three with a short last piece; two attempts (so two of one
  wire, or one of each), two arrivals of every content, one reload, a TTL of one instant. Interleaving
  of two attempts, a duplicate after completion and an eviction caused by the other attempt all occur.
* `outbox`: three wires on a remote and a local topic, a queue of two, two attempts, one withdrawal and
  one crash or storage fault. The queue overflows, a wire uses up its attempts, and the mishap falls
  between any two steps of any task.
* `ratchet`: three messages and three key pairs per peer, one crash or error, `MAX_SKIP` 2,
  `MAX_SKIPPED_KEYS` 1 and one passing of the TTL: messages overtake each other within a chain and across
  two turns, and both ways of eviction happen.
* `invite`: one link reaches two people. The inviter draws three queues (invite, conversation, one
  rotation), the accepter two (conversation and a rotation, or a second acceptance), the third person
  one. One crash or failing write and one revocation or deletion, at any point.
* `broker`: two topics, so the request loop and two receiver tasks save side by side, two messages, of the
  consumer itself or of someone else, answers of one message, one kill at any point. Two messages are
  enough for a stale, a mixed and a cut-off file, and for an answer that ends before the log does.

* `groups`: three peers, one of whom knows both others while the others hold no record, or one without
  keys, of each other; one text and one change of the group; and either one accept, decline or deletion of
  the group and one crash at any point, or one contact deleted or lost to a failing file (`Mixed` FALSE keeps
  the two apart; the theorems allow both). Texts and announcements overtake each other, are repeated where no
  ratchet runs, reach a peer that has declined, and bring back a contact that was deleted. 338 thousand states.
* `social`: two users who may both follow, so that requests come in to the file their own follows rewrite,
  one of them an author; three clicks, two and a fault, or one and two faults (`MaxEvents`). A fault is an event
  lost, a content not found, a failed pin, a reload, or a failing read or write of one of the files. A post
  then reaches the reader live, through the index handed to a new follower, through the announced head, or
  only through backfill; a post may be listed without its record, and a list of follows wiped. 282 thousand
  states.
* `attach`: an inline file and one of two chunks, two uploads, two fetches, a cache that holds two entries
  and so evicts, one provider failure, restart or reload. The deletion of a conversation is as many steps as it
  has attachments, and a reload may fall between any two. 574 thousand states.
* `chat`: an active and a pending contact, a message each way, an expiry that passes, one crash, failing
  write or failing read, both pages. 787 thousand states.
* `bridge`: two launches, one in a device-link envelope, two page loads, two slots for probes, a reader and
  a writer of storage, one fault: a fetch that fails, a token or session that ends, an upgrade.
* `social_groups`: two users who follow each other and are contacts, one group, one message, no faults:
  the shortest setting in which a member could see a group.

Deadlock checking is off: every bound is a point where the model may stop.

Fairness, and what in the code justifies it:

* `Drains` (`outbox`): steps of `flush` and of every started task are taken if they stay enabled, and
  backoffs elapse. The executor runs every runnable task, the poll loop calls `flush` on each round
  (`peer_receiver.rs` 110-161), and sleeps end. Nothing is assumed about neighbours, nor that the user
  sends anything.
* `HeadCatchesUp`, `CatchesUp` (`social`): the app of every user keeps running, that is, tasks go on, the poll
  loop drains its topics and the backfill comes round (`hey-social/src/peer_receiver.rs` 80-110). No click
  is assumed; both are stated as "again and again", since a user may go on posting.
* `NeverStuck` (`attach`): timers fire. That a fetch ever ends is not assumed.
* `ShownSettles` (`chat`): the poll loop runs, begun tasks go on, and reads return.
* `GateSettles` (`bridge`): the event loop runs what can run, a fetch is answered or fails, and the effect of
  a mounted gate runs. Nobody has to click.
* `MembersSeeGroup` (`social_groups`): a fan-out once begun goes on and every poll loop runs for ever; the
  violation is a behaviour in which both do.

## Proofs

`TransferProofs` proves, for every set of wires and ids and every bound, `FragTypeOK`, `FragWhole`
(`[]OnlyWholeWires`), `FragNoAmplification` and the action property `FragTimely` (`HandedWithinTTL`). From:
`FragConstants` (bounds are naturals, the bound on fragments is large enough) and `RoundTrip`. The
properties are not inductive: that a handed wire is whole depends on what the buffer holds. `IndInv` adds
that progress counters agree with the phase (`Progress`), that a buffer entry holds only contents of its
own attempt that went out (`BufferedParts`), that handed wires plus a buffered copy are covered by
arrivals (`Accounted`), that only fully published wires were handed on (`HandedWhole`), and that, inside
the TTL, and until the wire was first complete, the buffer is exactly what arrived since the reload
(`BufferIsSince`). One lemma per action.

`FragImplementsChannel` proves that `Frag` implements `Channel`, from the same `IndInv`: initial states map to
initial states; `PublishWire` maps to `Post`, the last `SendContent` to `Confirm` and the others to stutters,
`SendFails` to `GiveUp`, a `ConsumeContent` that completes a wire to `Deliver` and any other to a stutter.
`IndInv` is what makes `Deliver` enabled there: what completes was all on the network (`BufferedParts`), and
what was joined is the wire that was posted.

`ClientProofs` proves `OutboxTypeOK` and `OutboxBoundedNoTwins` for every interleaving, and under `~Overlap`
`OutboxNoSilentLoss` and `OutboxDroppedStaysDropped`, for any number of wires, topics and tasks, crashes and
faults. `BoundInv` is why the limit holds although every task writes back a copy it read long ago: the file
and every copy are small and hold a wire once (`File`, `Snaps`), what `flush` has yet to walk and what it
keeps share one copy's room (`Flushed`), and the one wire a task may add is in no copy and no other task's
(`OwnWire`). `SafeInv` adds that one task at a time is busy (`Sequential`), where tasks may stand (`Places`),
that a wire is queued once (`OnceQueued`), that a writer's copy is the file unless a read failed
(`WorkerSnap`), and that `flush` splits the file into what it has to walk, keeps, gave up and delivered
(`FlushSplit`). The assumption `~Overlap` is needed: `MCOutboxOverlap` is the counterexample without it.

`ListsProofs` says what `Retained` returns for every list: a list of elements of the first that are in the
set, each of them, in order (`RetainedOrder`). It is a recursive function, so what it equals first needs
that some function satisfies its defining equation up to every length; a least length without one is a
contradiction.

`BrokerProofs` proves `BrokerTypeOK`, `BrokerSeqsDiffer`, `BrokerNoGap` and `BrokerDurable`, from
`BrokerConstants` (bounds are naturals, values for "none" are no members of what they stand beside). A
broker lives in memory, in snapshots about to be written and in the file, and a kill turns the file into
the memory; so `SoundInv` claims of every copy that its numbers were given out and are distinct, that its
cursors lie inside its logs, and that what is behind a cursor was handed over or died with an answer. For
`Durable`, `DurableInv` says which copies hold what was answered and which also what is about to be, one
task at most having a snapshot: the property speaks of runs in which no two savers overlapped (`clean`).

`RatchetProofs`, from `RatchetConstants`. `RatchetNoKeyReuse`, `RatchetHybridTurns` and `RatchetNoDesync`
assume `~Overlap`, and `ratchet_overlap` is the counterexample to the first without it. `KeysInv` has three
arguments: the number of inputs in a root key is odd on the accepter's chains and even on the inviter's, so
the peers never share one; a turn mixes in a key pair drawn for it, so no chain comes back; and the index on
disk is past every one used on the chain, that of a message on its way to the network included (`Below`,
`Index`). `RatchetNoDuplicateLine` (`LinesInv`: an id on the network is in the log once at most) and
`RatchetTypeOK` hold with tasks overlapping as well. `NumbersInv`, for the latter, says of the state on disk
and of both tasks' copies that counters agree with chains, and that a number received was sent, as a message
opens only with the key of its index.

`RatchetNoDesync` needs a history that no state holds. `DesyncInv` claims there are key pairs `ka[0..T]` and root
keys `ro[1..T]`, one of each per turn of either peer and no pair twice (`History`), on which everything lies:
a state sends on one chain and receives on the one before (`On`), a wire has the key pair, ciphertext and
message key of its chain (`WireOn`), and so has a stashed key. Two peers are one chain apart (`Next2`); each has
received no further than the other sent, and has shown, stashed or evicted every message before that place
(`Follows`, `Accounted`); a chain's `pn` is past what was sent on the one before (`Announced`, `Ordered`), so the
keys skipped when turning reach to its end; and the state a receive is about to write is where the one on disk
is, or one turn of its own further (`Nearby`), so that losing it in a crash leaves the peers as they were. A turn
extends the history by the pair just drawn, in place of one a crash took back. `SyncOpens` then reads off that
a wire not yet shown is found in the stash, comes next, or was evicted. So the proof covers both directions
and any number of turns, where the run covers three key pairs a peer.

`GroupsProofs`, from `GroupsConstants`: `GroupsConsent`, `GroupsFanoutReaches`, `GroupsUnreadCounts`,
`GroupsNoRosterLost`. `GroupsInv` adds types; that before there is a group nobody has anything of it;
`ReachInv`, that whoever is on a roster with keys is an active contact of whoever holds that roster, pending
or not, or was deleted or lost by it and has not come back (`severed`); `UnreadInv`, that badge, log and
lines heard of agree up to the crashes so far; and `RosterInv`, that the roster of the one peer that edits
begins with every other, held or on its way.

`ContactsProofs`, first part: `InviteSingleUse`, `InviteSessionsAgree`, `InviteDeletedStaysDeleted`, and
`InviteNothingStranded` under `SameModes` (the two ends of an invite choose one mode; `MCInviteMixed` shows
what happens otherwise). `InviteInv` rests on what is drawn being fresh: a queue or an anonymous identity
belongs to one record of the peer that drew it (`Apart`, `Unique`), a link not yet used has had no guest
(`Unused`), a session is that of a link accepted between the two (`Origin`, `OneEach`), what was deleted is
in no record unless it was accepted anew (`Remembered`). `Home` adds that whatever queue anybody was told
for an identity is one its owner has for it or retired for good.

`ChatProofs`, from `ChatConstants`: `ChatInvariant`, `ChatLinesKept`, `ChatUnreadSound`. `ChatInv` adds
types, that what a failed read made the next write cover is in `forgotten`, what is left of each kind of
task and what its earlier steps have already done (`TaskInv`), and that a line in the log which the badge
does not count yet is the one of a receive between its two writes (`UnreadInv`).

`ContactsProofs`, second part: `SocialNoTwins` and `SocialFollowsAgree`, both under `~Overlap`, from
`SocialConstants` (finitely many users, a bound on notifications that is not zero). A feed has three
writers, a click, the handler of a live event and the merge of an index, each of which looks first and
writes some stages later. `SocialInv` adds types; that a queued event is about posts of its sender
(`GoodEvent`); that an entry of the feed names a post of its author and lacks a cid only where its author's
pin failed (`GoodEntry`), which is what lets an index recognise by cid what came live; that one operation of
a user runs at a time (`Alone`), whose copy is the file and whose post is recorded but not yet listed
(`GoodJob`); and that a listed post without a record is one being deleted, or else a reload or a failing
call on a record or the feed came before (`Spoiled`). For `SocialFollowsAgree`, `FollowInv` follows a
request from one user to another: unless an event was lost, an app reloaded or a call on `follows.json`
failed, what `u`'s `follows.json` says of `v` is what `v` has been told (`Agree`), that is, the last word of
`u` in `v`'s inbox, failing that the handler under way, failing that `v`'s list of followers (`HasHeard`);
while `u` has written and not yet told, `u`'s task says so.

`ClientProofs`, second part: `BridgeWritesGoThrough` and the action property `BridgeReadyStays`, for any number
of page loads, tasks and faults, from `BridgeConstants` (there is a slot for probes, the value for "none" is no
token). `BridgeInv` says which calls a task may have left and what it may await at each (`CallsInv`); that one
probe runs at a time, and none once the gate has been judged (`ProbeInv`), which is why no late answer closes
it; and that a write whose token the runtime takes is on its way to the app's own route with that token, or to a
route that refers it there (`Settled`), whatever a reader beside it has memoized.

`TransferProofs`, second part: `AttachReachable` and `AttachCacheSound`, for any files, chunks and limits,
from `AttachConstants` (the cache has room for one entry, and one entry is no larger than the cache, as its
constants say). `AttachInv` follows references from the upload (`UploadInv`: those so far are the first
chunks of the latest file, in order, and stored) through the message to be (`Coming`) into the conversation
(`ConvInv`) until its deletion begins; no two messages share an upload, which is why unpinning for one takes
nothing from another. For the cache, `total` is the sum of the sizes of the entries (`SumOf`, with lemmas
for cutting a list in two, `SumSplit`, for appending, `SumAppend`, and for an eviction, `EvictedFits`).

Two components share each of these three modules; their specifications share no constant, no variable and no
definition but those of `Lists`, and are told apart by name (`Spec` and `BridgeSpec`, for instance).

Proving changed two statements. `NoRosterLost` was false in a case the run does not reach: a member who has
changed the roster dies in the middle of declining the group, gets it back from an older message and changes
it again, so `shrunk` counts an editor who declines. `SessionsAgree`
and `DeletedStaysDeleted` fail when invites cross, or a link is accepted after a deletion: sessions are kept
by DID, and each side overwrites its own. They now speak of people connected one way (`OneWay`), and
`MCInviteCrossed` shows the rest.

Only model-checked: everything about liveness (`Drains`, `HeadCatchesUp`, `CatchesUp`, `NeverStuck`,
`ShownSettles`, `GateSettles`), which is out of the prover's reach under fairness, and `SocialGroups`, whose
one property the code violates. Where a theorem assumes `~Overlap`, tasks that overlap are checked for
`Ratchet`, `Outbox` and `Social` by the counterexamples above. What recursive definitions
compute for every input is out of the prover's reach where no such argument by a least counterexample is
given, hence `RoundTrip` as an assumption. Every invariant and action property of a passing run is stated by
a theorem.

## Not modelled

* The cryptographic algorithms and signatures (symbolic at most), formatting, display names, previews.
* Races of two tasks on `contacts.json` and on the conversation files: `Chat` and `Invite` run one task at a
  time. The ratchet file (`ratchet_overlap`) and the outbox file (`MCOutboxOverlap`) show the pattern.
* Crossed invites beyond two links (`MCInviteCrossed`); what `receive_welcome` does to the outbox.
* Pins of single lines (`pin_dm_message`, `pin_group_message`): a flag nothing else reads or clears.
* In `hey-social`: reposts, deleting a comment, editing and publishing the profile document, search; the
  feed, profile and search pages, which show what the api modules return.
* `docs-provider`, `identity-projection-provider`, signed events: request and response without a protocol,
  or pure cryptography. The endpoint, node key and tickets of `peer-provider` beyond what a restart loses.
* Argument parsing and output of the command-line clients, layout of the views, mobile shells.

"components" in `PROJECT.json` says so part by part.

## Plan

1. `Delivery`: `Outbox` over `Channel` and `Broker`, so that a confirmed or queued wire is handed to the receiver
   unless something is lost for a named reason, a reload in mid-wire included.
2. Overlapping tasks in `Chat`, and in `Social` beyond its two counterexamples: which invariants survive.

Models are written without recursion so that they can be proved about, with their bounds and
assumptions as named constants.
