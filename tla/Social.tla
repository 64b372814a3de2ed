------------------------------- MODULE Social -------------------------------
(***************************************************************************)
(* The federated feed of hey-social: posts, the pinned index of one's own  *)
(* posts and its head, follows, and the handlers of the events that carry  *)
(* them between users (api/posts.rs, api/profile.rs, peer_receiver.rs).    *)
(*                                                                         *)
(* A user runs three tasks: what he clicks ("ui"), the poll loop with its  *)
(* handlers ("poll") and the backfill it spawns ("fill").  Each operation  *)
(* is a list of stages; a stage that rewrites a file reads it in one step  *)
(* and writes it in a later one.  Overlap says whether the tasks of a user *)
(* interleave at these steps, or an operation runs to its end first.       *)
(*                                                                         *)
(* The content store is addressed by content: the cid of a post is the     *)
(* post, and the cid of an index, a "head", is the set of posts in it.     *)
(* The id of a post is local to a user: a reader makes up a new one.       *)
(***************************************************************************)
EXTENDS Lists, Integers, FiniteSets, SequencesExt

CONSTANTS Users,
          Authors,     \* the users who post
          Readers,     \* the users who follow others
          Overlap,     \* do the tasks of a user interleave?
          MaxActs,     \* bound: clicks (post, delete, react, comment, follow, unfollow)
          MaxFaults,   \* bound: the faults
          MaxEvents,   \* bound: clicks and faults together
          MaxNotes,    \* notifications kept
          Nothing

ASSUME SocialConstants ==
    /\ Authors \subseteq Users /\ Readers \subseteq Users
    /\ Overlap \in BOOLEAN
    /\ MaxActs \in Nat /\ MaxFaults \in Nat /\ MaxEvents \in Nat
    /\ IsFiniteSet(Users) /\ Nothing \notin Nat
    /\ MaxNotes \in Nat \ {0}

Tasks == {"ui", "poll", "fill"}
Inbox == "inbox"

VARIABLES feed,    \* feed[u]: entries [id, cid, author] of posts/feed.json
          posts,   \* posts[u]: post records by id, with their overlays
          follows, \* follows[u]: follows.json
          profile, \* profile[u]: the parts of profile.json that mirror other files
          heads,   \* heads[u][v]: the head of v's index that u heard of
          notes,   \* notes[u]: number of unread notifications
          joined,  \* joined[u]: users whose posts topic u's provider logs
          queue,   \* queue[u][t]: logged events of topic t that u has not drained
          task,    \* task[u][x]: the operation task x is in
          booted,  \* booted[u]: has this session published the index once?
          \* Bookkeeping:
          made,    \* made[p]: who made post p
          acts,    \* clicks so far
          faults   \* the faults so far: an event is "lost", a content "missed", a pin fails
                   \* ("unpinned"), an app has a "reload", or a read or a write fails of a post
                   \* "record", the "feed", the "follows", the "profile" or an "other" file

socialVars == <<feed, posts, follows, profile, heads, notes, joined, queue, task, booted, made,
                acts, faults>>
files == <<feed, posts, follows, profile, heads, notes>>
counts == <<made, acts>>

Idle == [todo |-> <<>>, arg |-> Nothing, snap |-> Nothing]

SocialInit ==
    /\ feed = [u \in Users |-> <<>>]
    /\ posts = [u \in Users |-> {}]
    /\ follows = [u \in Users |-> [followers |-> {}, following |-> {}]]
    /\ profile = [u \in Users |-> [followers |-> {}, following |-> {}, head |-> Nothing]]
    /\ heads = [u \in Users |-> [v \in Users |-> Nothing]]
    /\ notes = [u \in Users |-> 0]
    /\ joined = [u \in Users |-> {u}]
    /\ queue = [u \in Users |-> [t \in Users \cup {Inbox} |-> <<>>]]
    /\ task = [u \in Users |-> [x \in Tasks |-> Idle]]
    /\ booted = [u \in Users |-> FALSE]
    /\ made = <<>> /\ acts = 0 /\ faults = <<>>

-----------------------------------------------------------------------------
(* Tasks and events.                                                       *)

\* May n more faults happen?
Room(n) == n = 0 \/ (Len(faults) + n <= MaxFaults /\ acts + Len(faults) + n <= MaxEvents)

\* n faults of a kind happen in this step, or n of one and m of another.
Repeat(kind, n) == [i \in 1..n |-> kind]

Fault(kind, n) == Room(n) /\ faults' = faults \o Repeat(kind, n)

Faults(kind, n, other, m) ==
    Room(n + m) /\ faults' = (faults \o Repeat(kind, n)) \o Repeat(other, m)

Faulty(kind) == kind \in ToSet(faults)

Click == acts < MaxActs /\ acts + Len(faults) < MaxEvents /\ acts' = acts + 1

\* May task x of u begin an operation?
Free(u, x) ==
    /\ task[u][x] = Idle
    /\ Overlap \/ \A y \in Tasks : task[u][y] = Idle

Begin(u, x, todo, arg) ==
    task' = [task EXCEPT ![u][x] = [todo |-> todo, arg |-> arg, snap |-> Nothing]]

\* The rest of the operation is left out.
Abandon(u, x) == task' = [task EXCEPT ![u][x] = Idle]

\* The stage a task is in; "done" when it is idle.
Stage(u, x) == IF task[u][x].todo = <<>> THEN "done" ELSE Head(task[u][x].todo)

\* The task goes on to its next stage, with arg.
Advance(u, x, arg) ==
    task' = [task EXCEPT ![u][x] = IF Len(@.todo) = 1 THEN Idle
                                   ELSE [todo |-> Tail(@.todo), arg |-> arg, snap |-> Nothing]]

\* Who logs what w publishes on the topic t of a user's posts.
Subscribers(t, w) == {u \in Users \ {w} : t \in joined[u]}

\* An event is signed and published once; every subscriber logs it or, when
\* the gossip mesh flaps, misses it.
PublishTo(receivers, t, event) ==
    \E hear \in SUBSET receivers :
        /\ Fault("lost", Cardinality(receivers \ hear))
        /\ queue' = [u \in Users |-> IF u \in hear THEN [queue[u] EXCEPT ![t] = Append(@, event)]
                                     ELSE queue[u]]

sign_and_publish(u, author, type, data) ==
    PublishTo(Subscribers(author, u), author, [type |-> type, from |-> u, data |-> data])

sign_and_publish_follow(u, v, type, data) ==
    PublishTo({v} \ {u}, Inbox, [type |-> type, from |-> u, data |-> data])

NoEvent == UNCHANGED <<queue, faults>>

-----------------------------------------------------------------------------
(* Posts: what the user does.                                              *)

IdOf(u, p) == <<u, p>>
Record(u, p) == [id |-> IdOf(u, p), cid |-> p, likes |-> {}, comments |-> 0]
Entry(u, p, cid) == [id |-> IdOf(u, p), cid |-> cid, author |-> made[p]]

\* create_post: pin the body and announce it; the record, the index of the feed
\* and the head follow.  Without the content store the post stays local.
create_post(u, pinned) ==
    LET p == Len(made) + 1
        cid == IF pinned THEN p ELSE Nothing
    IN  /\ Free(u, "ui") /\ Click
        /\ made' = Append(made, u)
        /\ Begin(u, "ui", <<"record", "insert", "index", "head", "announce">>,
                 [id |-> IdOf(u, p), cid |-> cid, author |-> u])
        /\ IF pinned THEN sign_and_publish(u, u, "post.create.v2", p)
           ELSE Fault("unpinned", 1) /\ UNCHANGED queue
        /\ UNCHANGED <<files, joined, booted>>

\* write_post of the new post; when it fails, the post is not listed.
write_post(u, x) ==
    LET entry == task[u][x].arg
    IN  /\ Stage(u, x) = "record"
        /\ \/ /\ posts' = [posts EXCEPT ![u] = @ \cup {[Record(u, entry.id[2]) EXCEPT !.cid = entry.cid]}]
              /\ Advance(u, x, entry)
              /\ UNCHANGED faults
           \/ UNCHANGED posts /\ Abandon(u, x) /\ Fault("record", 1)
        /\ UNCHANGED <<feed, follows, profile, heads, notes, joined, queue, booted, counts>>

\* What the removal of a record leaves; its failure is ignored.
Removed(u, id) ==
    \/ posts' = [posts EXCEPT ![u] = {r \in @ : r.id # id}] /\ UNCHANGED faults
    \/ UNCHANGED posts /\ Fault("record", 1)

\* delete_post: the record goes first.
delete_post(u, p) ==
    /\ Free(u, "ui") /\ Click
    /\ made[p] = u /\ \E r \in posts[u] : r.id = IdOf(u, p)
    /\ Removed(u, IdOf(u, p))
    /\ Begin(u, "ui", <<"filter", "tell", "index", "head", "announce">>, IdOf(u, p))
    /\ UNCHANGED <<feed, follows, profile, heads, notes, joined, queue, booted, made>>

Toggled(S, e) == IF e \in S THEN S \ {e} ELSE S \cup {e}

\* react_to_post and add_comment: the overlay of my own record, and an event
\* on the author's topic that names the post by MY id.
Overlay(u, r, kind) ==
    /\ Free(u, "ui") /\ Click
    /\ posts' = [posts EXCEPT ![u] = (@ \ {r}) \cup
                    {IF kind = "post.react" THEN [r EXCEPT !.likes = Toggled(@, u)]
                     ELSE [r EXCEPT !.comments = @ + 1]}]
    /\ sign_and_publish(u, made[r.id[2]], kind, <<r.id, u>>)
    /\ UNCHANGED <<feed, follows, profile, heads, notes, joined, task, booted, made>>

-----------------------------------------------------------------------------
(* Follows: what the user does.                                            *)

\* follow_user_with: join the topics; follows.json, its mirror, the request.
follow_user_with(u, v) ==
    /\ Free(u, "ui") /\ Click /\ u # v
    /\ joined' = [joined EXCEPT ![u] = @ \cup {v}]
    /\ Begin(u, "ui", <<"follow", "mirror", "request">>, v)
    /\ NoEvent
    /\ UNCHANGED <<files, booted, made>>

\* unfollow_user; leaving a topic changes nothing in the provider.
unfollow_user(u, v) ==
    /\ Free(u, "ui") /\ Click /\ v \in follows[u].following
    /\ Begin(u, "ui", <<"unfollow", "mirror", "goodbye">>, v)
    /\ NoEvent
    /\ UNCHANGED <<files, joined, booted, made>>

-----------------------------------------------------------------------------
(* Stages that rewrite a file.                                             *)

FeedStages == {"insert", "filter", "merge"}
FollowsStages == {"follow", "unfollow", "addFollower", "dropFollower"}
ProfileStages == {"mirror", "head"}

FileOf(u, stage) ==
    CASE stage \in FeedStages -> feed[u]
      [] stage \in FollowsStages -> follows[u]
      [] stage = "head" -> profile[u]
      [] stage = "mirror" -> [profile[u] EXCEPT !.followers = follows[u].followers,
                                                !.following = follows[u].following]

\* The file is read ...
ReadFile(u, x) ==
    /\ Stage(u, x) \in FeedStages \cup FollowsStages \cup ProfileStages
    /\ task[u][x].snap = Nothing
    /\ task' = [task EXCEPT ![u][x].snap = FileOf(u, Stage(u, x))]
    /\ NoEvent
    /\ UNCHANGED <<files, joined, booted, counts>>

Cids(entries) == {entries[i].cid : i \in DOMAIN entries} \ {Nothing}

\* Mutant of Missing: what is in the feed already is fetched again.
MissingAll(entries, index) == index

\* The posts of an index that the feed does not have.
Missing(entries, index) == index \ Cids(entries)

\* The merged feed is sorted by time, newest first; posts are numbered in the
\* order they were made.
Newer(e, f) == e.id[2] >= f.id[2]

Sorted(s) ==
    LET order == CHOOSE p \in [DOMAIN s -> DOMAIN s] :
                    IsInjective(p) /\ \A i, j \in DOMAIN s : i < j => Newer(s[p[i]], s[p[j]])
    IN  [i \in DOMAIN s |-> s[order[i]]]

\* The records of posts that were merged, of which some could not be written.
\* A record that was left over for one of them, under another id in the code,
\* is not kept.
Recorded(u, got) == {r \in posts[u] : \A p \in got : r.id # IdOf(u, p)} \cup {Record(u, p) : p \in got}

\* ... and what was read, changed, is written.  A post that was merged had its
\* record written before, but is listed even if that failed.
WriteFeed(u, x) ==
    LET s == task[u][x].snap
        arg == task[u][x].arg
    IN  /\ Stage(u, x) \in FeedStages /\ s # Nothing
        /\ CASE Stage(u, x) = "insert" ->
                  feed' = [feed EXCEPT ![u] = <<arg>> \o s] /\ UNCHANGED <<posts, faults>>
             [] Stage(u, x) = "filter" ->
                  /\ feed' = [feed EXCEPT ![u] = Retained(s, {e \in Range(s) : e.id # arg})]
                  /\ IF x = "poll" THEN Removed(u, arg) ELSE UNCHANGED <<posts, faults>>
             [] Stage(u, x) = "merge" ->
                  \E got \in SUBSET Missing(s, arg) : \E unrecorded \in SUBSET got :
                     /\ Faults("missed", Cardinality(Missing(s, arg) \ got), "record", Cardinality(unrecorded))
                     /\ posts' = [posts EXCEPT ![u] = Recorded(u, got \ unrecorded)]
                     /\ feed' = IF got = {} THEN feed
                                ELSE [feed EXCEPT ![u] =
                                        Sorted(s \o SetToSeq({Entry(u, p, p) : p \in got}))]
        /\ Advance(u, x, arg)
        /\ UNCHANGED <<follows, profile, heads, notes, joined, queue, booted, counts>>

\* The feed, or the index to be merged, cannot be read, or the feed not be
\* written: the operation ends there.  By then the records of a merge are
\* written, and that of a deleted post is gone.
FeedFails(u, x) ==
    LET s == task[u][x].snap
        arg == task[u][x].arg
    IN  /\ Stage(u, x) \in FeedStages
        /\ CASE Stage(u, x) = "merge" /\ s # Nothing ->
                  \E got \in SUBSET Missing(s, arg) : posts' = [posts EXCEPT ![u] = Recorded(u, got)]
             [] Stage(u, x) = "filter" /\ x = "poll" /\ s # Nothing ->
                  posts' = [posts EXCEPT ![u] = {r \in @ : r.id # arg}]
             [] OTHER -> UNCHANGED posts
        /\ Fault("feed", 1)
        /\ Abandon(u, x)
        /\ UNCHANGED <<feed, follows, profile, heads, notes, joined, queue, booted, counts>>

\* Mutant of FollowsAfter: remove_follower forgets the list of followers.
FollowsAfterGoodbye(stage, f, v) ==
    CASE stage = "follow" -> [f EXCEPT !.following = @ \cup {v}]
      [] stage = "unfollow" -> [f EXCEPT !.following = @ \ {v}]
      [] stage = "addFollower" -> [f EXCEPT !.followers = @ \cup {v}]
      [] stage = "dropFollower" -> f

\* follows.json after follow, unfollow, record_follower and remove_follower.
FollowsAfter(stage, f, v) ==
    CASE stage = "follow" -> [f EXCEPT !.following = @ \cup {v}]
      [] stage = "unfollow" -> [f EXCEPT !.following = @ \ {v}]
      [] stage = "addFollower" -> [f EXCEPT !.followers = @ \cup {v}]
      [] stage = "dropFollower" -> [f EXCEPT !.followers = @ \ {v}]

WriteFollows(u, x) ==
    /\ Stage(u, x) \in FollowsStages /\ task[u][x].snap # Nothing
    /\ follows' = [follows EXCEPT ![u] = FollowsAfter(Stage(u, x), task[u][x].snap, task[u][x].arg)]
    /\ Advance(u, x, task[u][x].arg)
    /\ NoEvent
    /\ UNCHANGED <<feed, posts, profile, heads, notes, joined, booted, counts>>

\* read_follows takes a file it cannot read for empty: what is written then, to
\* follows.json or to its mirror, has only what the operation adds.  A failed
\* write ends what the user began; a handler ignores it.
NoFollows == [followers |-> {}, following |-> {}]

FollowsFails(u, x) ==
    LET s == task[u][x].snap
    IN  /\ \/ /\ Stage(u, x) \in {"follow", "unfollow"}
              /\ \/ s = Nothing /\ task' = [task EXCEPT ![u][x].snap = NoFollows]
                 \/ s # Nothing /\ Abandon(u, x)
           \/ /\ Stage(u, x) \in {"addFollower", "dropFollower"} /\ s # Nothing
              /\ Advance(u, x, task[u][x].arg)
           \/ /\ Stage(u, x) = "mirror" /\ s = Nothing
              /\ task' = [task EXCEPT ![u][x].snap = [profile[u] EXCEPT !.followers = {}, !.following = {}]]
        /\ Fault("follows", 1)
        /\ UNCHANGED <<files, joined, queue, booted, counts>>

\* sync_profile_follows copied follows.json into what it read; set_posts_head
\* writes the head.
WriteProfile(u, x) ==
    LET s == task[u][x].snap
        arg == task[u][x].arg
    IN  /\ Stage(u, x) \in ProfileStages /\ s # Nothing
        /\ profile' = [profile EXCEPT ![u] = IF Stage(u, x) = "head" THEN [s EXCEPT !.head = arg]
                                            ELSE s]
        /\ Advance(u, x, arg)
        /\ NoEvent
        /\ UNCHANGED <<feed, posts, follows, heads, notes, joined, booted, counts>>

\* The profile cannot be read or written: it stays as it is, and a follower is
\* not handed the head.
ProfileFails(u, x) ==
    /\ Stage(u, x) \in ProfileStages \cup {"hand"}
    /\ Fault("profile", 1)
    /\ Advance(u, x, task[u][x].arg)
    /\ UNCHANGED <<files, joined, queue, booted, counts>>

-----------------------------------------------------------------------------
(* Stages that publish.                                                    *)

OwnPosts(u) == {feed[u][i].cid : i \in {k \in DOMAIN feed[u] : feed[u][k].author = u}} \ {Nothing}

\* publish_own_index: pin the index of my own pinned posts; when that fails, or
\* the feed cannot be read, there is no head to record or to announce.
publish_own_index(u, x) ==
    /\ Stage(u, x) = "index"
    /\ \/ Advance(u, x, OwnPosts(u)) /\ UNCHANGED faults
       \/ Abandon(u, x) /\ \E kind \in {"unpinned", "feed"} : Fault(kind, 1)
    /\ UNCHANGED <<files, joined, queue, booted, counts>>

\* The head, the deletion, the follow request and the goodbye go out.  What a
\* new follower is handed is the head of the profile, if there is one.
Publish(u, x) ==
    LET arg == task[u][x].arg
    IN  /\ \/ Stage(u, x) = "announce" /\ sign_and_publish(u, u, "posts.head", arg)
           \/ Stage(u, x) = "tell" /\ sign_and_publish(u, u, "post.delete", arg)
           \/ Stage(u, x) = "request" /\ sign_and_publish_follow(u, arg, "follow.request", Nothing)
           \/ Stage(u, x) = "goodbye" /\ sign_and_publish_follow(u, arg, "follow.unfollow", Nothing)
           \/ /\ Stage(u, x) = "hand"
              /\ IF profile[u].head = Nothing THEN NoEvent
                 ELSE sign_and_publish_follow(u, arg, "posts.head", profile[u].head)
        /\ Advance(u, x, arg)
        /\ UNCHANGED <<files, joined, booted, counts>>

\* push_notification: the list is cut at its cap.
Pushed(n) == Min({MaxNotes, n + 1})

\* A list that cannot be read is taken for empty; a failed write is ignored.
push_notification(u, x) ==
    /\ Stage(u, x) = "notify"
    /\ \/ notes' = [notes EXCEPT ![u] = Pushed(@)] /\ UNCHANGED faults
       \/ notes' = [notes EXCEPT ![u] = Pushed(0)] /\ Fault("other", 1)
       \/ UNCHANGED notes /\ Fault("other", 1)
    /\ Advance(u, x, Nothing)
    /\ UNCHANGED <<feed, posts, follows, profile, heads, joined, queue, booted, counts>>

mark_all_read(u) ==
    /\ notes[u] > 0 /\ Click
    /\ notes' = [notes EXCEPT ![u] = 0]
    /\ NoEvent
    /\ UNCHANGED <<feed, posts, follows, profile, heads, joined, task, booted, made>>

-----------------------------------------------------------------------------
(* The poll loop: draining a topic and handling its next event.            *)

\* The topics of extra_topics: one's own posts, those of the users one
\* follows, the follow inbox.
extra_topics(u) == {u} \cup follows[u].following \cup {Inbox}

Drained(u, t) == queue' = [queue EXCEPT ![u][t] = Tail(@)]

\* post.create.v2: bail out if the post is there, if the store has not got it or
\* if the feed cannot be read.  The post is listed even if its record could not
\* be written.
handle_post_create(u, e, found) ==
    /\ e.type = "post.create.v2"
    /\ IF e.data \in Cids(feed[u]) \/ ~found
       THEN UNCHANGED <<posts, task>> /\ Fault("missed", IF found THEN 0 ELSE 1)
       ELSE /\ \/ posts' = [posts EXCEPT ![u] = Recorded(u, {e.data})] /\ UNCHANGED faults
               \/ UNCHANGED posts /\ Fault("record", 1)
            /\ Begin(u, "poll", <<"insert">>, Entry(u, e.data, e.data))
    /\ UNCHANGED heads

\* posts.head: remember the head, then merge its index.  The write may fail, or
\* the file have been taken for empty.
handle_posts_head(u, e) ==
    /\ e.type = "posts.head"
    /\ \/ heads' = [heads EXCEPT ![u][e.from] = e.data] /\ UNCHANGED faults
       \/ UNCHANGED heads /\ Fault("other", 1)
       \/ /\ heads' = [heads EXCEPT ![u] = [v \in Users |-> IF v = e.from THEN e.data ELSE Nothing]]
          /\ Fault("other", 1)
    /\ Begin(u, "poll", <<"merge">>, e.data)
    /\ UNCHANGED posts

\* post.delete: drop the post of that id from the index, and its record.
handle_post_delete(u, e) ==
    /\ e.type = "post.delete"
    /\ Begin(u, "poll", <<"filter">>, e.data)
    /\ UNCHANGED <<posts, heads, faults>>

\* post.react and post.comment: the overlay of the record of that id, unless it
\* cannot be read or written.
handle_overlay(u, e) ==
    /\ e.type \in {"post.react", "post.comment"}
    /\ \/ /\ posts' = [posts EXCEPT ![u] = {IF r.id # e.data[1] THEN r
                                            ELSE IF e.type = "post.react"
                                                 THEN [r EXCEPT !.likes = Toggled(@, e.data[2])]
                                                 ELSE [r EXCEPT !.comments = @ + 1] : r \in @}]
          /\ UNCHANGED faults
       \/ UNCHANGED posts /\ Fault("other", 1)
    /\ UNCHANGED <<heads, task>>

\* follow.request: record the follower, hand over the head, notify.  When the
\* read of the follows fails nobody is a follower yet, and none is kept.
handle_follow_request(u, e) ==
    /\ e.type = "follow.request"
    /\ \/ /\ Begin(u, "poll", IF e.from \in follows[u].followers THEN <<"hand", "notify">>
                              ELSE <<"addFollower", "mirror", "hand", "notify">>, e.from)
          /\ UNCHANGED faults
       \/ /\ task' = [task EXCEPT ![u]["poll"] = [todo |-> <<"addFollower", "mirror", "hand", "notify">>,
                                                  arg |-> e.from, snap |-> NoFollows]]
          /\ Fault("follows", 1)
    /\ UNCHANGED <<posts, heads>>

\* follow.unfollow: drop the follower, if the follows can be read.
handle_follow_unfollow(u, e) ==
    /\ e.type = "follow.unfollow"
    /\ \/ /\ IF e.from \in follows[u].followers
             THEN Begin(u, "poll", <<"dropFollower", "mirror">>, e.from)
             ELSE UNCHANGED task
          /\ UNCHANGED faults
       \/ UNCHANGED task /\ Fault("follows", 1)
    /\ UNCHANGED <<posts, heads>>

\* consume_topic and route.
Handle(u, t) ==
    /\ Free(u, "poll") /\ t \in extra_topics(u) /\ queue[u][t] # <<>>
    /\ Drained(u, t)
    /\ LET e == Head(queue[u][t])
       IN  \/ \E found \in BOOLEAN : handle_post_create(u, e, found)
           \/ handle_posts_head(u, e) \/ handle_post_delete(u, e) \/ handle_overlay(u, e)
           \/ handle_follow_request(u, e) \/ handle_follow_unfollow(u, e)
    /\ UNCHANGED <<feed, follows, profile, notes, joined, booted, counts>>

\* Once per session the own index is published, without an announcement ...
PublishOwnOnce(u) ==
    /\ Free(u, "fill") /\ ~booted[u]
    /\ booted' = [booted EXCEPT ![u] = TRUE]
    /\ Begin(u, "fill", <<"index", "head">>, Nothing)
    /\ NoEvent
    /\ UNCHANGED <<files, joined, counts>>

\* ... and the known heads are merged again, over and over; a round that finds
\* nothing missing changes nothing.
MergeKnownHeads(u) ==
    /\ Free(u, "fill")
    /\ \E v \in {w \in Users : heads[u][w] # Nothing} :
          /\ Missing(feed[u], heads[u][v]) # {}
          /\ Begin(u, "fill", <<"merge">>, heads[u][v])
    /\ NoEvent
    /\ UNCHANGED <<files, joined, booted, counts>>

maybe_backfill_known_heads(u) == PublishOwnOnce(u) \/ MergeKnownHeads(u)

\* The app of u is reloaded; its files and the provider's log stay.
Reload(u) ==
    /\ Fault("reload", 1)
    /\ task' = [task EXCEPT ![u] = [x \in Tasks |-> Idle]]
    /\ booted' = [booted EXCEPT ![u] = FALSE]
    /\ UNCHANGED <<files, joined, queue, counts>>

Step(u, x) ==
    \/ write_post(u, x) \/ ReadFile(u, x) \/ WriteFeed(u, x) \/ WriteFollows(u, x)
    \/ FeedFails(u, x) \/ FollowsFails(u, x) \/ ProfileFails(u, x) \/ WriteProfile(u, x)
    \/ publish_own_index(u, x) \/ Publish(u, x) \/ push_notification(u, x)

SocialNext ==
    \/ \E u \in Authors, pinned \in BOOLEAN : create_post(u, pinned)
    \/ \E u \in Users : \E p \in DOMAIN made : delete_post(u, p)
    \/ \E u \in Users : \E r \in posts[u], kind \in {"post.react", "post.comment"} : Overlay(u, r, kind)
    \/ \E u \in Readers, v \in Users : follow_user_with(u, v) \/ unfollow_user(u, v)
    \/ \E u \in Users, x \in Tasks : Step(u, x)
    \/ \E u \in Users : mark_all_read(u)
    \/ \E u \in Users : \E t \in Users \cup {Inbox} : Handle(u, t)
    \/ \E u \in Users : maybe_backfill_known_heads(u) \/ Reload(u)

SocialSpec == SocialInit /\ [][SocialNext]_socialVars

\* What the app of u does without a click: its tasks go on once begun, the poll
\* loop drains its topics, and the backfill comes round every fifteen seconds.
Run(u) ==
    \/ \E x \in Tasks : Step(u, x)
    \/ \E t \in Users \cup {Inbox} : Handle(u, t)
    \/ maybe_backfill_known_heads(u)

\* The app of every user keeps running.
Fairness == \A u \in Users : WF_socialVars(Run(u))

FairSocial == SocialSpec /\ Fairness

-----------------------------------------------------------------------------
(* Properties.                                                             *)

Quiet(u) == \A x \in Tasks : task[u][x] = Idle

\* A post that came both as a live event and out of an index is in the feed
\* once, and whatever the feed lists has its record, unless a reload cut an
\* operation off or a call failed on a record or the feed: a post is listed even
\* if its record could not be written, and a deletion that cannot write the feed
\* has removed the record already.
NoTwins ==
    \A u \in Users :
        /\ \A i, j \in DOMAIN feed[u] : feed[u][i].id = feed[u][j].id => i = j
        /\ Quiet(u) /\ ~Faulty("reload") /\ ~Faulty("record") /\ ~Faulty("feed") =>
             \A i \in DOMAIN feed[u] : \E r \in posts[u] : r.id = feed[u][i].id

\* When no event was lost, no app reloaded, no call failed on follows.json, and
\* nothing is under way, the two ends of every follow agree, although the same
\* file takes whom one follows and who follows one; and the profile mirrors it,
\* unless a call failed on the profile.
FollowsAgree ==
    (/\ ~Faulty("lost") /\ ~Faulty("reload") /\ ~Faulty("follows")
     /\ \A u \in Users : Quiet(u) /\ queue[u][Inbox] = <<>>) =>
        \A u \in Users :
            /\ \A v \in Users : v \in follows[u].following <=> u \in follows[v].followers
            /\ ~Faulty("profile") => /\ profile[u].followers = follows[u].followers
                                     /\ profile[u].following = follows[u].following

Announced(u) == IF profile[u].head = Nothing THEN {} ELSE profile[u].head

\* The head on the profile catches up with the posts that are pinned, although
\* the app may be reloaded between the two: the next session publishes it.
\* A failed pin of the index leaves it behind, a feed that cannot be read for
\* it, and a failed call on the profile it is written to.
HeadCatchesUp ==
    \A u \in Authors : []<>(\/ OwnPosts(u) \subseteq Announced(u)
                           \/ Faulty("unpinned") \/ Faulty("feed") \/ Faulty("profile"))

\* Whatever the mesh dropped and the content store missed for a while, the
\* feed ends up with every post of an index whose head became known.
CatchesUp ==
    \A u \in Readers :
        []<>(\A v \in Users : heads[u][v] # Nothing => heads[u][v] \subseteq Cids(feed[u]))

\* What delete_post says of its event: it takes the post out of the feed of a
\* follower who has drained it, and has not been told of it again.
DeleteReaches ==
    \A u, v \in Users : \A p \in DOMAIN made :
        (/\ u # v /\ made[p] = u /\ faults = <<>>
         /\ Quiet(u) /\ Quiet(v) /\ \A t \in Users : queue[v][t] = <<>>
         /\ \A r \in posts[u] : r.id # IdOf(u, p)
         /\ v \in follows[u].followers /\ u \in follows[v].following)
        => p \notin Cids(feed[v])
=============================================================================
