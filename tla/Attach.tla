------------------------------- MODULE Attach -------------------------------
(***************************************************************************)
(* Attachments: picking, encrypting and uploading a file, chunk by chunk,  *)
(* to the blobs provider or, failing that, the content provider; the       *)
(* reference that rides in the message; and the view that fetches it at    *)
(* the other end, through the cache of contents.  One sender, one reader.  *)
(*                                                                         *)
(* Every upload seals the file under a fresh key, so its chunks are named  *)
(* by the upload and their number; a fetch that gets other than all of     *)
(* them in order fails to decrypt.                                         *)
(***************************************************************************)
EXTENDS Integers, SequencesExt

CONSTANTS Files,
          Chunks,     \* Chunks[f]: sizes of the ciphertext chunks of f; <<>> if f rides inline
          MaxEntries, \* CID_CACHE_MAX_ENTRIES
          MaxBytes,   \* CID_CACHE_MAX_BYTES
          MaxEntry,   \* CID_CACHE_MAX_ENTRY_BYTES
          MaxUploads, \* bound: uploads
          MaxFetches, \* bound: fetches (views mounted, and taps on retry)
          MaxFaults,  \* bound: provider failures and restarts, and reloads of the sender's page
          None

ASSUME AttachConstants ==
    /\ \A f \in Files : Chunks[f] \in Seq(Nat \ {0})
    /\ \A n \in {MaxEntries, MaxBytes, MaxEntry, MaxUploads, MaxFetches, MaxFaults} : n \in Nat
    /\ MaxEntries > 0 /\ MaxEntry <= MaxBytes

VARIABLES pending,   \* files picked in the composer
          sending,   \* the send under way: files to go, references so far; None when not busy
          uploads,   \* uploads[n]: the file of upload n
          upload,    \* the upload under way: [via, refs], or None
          node,      \* the blobs provider's endpoint id; None while it is down
          blobs,     \* chunks in the blobs store
          blocks,    \* chunks in the content store
          pins,      \* those of them that are pinned
          conv,      \* attachments of the messages in the sender's conversation
          deleted,   \* attachments of conversations the sender has deleted
          deletion,  \* those a deletion under way has still to unpin, or None
          doomed,    \* those of messages that were in the log when its deletion began
          inbox,     \* attachments that arrived in the reader's conversation
          cache,     \* CidCache: keys in order of insertion, and total_bytes
          view,      \* view[n]: what AttachmentView shows for upload n: [state, url]
          fetches,   \* fetches begun: the upload fetched, the chunks it has got (None when it is
                     \* over), and whether its timeout is still to fire
          faults,    \* failures, restarts and reloads so far
          respawns   \* how often the blobs provider was restarted

attachVars == <<pending, sending, uploads, upload, node, blobs, blocks, pins, conv, deleted,
                deletion, doomed, inbox, cache, view, fetches, faults, respawns>>
sender == <<pending, sending, uploads, upload>>
stores == <<node, blobs, blocks, pins, respawns>>
convs == <<conv, deleted, deletion, doomed, inbox>>
reader == <<cache, view, fetches>>

Ups == 1..MaxUploads
Tries == 1..MaxFetches

\* The chunks of upload n, in order.
ChunksOf(n) == [i \in DOMAIN Chunks[uploads[n]] |-> <<n, i>>]
SizeOf(chunk) == Chunks[uploads[chunk[1]]][chunk[2]]

AttachInit ==
    /\ pending = <<>> /\ sending = None /\ uploads = <<>> /\ upload = None
    /\ node \in {1, None} /\ blobs = {} /\ blocks = {} /\ pins = {}
    /\ conv = {} /\ deleted = {} /\ deletion = None /\ doomed = {} /\ inbox = {}
    /\ cache = [order |-> <<>>, total |-> 0]
    /\ view = [n \in Ups |-> [state |-> "none", url |-> FALSE]]
    /\ fetches = <<>>
    /\ faults = 0 /\ respawns = 0

Fault == faults < MaxFaults /\ faults' = faults + 1

-----------------------------------------------------------------------------
(* The sender.                                                             *)

\* A file is picked in the composer.
on_file(f) ==
    /\ Len(uploads) + Len(pending) + (IF sending = None THEN 0 ELSE Len(sending.files)) < MaxUploads
    /\ pending' = Append(pending, f)
    /\ UNCHANGED <<sending, uploads, upload, stores, convs, reader, faults>>

\* Its chip is crossed out.
Unpick(i) ==
    /\ i \in DOMAIN pending
    /\ pending' = RemoveAt(pending, i)
    /\ UNCHANGED <<sending, uploads, upload, stores, convs, reader, faults>>

\* Send, unless one is under way: the composer is cleared at once.
send ==
    /\ sending = None /\ pending # <<>>
    /\ sending' = [files |-> pending, atts |-> <<>>]
    /\ pending' = <<>>
    /\ UNCHANGED <<uploads, upload, stores, convs, reader, faults>>

Attached(n, via, refs) == [up |-> n, via |-> via, refs |-> refs]

\* The current file got its reference, or none.
NextFile(atts) == sending' = [files |-> Tail(sending.files), atts |-> sending.atts \o atts]

\* upload_attachment of the next file: inline if it is small, else chunk by
\* chunk, first to the blobs provider.
upload_attachment ==
    LET f == Head(sending.files)
        n == Len(uploads) + 1
    IN  /\ sending # None /\ upload = None /\ sending.files # <<>>
        /\ uploads' = Append(uploads, f)
        /\ IF Chunks[f] = <<>>
           THEN NextFile(<<Attached(n, "inline", <<>>)>>) /\ UNCHANGED upload
           ELSE upload' = [via |-> "blobs", refs |-> <<>>] /\ UNCHANGED sending
        /\ UNCHANGED <<pending, stores, convs, reader, faults>>

Current == Len(uploads)
NextChunk == <<Current, Len(upload.refs) + 1>>

\* Mutant of AllTickets: whatever was added so far will do.
AllTicketsHalf(refs) == Len(refs) >= 1

\* Has every chunk got its ticket (or cid)?
AllTickets(refs) == Len(refs) = Len(ChunksOf(Current))

\* blobs add_bytes: the chunk is stored and a ticket for it minted.
add_bytes ==
    /\ upload # None /\ upload.via = "blobs" /\ ~AllTickets(upload.refs)
    /\ node # None
    /\ blobs' = blobs \cup {NextChunk}
    /\ upload' = [upload EXCEPT !.refs = Append(@, [chunk |-> NextChunk, node |-> node])]
    /\ UNCHANGED <<pending, sending, uploads, node, blocks, pins, respawns, convs, reader, faults>>

\* One chunk failed: nothing of the attempt is used, the content provider gets
\* all of them.
try_upload_blobs_fails ==
    /\ upload # None /\ upload.via = "blobs" /\ ~AllTickets(upload.refs)
    /\ \/ node = None /\ UNCHANGED faults
       \/ node # None /\ Fault
    /\ upload' = [via |-> "content", refs |-> <<>>]
    /\ UNCHANGED <<pending, sending, uploads, stores, convs, reader>>

\* The content provider pins what it has added.
Pinned(chunk) == pins \cup {chunk}

\* publish_bytes: the chunk is added and pinned.
publish_bytes ==
    /\ upload # None /\ upload.via = "content" /\ ~AllTickets(upload.refs)
    /\ blocks' = blocks \cup {NextChunk}
    /\ pins' = Pinned(NextChunk)
    /\ upload' = [upload EXCEPT !.refs = Append(@, [chunk |-> NextChunk, node |-> None])]
    /\ UNCHANGED <<pending, sending, uploads, node, blobs, respawns, convs, reader, faults>>

\* It fails, before or after the block was added: the file is skipped with a
\* warning.  The chunks before it stay pinned.
publish_bytes_fails ==
    /\ upload # None /\ upload.via = "content" /\ ~AllTickets(upload.refs)
    /\ Fault
    /\ \/ blocks' = blocks \cup {NextChunk}
       \/ UNCHANGED blocks
    /\ upload' = None
    /\ NextFile(<<>>)
    /\ UNCHANGED <<pending, uploads, node, blobs, pins, respawns, convs, reader>>

\* All chunks are up.
Uploaded ==
    /\ upload # None /\ AllTickets(upload.refs)
    /\ upload' = None
    /\ NextFile(<<Attached(Current, upload.via, upload.refs)>>)
    /\ UNCHANGED <<pending, uploads, stores, convs, reader, faults>>

\* send_message_with_attachments; when no file made it and there is no text,
\* the user is told instead.
Sent ==
    /\ sending # None /\ upload = None /\ sending.files = <<>>
    /\ sending' = None
    /\ conv' = conv \cup ToSet(sending.atts)
    /\ inbox' = inbox \cup ToSet(sending.atts)
    /\ UNCHANGED <<pending, uploads, upload, deleted, deletion, doomed, stores, reader, faults>>

\* The cid an attachment carries: that of its first chunk, if it has one.
Cid(att) == IF att.via = "content" THEN {att.refs[1].chunk} ELSE {}

\* delete_conversation: the contact is unlisted and the log read.
delete_conversation ==
    /\ deletion = None /\ conv # {}
    /\ deletion' = conv
    /\ doomed' = doomed \cup conv
    /\ UNCHANGED <<sender, stores, conv, deleted, inbox, reader, faults>>

\* The cid of each attachment in it is unpinned; a failure is ignored.
unpin(att) ==
    /\ deletion # None /\ att \in deletion
    /\ deletion' = deletion \ {att}
    /\ \/ pins' = pins \ Cid(att) /\ UNCHANGED faults
       \/ UNCHANGED pins /\ Fault
    /\ UNCHANGED <<sender, node, blobs, blocks, respawns, conv, deleted, doomed, inbox, reader>>

\* Then the log goes, with whatever has come into it since.
remove_log ==
    /\ deletion = {}
    /\ deletion' = None
    /\ deleted' = deleted \cup conv
    /\ conv' = {}
    /\ UNCHANGED <<sender, stores, doomed, inbox, reader, faults>>

\* The sender's page is closed and opened again: what was picked, uploaded or
\* deleted by halves stays so.
PageReload ==
    /\ Fault
    /\ pending' = <<>> /\ sending' = None /\ upload' = None /\ deletion' = None
    /\ UNCHANGED <<uploads, stores, conv, deleted, doomed, inbox, reader>>

-----------------------------------------------------------------------------
(* The providers.                                                          *)

\* The blobs provider goes down; its store stays.
BlobsDown ==
    /\ node # None /\ Fault
    /\ node' = None
    /\ UNCHANGED <<sender, blobs, blocks, pins, respawns, convs, reader>>

\* Node::spawn binds an endpoint with a new id.
spawn ==
    /\ node = None
    /\ respawns' = respawns + 1
    /\ node' = respawns' + 1
    /\ UNCHANGED <<sender, blobs, blocks, pins, convs, reader, faults>>

\* The store behind the content provider reaps a block that is not pinned.
Reap(chunk) ==
    /\ chunk \in blocks \ pins
    /\ blocks' = blocks \ {chunk}
    /\ UNCHANGED <<sender, node, blobs, pins, respawns, convs, reader, faults>>

-----------------------------------------------------------------------------
(* The reader: the cache, and one AttachmentView per attachment.           *)

\* What total_bytes adds up.
SumOf(sizes) ==
    LET upTo[i \in 0..Len(sizes)] == IF i = 0 THEN 0 ELSE upTo[i - 1] + sizes[i]
    IN  upTo[Len(sizes)]

\* What the entries weigh.
Total(order) == SumOf([i \in DOMAIN order |-> SizeOf(order[i])])

\* Mutant of Evicted: the bytes of what is evicted are still counted.
EvictedMiscounted(c, size) ==
    LET fits(k) == Len(c.order) - k < MaxEntries /\ c.total - Total(SubSeq(c.order, 1, k)) + size <= MaxBytes
        k == CHOOSE j \in 0..Len(c.order) :
                (fits(j) \/ j = Len(c.order)) /\ \A i \in 0..(j - 1) : ~fits(i)
    IN  [order |-> SubSeq(c.order, k + 1, Len(c.order)), total |-> c.total]

\* The oldest entries go until there is room for size more bytes, or none is
\* left.
Evicted(c, size) ==
    LET fits(k) == Len(c.order) - k < MaxEntries /\ c.total - Total(SubSeq(c.order, 1, k)) + size <= MaxBytes
        k == CHOOSE j \in 0..Len(c.order) :
                (fits(j) \/ j = Len(c.order)) /\ \A i \in 0..(j - 1) : ~fits(i)
    IN  [order |-> SubSeq(c.order, k + 1, Len(c.order)),
         total |-> c.total - Total(SubSeq(c.order, 1, k))]

\* CidCache::put.
put(c, chunk) ==
    LET e == Evicted(c, SizeOf(chunk))
    IN  IF SizeOf(chunk) > MaxEntry \/ chunk \in ToSet(c.order) THEN c
        ELSE [order |-> Append(e.order, chunk), total |-> e.total + SizeOf(chunk)]

Att(n) == CHOOSE a \in inbox : a.up = n
Arrived(n) == \E a \in inbox : a.up = n

\* do_fetch: the first fetch when the view is mounted, and each tap on retry.
do_fetch(n) ==
    /\ Arrived(n) /\ view[n].state \in {"none", "error"} /\ Len(fetches) < MaxFetches
    /\ view' = [view EXCEPT ![n] = [state |-> "loading", url |-> FALSE]]
    /\ fetches' = Append(fetches, [up |-> n, got |-> <<>>, timer |-> TRUE])
    /\ UNCHANGED <<sender, stores, convs, cache, faults>>

\* Mutant of Expired: the timeout only logs.
ExpiredQuietly(v) == v

\* After 25 seconds without bytes the view offers a retry.
Expired(v) == IF v.url THEN v ELSE [v EXCEPT !.state = "error"]

Timeout(k) ==
    /\ k \in DOMAIN fetches /\ fetches[k].timer
    /\ fetches' = [fetches EXCEPT ![k].timer = FALSE]
    /\ view' = [view EXCEPT ![fetches[k].up] = Expired(@)]
    /\ UNCHANGED <<sender, stores, convs, cache, faults>>

Running(k) == k \in DOMAIN fetches /\ fetches[k].got # None
Wanted(k) == Att(fetches[k].up)
Fetching(k) == Running(k) /\ Len(fetches[k].got) < Len(Wanted(k).refs)
NextRef(k) == Wanted(k).refs[Len(fetches[k].got) + 1]

GotChunk(k) == fetches' = [fetches EXCEPT ![k].got = Append(@, NextRef(k).chunk)]

\* A chunk of a blobs attachment comes from the endpoint its ticket names.
fetch_bytes(k) ==
    /\ Fetching(k) /\ Wanted(k).via = "blobs"
    /\ node # None /\ node = NextRef(k).node /\ NextRef(k).chunk \in blobs
    /\ GotChunk(k)
    /\ UNCHANGED <<sender, stores, convs, cache, view, faults>>

\* A chunk of a content attachment comes out of the cache or the store, and in
\* the second case goes into the cache.  The look-up, the fetch and the put are
\* one step here: put looks again whether the chunk is there.
get_bytes(k) ==
    LET c == NextRef(k).chunk
    IN  /\ Fetching(k) /\ Wanted(k).via = "content"
        /\ \/ c \in ToSet(cache.order) /\ UNCHANGED cache
           \/ c \notin ToSet(cache.order) /\ c \in blocks /\ cache' = put(cache, c)
        /\ GotChunk(k)
        /\ UNCHANGED <<sender, stores, convs, view, faults>>

\* Is the next chunk out of reach, as things are?
Gone(k) ==
    IF Wanted(k).via = "blobs" THEN node # NextRef(k).node \/ node = None
    ELSE NextRef(k).chunk \notin blocks \cup ToSet(cache.order)

\* The fetch fails: the chunk is gone, or the provider gave up on it.
FetchFails(k) ==
    /\ Fetching(k)
    /\ \/ Gone(k) /\ UNCHANGED faults
       \/ ~Gone(k) /\ Fault
    /\ fetches' = [fetches EXCEPT ![k].got = None]
    /\ view' = [view EXCEPT ![fetches[k].up].state = "error"]
    /\ UNCHANGED <<sender, stores, convs, cache>>

\* All chunks are there: they are joined, decrypted and shown.
Decrypted(k) ==
    LET n == fetches[k].up
    IN  /\ Running(k) /\ ~Fetching(k)
        /\ fetches' = [fetches EXCEPT ![k].got = None]
        /\ view' = [view EXCEPT ![n] = IF fetches[k].got = ChunksOf(n) THEN [state |-> "ready", url |-> TRUE]
                                       ELSE [@ EXCEPT !.state = "error"]]
        /\ UNCHANGED <<sender, stores, convs, cache, faults>>

AttachNext ==
    \/ \E f \in Files : on_file(f)
    \/ \E i \in Ups : Unpick(i)
    \/ send \/ upload_attachment \/ add_bytes \/ try_upload_blobs_fails \/ publish_bytes
    \/ publish_bytes_fails \/ Uploaded \/ Sent \/ delete_conversation \/ remove_log \/ PageReload
    \/ \E a \in doomed : unpin(a)
    \/ BlobsDown \/ spawn \/ \E c \in blocks : Reap(c)
    \/ \E n \in Ups : do_fetch(n)
    \/ \E k \in Tries : Timeout(k) \/ fetch_bytes(k) \/ get_bytes(k) \/ FetchFails(k) \/ Decrypted(k)

AttachSpec == AttachInit /\ [][AttachNext]_attachVars

\* Timers fire.
FairAttach == AttachSpec /\ \A k \in Tries : WF_attachVars(Timeout(k))

-----------------------------------------------------------------------------
(* Properties.                                                             *)

\* What a message refers to is the whole file at one store, all or nothing,
\* whatever failed on the way, and it can be fetched until the deletion of its
\* conversation begins: a content attachment is pinned, a blobs attachment is
\* in the store and its tickets name the endpoint, unless the provider was
\* restarted.  From then on the pins go before the log does, and a reload in
\* between leaves messages whose files are not pinned.
Reachable ==
    \A a \in conv \cup deleted :
        a.via # "inline" =>
            /\ [i \in DOMAIN a.refs |-> a.refs[i].chunk] = ChunksOf(a.up)
            /\ a \in conv \ doomed /\ a.via = "content" => ToSet(ChunksOf(a.up)) \subseteq pins
            /\ a.via = "blobs" =>
                 \A i \in DOMAIN a.refs : /\ a.refs[i].chunk \in blobs
                                          /\ respawns = 0 => a.refs[i].node = 1

\* The cache of contents keeps its two bounds and its books: total_bytes is
\* what the entries weigh, and no entry is listed twice.
CacheSound ==
    /\ cache.total = Total(cache.order)
    /\ Len(cache.order) <= MaxEntries /\ cache.total <= MaxBytes
    /\ IsInjective(cache.order)

\* A view never loads for ever, whatever becomes of its fetches: a timeout
\* turns it into one that offers a retry.
NeverStuck == \A n \in Ups : view[n].state = "loading" ~> view[n].state # "loading"

\* What delete_conversation says of the files of the conversation: none
\* lingers pinned in the content store with nothing pointing at it.
NothingLingers ==
    \A a \in deleted : a.via = "content" /\ a \notin conv => ToSet(ChunksOf(a.up)) \cap pins = {}
=============================================================================
