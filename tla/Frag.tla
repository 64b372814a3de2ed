-------------------------------- MODULE Frag --------------------------------
(***************************************************************************)
(* Fragmentation of oversized direct-message wires over gossip             *)
(* (hey-core/src/api/frag.rs), with the sending loop publish_wire of       *)
(* outbox.rs in front of it and the draining loop consume_v2_queue of      *)
(* peer_receiver.rs behind it.                                             *)
(*                                                                         *)
(* A wire is a sequence of symbols, one per CHUNK_BYTES-th of a real       *)
(* chunk.  Every call of publish_wire is an attempt with an id of its own  *)
(* (fragment() draws a fresh uuid per call), so a retry of the same wire   *)
(* is another attempt.  Several attempts may be open at once: a send from  *)
(* the interface and the outbox flush interleave at every await.  The      *)
(* gossip network may lose, delay, duplicate and reorder fragments.        *)
(***************************************************************************)
EXTENDS Integers, FiniteSets, SequencesExt

CONSTANTS Wires,              \* the wires that may be published
          Ids,                \* attempt ids, i.e. the uuids fragment() draws
          CHUNK_BYTES,        \* symbols carried per fragment
          MaxFrags,           \* bound: contents of the longest wire
          REASSEMBLY_TTL,     \* age at which a partial is dropped
          MaxClock,           \* bound: the last instant considered
          MaxCopies,          \* bound: arrivals of one fragment
          MaxRestarts,        \* bound: reloads of the receiving app
          NoWire, NoPartial   \* "never published" and "no buffer entry"

VARIABLES attempt,   \* attempt[a]: the wire attempt a publishes, or NoWire
          phase,     \* phase[a]: "idle", "open", "ok" or "failed"
          onNet,     \* onNet[a]: how many contents of a reached the network
          arrived,   \* arrived[a][i]: arrivals of content i of a
          buf,       \* the receiver's BUF: buf[a] is a Partial or NoPartial
          handed,    \* handed[a]: what a's contents made receive_v2_wire get
          since,     \* since[a]: contents of a that arrived since the reload
          firstAt,   \* firstAt[a]: when the first of these arrived
          restarts,  \* reloads so far
          clock      \* plat::now_ms

vars == <<attempt, phase, onNet, arrived, buf, handed, since, firstAt,
          restarts, clock>>

-----------------------------------------------------------------------------
(* fragment(): how a wire is cut.                                          *)

NeedsFragment(w) == Len(w) > CHUNK_BYTES

\* len.div_ceil(CHUNK_BYTES); a wire that fits is published as it is.
FragCount(w) ==
    IF NeedsFragment(w) THEN (Len(w) + CHUNK_BYTES - 1) \div CHUNK_BYTES ELSE 1

\* wire[start..end] for the fragment of index i.
Slice(w, i) ==
    LET start == i * CHUNK_BYTES
        end   == IF start + CHUNK_BYTES < Len(w) THEN start + CHUNK_BYTES
                                                 ELSE Len(w)
    IN  SubSeq(w, start + 1, end)

\* What one gossip_send carries: a Fragment, or the untouched wire.
Content(w, i) == IF NeedsFragment(w) THEN Slice(w, i) ELSE w

Indices(w) == 0 .. FragCount(w) - 1

\* The chunks pushed one after the other, in index order.
JoinParts(parts, n) == FlattenSeq([k \in 1..n |-> parts[k - 1]])

WholeParts(w) == [i \in Indices(w) |-> Content(w, i)]

\* Cutting a wire and joining the pieces gives the wire back.
ASSUME RoundTrip ==
    \A w \in Wires : JoinParts(WholeParts(w), FragCount(w)) = w

Contents == {Content(w, i) : w \in Wires, i \in 0..MaxFrags - 1}

\* A buffer entry: struct Partial.
Partials ==
    [n : 1..MaxFrags, first_ms : 0..MaxClock,
     parts : UNION {[D -> Contents] : D \in SUBSET (0..MaxFrags - 1)}]

ASSUME FragConstants ==
    /\ REASSEMBLY_TTL \in Nat
    /\ MaxFrags \in Nat
    /\ MaxClock \in Nat /\ MaxCopies \in Nat /\ MaxRestarts \in Nat
    /\ \A w \in Wires : FragCount(w) \in 1..MaxFrags
    /\ NoWire \notin Wires /\ NoPartial \notin Partials

-----------------------------------------------------------------------------
(* The receiving side: reassemble().                                       *)

Init ==
    /\ attempt  = [a \in Ids |-> NoWire]
    /\ phase    = [a \in Ids |-> "idle"]
    /\ onNet    = [a \in Ids |-> 0]
    /\ arrived  = [a \in Ids |-> [i \in 0..MaxFrags - 1 |-> 0]]
    /\ buf      = [a \in Ids |-> NoPartial]
    /\ handed   = [a \in Ids |-> <<>>]
    /\ since    = [a \in Ids |-> {}]
    /\ firstAt  = [a \in Ids |-> 0]
    /\ restarts = 0
    /\ clock    = 0

\* Mutant of Retained: the sweep is one time unit too eager.
RetainedTooShort ==
    [b \in Ids |-> IF buf[b] # NoPartial /\ clock - buf[b].first_ms < REASSEMBLY_TTL - 1
                   THEN buf[b] ELSE NoPartial]

\* Partials the retain() of reassemble keeps at this instant.
Retained ==
    [b \in Ids |-> IF buf[b] # NoPartial /\ clock - buf[b].first_ms < REASSEMBLY_TTL
                   THEN buf[b] ELSE NoPartial]

\* entry(id).or_insert_with(..): the partial that takes content of attempt a.
EntryFor(a) ==
    IF Retained[a] # NoPartial THEN Retained[a]
    ELSE [n |-> FragCount(attempt[a]), parts |-> <<>>, first_ms |-> clock]

\* Mutant of Inserted: chunks are pushed in order of arrival.
InsertedAsArrived(parts, i, d) ==
    LET next == Cardinality(DOMAIN parts)
    IN  [j \in DOMAIN parts \cup {next} |-> IF j = next THEN d ELSE parts[j]]

\* p.parts.insert(i, d)
Inserted(parts, i, d) ==
    [j \in DOMAIN parts \cup {i} |-> IF j = i THEN d ELSE parts[j]]

IsComplete(parts, n) ==
    /\ Cardinality(DOMAIN parts) = n
    /\ \A j \in 0..n - 1 : j \in DOMAIN parts

\* Mutant of ReassembleFragment: a completed entry stays in BUF.
ReassembleKeepsEntry(a, i) ==
    LET p     == EntryFor(a)
        parts == Inserted(p.parts, i, Content(attempt[a], i))
    IN  /\ buf' = [Retained EXCEPT ![a] =
                     [n |-> p.n, parts |-> parts, first_ms |-> p.first_ms]]
        /\ handed' = IF IsComplete(parts, p.n)
                     THEN [handed EXCEPT ![a] = Append(@, JoinParts(parts, p.n))]
                     ELSE handed

\* A fragment is buffered; the one that completes its set yields the wire.
ReassembleFragment(a, i) ==
    LET p     == EntryFor(a)
        parts == Inserted(p.parts, i, Content(attempt[a], i))
    IN  \/ /\ ~IsComplete(parts, p.n)
           /\ buf' = [Retained EXCEPT ![a] =
                        [n |-> p.n, parts |-> parts, first_ms |-> p.first_ms]]
           /\ UNCHANGED handed
        \/ /\ IsComplete(parts, p.n)
           /\ buf' = [Retained EXCEPT ![a] = NoPartial]
           /\ handed' = [handed EXCEPT ![a] = Append(@, JoinParts(parts, p.n))]

\* A wire that is no fragment passes straight through.
PassThrough(a) ==
    /\ handed' = [handed EXCEPT ![a] = Append(@, attempt[a])]
    /\ UNCHANGED buf

-----------------------------------------------------------------------------
(* The sending side: publish_wire().                                       *)

\* publish_wire starts on a wire: fragment() draws the id and cuts it.
PublishWire(a, w) ==
    /\ phase[a] = "idle"
    /\ attempt' = [attempt EXCEPT ![a] = w]
    /\ phase'   = [phase EXCEPT ![a] = "open"]
    /\ UNCHANGED <<onNet, arrived, buf, handed, since, firstAt, restarts, clock>>

\* Mutant of SendContent: true is answered before the last content is out.
SendContentEarly(a) ==
    /\ phase[a] = "open"
    /\ onNet' = [onNet EXCEPT ![a] = @ + 1]
    /\ phase' = [phase EXCEPT ![a] =
                    IF onNet[a] + 2 >= FragCount(attempt[a]) THEN "ok" ELSE "open"]
    /\ UNCHANGED <<attempt, arrived, buf, handed, since, firstAt, restarts, clock>>

\* Mutant of SendContent: the loop runs one index too far.
SendContentOneMore(a) ==
    /\ phase[a] = "open"
    /\ onNet' = [onNet EXCEPT ![a] = @ + 1]
    /\ phase' = [phase EXCEPT ![a] =
                    IF onNet[a] = FragCount(attempt[a]) THEN "ok" ELSE "open"]
    /\ UNCHANGED <<attempt, arrived, buf, handed, since, firstAt, restarts, clock>>

\* One gossip_send succeeds; after the last one publish_wire returns true.
SendContent(a) ==
    /\ phase[a] = "open"
    /\ onNet' = [onNet EXCEPT ![a] = @ + 1]
    /\ phase' = [phase EXCEPT ![a] =
                    IF onNet[a] + 1 = FragCount(attempt[a]) THEN "ok" ELSE "open"]
    /\ UNCHANGED <<attempt, arrived, buf, handed, since, firstAt, restarts, clock>>

\* One gossip_send errs or is local_only, and publish_wire returns false at
\* once.  An answer lost on the way back may hide a content that did go out.
SendFails(a) ==
    /\ phase[a] = "open"
    /\ phase' = [phase EXCEPT ![a] = "failed"]
    /\ \E leaked \in {0, 1} : onNet' = [onNet EXCEPT ![a] = @ + leaked]
    /\ UNCHANGED <<attempt, arrived, buf, handed, since, firstAt, restarts, clock>>

\* consume_v2_queue takes one entry; a content may arrive late, in any order
\* and more than once, or never.
ConsumeContent(a, i) ==
    /\ i < onNet[a]
    /\ arrived[a][i] < MaxCopies
    /\ arrived' = [arrived EXCEPT ![a][i] = @ + 1]
    /\ since' = [since EXCEPT ![a] = @ \cup {i}]
    /\ firstAt' = [firstAt EXCEPT ![a] = IF since[a] = {} THEN clock ELSE @]
    /\ IF NeedsFragment(attempt[a]) THEN ReassembleFragment(a, i) ELSE PassThrough(a)
    /\ UNCHANGED <<attempt, phase, onNet, restarts, clock>>

\* BUF is thread-local memory: a reload of the app empties it, while the
\* provider's cursor has already moved past the buffered fragments.
Reload ==
    /\ restarts < MaxRestarts
    /\ restarts' = restarts + 1
    /\ buf'   = [a \in Ids |-> NoPartial]
    /\ since' = [a \in Ids |-> {}]
    /\ UNCHANGED <<attempt, phase, onNet, arrived, handed, firstAt, clock>>

Tick ==
    /\ clock < MaxClock
    /\ clock' = clock + 1
    /\ UNCHANGED <<attempt, phase, onNet, arrived, buf, handed, since, firstAt, restarts>>

Next ==
    \/ \E a \in Ids, w \in Wires : PublishWire(a, w)
    \/ \E a \in Ids : SendContent(a) \/ SendFails(a)
    \/ \E a \in Ids, i \in 0..MaxFrags - 1 : ConsumeContent(a, i)
    \/ Reload
    \/ Tick

Spec == Init /\ [][Next]_vars

-----------------------------------------------------------------------------
(* Properties.                                                             *)

\* The state of publish_wire and reassemble is well formed; no more contents of
\* a wire go out than it was cut into.
TypeOK ==
    /\ attempt \in [Ids -> Wires \cup {NoWire}]
    /\ phase \in [Ids -> {"idle", "open", "ok", "failed"}]
    /\ onNet \in [Ids -> 0..MaxFrags]
    /\ arrived \in [Ids -> [0..MaxFrags - 1 -> 0..MaxCopies]]
    /\ buf \in [Ids -> Partials \cup {NoPartial}]
    /\ handed \in [Ids -> Seq(Wires)]
    /\ since \in [Ids -> SUBSET (0..MaxFrags - 1)]
    /\ firstAt \in [Ids -> 0..MaxClock]
    /\ restarts \in 0..MaxRestarts
    /\ clock \in 0..MaxClock

\* Whatever is handed to receive_v2_wire is, symbol for symbol, the wire of
\* one attempt, all of whose contents went out: no mixture of two attempts,
\* no wire out of the fragments of a publish_wire that gave up half-way.
OnlyWholeWires ==
    \A a \in Ids : \A k \in 1..Len(handed[a]) :
        /\ handed[a][k] = attempt[a]
        /\ onNet[a] = FragCount(attempt[a])

\* Duplicates never multiply: a wire is handed on at most as often as each
\* single one of its contents arrived, whatever was evicted in between.
NoAmplification ==
    \A a \in Ids : attempt[a] # NoWire =>
        \A i \in Indices(attempt[a]) : Len(handed[a]) <= arrived[a][i]

\* Once every content of an attempt has arrived since the last reload, the
\* last of them within REASSEMBLY_TTL of the first, the wire is handed on in
\* that very step: neither another attempt's traffic nor the eviction sweep
\* it causes can cost it a fragment.
HandedWithinTTL ==
    [][\A a \in Ids :
         (/\ attempt[a] # NoWire
          /\ ~(Indices(attempt[a]) \subseteq since[a])
          /\ Indices(attempt[a]) \subseteq since'[a]
          /\ since[a] = {} \/ clock - firstAt[a] < REASSEMBLY_TTL)
         => Len(handed'[a]) = Len(handed[a]) + 1]_vars

\* Seen from above, where only whole wires exist: all contents of a are out.
AllOut == [a \in Ids |-> attempt[a] # NoWire /\ onNet[a] = FragCount(attempt[a])]

Whole == INSTANCE Channel WITH posted <- attempt, verdict <- phase, whole <- AllOut

\* publish_wire with reassemble implements the channel of whole wires: true is
\* answered only with every content out, and each handed wire is one delivery
\* of a whole posted wire; fragments, buffers, eviction, restarts and the clock
\* are invisible stuttering.
ImplementsChannel == Whole!Spec
=============================================================================
