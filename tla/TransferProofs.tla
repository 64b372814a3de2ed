--------------------------- MODULE TransferProofs ---------------------------
(* Proofs about the two ways in which something too large for a single     *)
(* message travels in pieces.                                              *)
(*                                                                         *)
(* Frag, for every set of wires and ids and every bound.                   *)
(*                                                                         *)
(* Attach, for any files, cut into any chunks, any cache limits, and any   *)
(* number of uploads, fetches and failures.                                *)
EXTENDS Frag, Attach, SequenceTheorems, FiniteSetTheorems, WellFoundedInduction, TLAPS

-----------------------------------------------------------------------------
(* The inductive invariant of the fragments.                               *)

\* How far an attempt has got.
Progress ==
    \A a \in Ids :
        /\ phase[a] = "idle" <=> attempt[a] = NoWire
        /\ attempt[a] = NoWire => onNet[a] = 0
        /\ attempt[a] # NoWire => onNet[a] <= FragCount(attempt[a])
        /\ phase[a] = "open" => onNet[a] < FragCount(attempt[a])

\* Nothing is buffered that was not cut from the attempt's own wire and sent.
BufferedParts ==
    \A a \in Ids : buf[a] # NoPartial =>
        /\ attempt[a] # NoWire
        /\ buf[a].n = FragCount(attempt[a])
        /\ DOMAIN buf[a].parts \subseteq 0..onNet[a] - 1
        /\ \A j \in DOMAIN buf[a].parts : buf[a].parts[j] = Content(attempt[a], j)

\* A content that is buffered has arrived once more than it was handed on.
Accounted ==
    \A a \in Ids : attempt[a] # NoWire =>
        \A i \in Indices(attempt[a]) :
            /\ Len(handed[a]) <= arrived[a][i]
            /\ (buf[a] # NoPartial /\ i \in DOMAIN buf[a].parts)
                  => Len(handed[a]) + 1 <= arrived[a][i]

\* A wire handed on was complete, and one never published was not handed on.
HandedWhole ==
    \A a \in Ids :
        /\ attempt[a] = NoWire => handed[a] = <<>>
        /\ handed[a] # <<>> => onNet[a] = FragCount(attempt[a])
        /\ \A k \in 1..Len(handed[a]) : handed[a][k] = attempt[a]

\* Within the TTL of the first arrival the buffer holds all that arrived.
BufferIsSince ==
    \A a \in Ids :
        /\ since[a] # {} => attempt[a] # NoWire
        /\ since[a] = {} => buf[a] = NoPartial
        /\ attempt[a] # NoWire => since[a] \subseteq Indices(attempt[a])
        /\ (/\ since[a] # {} /\ NeedsFragment(attempt[a])
            /\ ~(Indices(attempt[a]) \subseteq since[a])
            /\ clock - firstAt[a] < REASSEMBLY_TTL)
           => /\ buf[a] # NoPartial
              /\ DOMAIN buf[a].parts = since[a]
              /\ buf[a].first_ms = firstAt[a]

IndInv ==
    /\ TypeOK
    /\ Progress
    /\ BufferedParts
    /\ Accounted
    /\ HandedWhole
    /\ BufferIsSince

\* An empty reassembly buffer and no attempt satisfy the invariant.
LEMMA InitInv == Init => IndInv
<1> SUFFICES ASSUME Init PROVE IndInv
    OBVIOUS
<1>1. TypeOK
    BY FragConstants DEF Init, TypeOK
<1>2. Progress /\ HandedWhole
    BY FragConstants DEF Init, Progress, HandedWhole
<1>3. BufferedParts /\ Accounted /\ BufferIsSince
    BY FragConstants DEF Init, BufferedParts, Accounted, BufferIsSince
<1> QED
    BY <1>1, <1>2, <1>3 DEF IndInv

\* A wire in flight is one of Wires, cut into between 1 and MaxFrags contents.
LEMMA AttemptFacts ==
    ASSUME IndInv, NEW a \in Ids, attempt[a] # NoWire
    PROVE  /\ attempt[a] \in Wires
           /\ FragCount(attempt[a]) \in 1..MaxFrags
           /\ Indices(attempt[a]) = 0..FragCount(attempt[a]) - 1
           /\ Indices(attempt[a]) \subseteq 0..MaxFrags - 1
<1>1. attempt[a] \in Wires
    BY DEF IndInv, TypeOK
<1>2. FragCount(attempt[a]) \in 1..MaxFrags /\ MaxFrags \in Nat
    BY <1>1, FragConstants
<1> QED
    BY <1>1, <1>2 DEF Indices

\* publish_wire starting on a fresh id keeps the invariant: the id is in no buffer.
LEMMA PublishWireInv ==
    ASSUME IndInv, NEW a \in Ids, NEW w \in Wires, PublishWire(a, w)
    PROVE  IndInv'
<1> USE DEF PublishWire
<1>w. FragCount(w) \in 1..MaxFrags /\ MaxFrags \in Nat /\ w # NoWire
    BY FragConstants
<1>a. attempt[a] = NoWire /\ onNet[a] = 0 /\ handed[a] = <<>>
    BY DEF IndInv, Progress, HandedWhole
<1>b. since[a] = {} /\ buf[a] = NoPartial
    BY <1>a DEF IndInv, BufferIsSince
<1>1. TypeOK'
    BY DEF IndInv, TypeOK
<1>2. Progress'
  <2> SUFFICES ASSUME NEW b \in Ids
               PROVE  /\ phase'[b] = "idle" <=> attempt'[b] = NoWire
                      /\ attempt'[b] = NoWire => onNet[b] = 0
                      /\ attempt'[b] # NoWire => onNet[b] <= FragCount(attempt'[b])
                      /\ phase'[b] = "open" => onNet[b] < FragCount(attempt'[b])
      BY DEF Progress
  <2>1. CASE b = a
      BY <2>1, <1>w, <1>a DEF IndInv, TypeOK
  <2>2. CASE b # a
      BY <2>2 DEF IndInv, TypeOK, Progress
  <2> QED
      BY <2>1, <2>2
<1>3. BufferedParts'
    BY <1>b DEF IndInv, TypeOK, BufferedParts
<1>4. Accounted'
  <2> SUFFICES ASSUME NEW b \in Ids, attempt'[b] # NoWire, NEW i \in Indices(attempt'[b])
               PROVE  /\ Len(handed[b]) <= arrived[b][i]
                      /\ (buf[b] # NoPartial /\ i \in DOMAIN buf[b].parts)
                           => Len(handed[b]) + 1 <= arrived[b][i]
      BY DEF Accounted
  <2>1. CASE b # a
      BY <2>1 DEF IndInv, TypeOK, Accounted
  <2>2. CASE b = a
    <3>1. i \in 0..MaxFrags - 1
        BY <2>2, <1>w DEF IndInv, TypeOK, Indices
    <3>2. arrived[b][i] \in Nat
        BY <3>1, FragConstants DEF IndInv, TypeOK
    <3> QED
        BY <2>2, <3>2, <1>a, <1>b
  <2> QED
      BY <2>1, <2>2
<1>5. HandedWhole'
  <2> SUFFICES ASSUME NEW b \in Ids
               PROVE  /\ attempt'[b] = NoWire => handed[b] = <<>>
                      /\ handed[b] # <<>> => onNet[b] = FragCount(attempt'[b])
                      /\ \A k \in 1..Len(handed[b]) : handed[b][k] = attempt'[b]
      BY DEF HandedWhole
  <2>1. CASE b = a
      BY <2>1, <1>a
  <2>2. CASE b # a
      BY <2>2 DEF IndInv, TypeOK, HandedWhole
  <2> QED
      BY <2>1, <2>2
<1>6. BufferIsSince'
    BY <1>b DEF IndInv, TypeOK, BufferIsSince
<1> QED
    BY <1>1, <1>2, <1>3, <1>4, <1>5, <1>6 DEF IndInv

\* The steps of publish_wire only raise onNet, and not past the last content.
LEMMA SendInv ==
    ASSUME IndInv, NEW a \in Ids, SendContent(a) \/ SendFails(a)
    PROVE  IndInv'
<1>a. /\ attempt[a] # NoWire
      /\ onNet[a] < FragCount(attempt[a])
    BY DEF IndInv, Progress, TypeOK, SendContent, SendFails
<1>b. /\ FragCount(attempt[a]) \in 1..MaxFrags
      /\ MaxFrags \in Nat
      /\ handed[a] = <<>>
      /\ onNet[a] \in Nat
    BY <1>a, AttemptFacts, FragConstants DEF IndInv, TypeOK, HandedWhole
<1>c. /\ onNet'[a] \in Nat
      /\ onNet[a] <= onNet'[a] /\ onNet'[a] <= FragCount(attempt[a])
      /\ phase'[a] \in {"open", "ok", "failed"}
      /\ phase'[a] = "open" => onNet'[a] < FragCount(attempt[a])
  <2>1. CASE SendContent(a)
    <3>1. onNet'[a] = onNet[a] + 1
        BY <2>1 DEF IndInv, TypeOK, SendContent
    <3>2. phase'[a] = IF onNet[a] + 1 = FragCount(attempt[a]) THEN "ok" ELSE "open"
        BY <2>1 DEF IndInv, TypeOK, SendContent
    <3> QED
        BY <3>1, <3>2, <1>a, <1>b
  <2>2. CASE SendFails(a)
      BY <2>2, <1>a, <1>b, SMTT(60) DEF IndInv, TypeOK, SendFails
  <2> QED
      BY <2>1, <2>2
<1>d. /\ DOMAIN onNet' = Ids /\ DOMAIN phase' = Ids
      /\ \A b \in Ids \ {a} : onNet'[b] = onNet[b] /\ phase'[b] = phase[b]
      /\ UNCHANGED <<attempt, arrived, buf, handed, since, firstAt, restarts, clock>>
    BY DEF IndInv, TypeOK, SendContent, SendFails
<1>1. TypeOK'
  <2>1. phase' \in [Ids -> {"idle", "open", "ok", "failed"}]
      BY <1>c DEF IndInv, TypeOK, SendContent, SendFails
  <2>2. onNet'[a] \in 0..MaxFrags
      BY <1>b, <1>c
  <2>3. onNet' \in [Ids -> 0..MaxFrags]
      BY <2>2 DEF IndInv, TypeOK, SendContent, SendFails
  <2> QED
      BY <2>1, <2>3, <1>d DEF IndInv, TypeOK
<1>2. Progress'
  <2> SUFFICES ASSUME NEW b \in Ids
               PROVE  /\ phase'[b] = "idle" <=> attempt[b] = NoWire
                      /\ attempt[b] = NoWire => onNet'[b] = 0
                      /\ attempt[b] # NoWire => onNet'[b] <= FragCount(attempt[b])
                      /\ phase'[b] = "open" => onNet'[b] < FragCount(attempt[b])
      BY <1>d DEF Progress
  <2>1. CASE b = a
      BY <2>1, <1>a, <1>c
  <2>2. CASE b # a
      BY <2>2, <1>d DEF IndInv, Progress
  <2> QED
      BY <2>1, <2>2
<1>3. BufferedParts'
  <2> SUFFICES ASSUME NEW b \in Ids, buf[b] # NoPartial
               PROVE  DOMAIN buf[b].parts \subseteq 0..onNet'[b] - 1
      BY <1>d DEF BufferedParts, IndInv
  <2>1. DOMAIN buf[b].parts \subseteq 0..onNet[b] - 1
      BY DEF BufferedParts, IndInv
  <2>2. onNet[b] \in Nat /\ onNet'[b] \in Nat /\ onNet[b] <= onNet'[b]
    <3>1. CASE b = a
        BY <3>1, <1>b, <1>c
    <3>2. CASE b # a
        BY <3>2, <1>d, FragConstants DEF IndInv, TypeOK
    <3> QED
        BY <3>1, <3>2
  <2> QED
      BY <2>1, <2>2
<1>4. Accounted'
    BY <1>d DEF IndInv, Accounted
<1>5. HandedWhole'
    BY <1>b, <1>d DEF IndInv, HandedWhole
<1>6. BufferIsSince'
    BY <1>d DEF IndInv, BufferIsSince
<1> QED
    BY <1>1, <1>2, <1>3, <1>4, <1>5, <1>6 DEF IndInv

-----------------------------------------------------------------------------
(* The receiving step.                                                     *)

\* A content that consume_v2_queue takes belongs to a wire in flight, and counts once.
LEMMA ConsumeFacts ==
    ASSUME IndInv, NEW a \in Ids, NEW i \in 0..MaxFrags - 1, ConsumeContent(a, i)
    PROVE  /\ attempt[a] # NoWire
           /\ i \in Indices(attempt[a])
           /\ i \in 0..onNet[a] - 1
           /\ onNet[a] \in Nat /\ onNet[a] <= FragCount(attempt[a])
           /\ arrived'[a][i] = arrived[a][i] + 1
           /\ \A b \in Ids, j \in 0..MaxFrags - 1 :
                  /\ arrived[b][j] \in Nat
                  /\ <<b, j>> # <<a, i>> => arrived'[b][j] = arrived[b][j]
<1>1. onNet[a] \in Nat /\ i < onNet[a] /\ i \in Nat
    BY FragConstants DEF ConsumeContent, IndInv, TypeOK
<1>2. attempt[a] # NoWire
    BY <1>1 DEF IndInv, Progress
<1>3. onNet[a] <= FragCount(attempt[a])
    BY <1>2 DEF IndInv, Progress
<1>4. i \in Indices(attempt[a])
    BY <1>1, <1>2, <1>3, AttemptFacts
<1>5. arrived' = [arrived EXCEPT ![a] = [arrived[a] EXCEPT ![i] = arrived[a][i] + 1]]
    BY DEF ConsumeContent
<1>6. arrived'[a] = [arrived[a] EXCEPT ![i] = arrived[a][i] + 1]
    BY <1>5 DEF IndInv, TypeOK
<1>7. \A b \in Ids : arrived[b] \in [0..MaxFrags - 1 -> 0..MaxCopies]
    BY DEF IndInv, TypeOK
<1>8. arrived'[a][i] = arrived[a][i] + 1
    BY <1>6, <1>7
<1>9. ASSUME NEW b \in Ids, NEW j \in 0..MaxFrags - 1
      PROVE  /\ arrived[b][j] \in Nat
             /\ <<b, j>> # <<a, i>> => arrived'[b][j] = arrived[b][j]
    BY <1>5, <1>6, <1>7, FragConstants, SMTT(60) DEF IndInv, TypeOK
<1> QED
    BY <1>1, <1>2, <1>3, <1>4, <1>8, <1>9

\* The entry a fragment goes into holds only contents of that attempt, all of
\* them buffered before.
LEMMA EntryFacts ==
    ASSUME IndInv, NEW a \in Ids, attempt[a] # NoWire
    PROVE  /\ EntryFor(a).n = FragCount(attempt[a])
           /\ EntryFor(a).first_ms \in 0..MaxClock
           /\ DOMAIN EntryFor(a).parts \subseteq 0..onNet[a] - 1
           /\ \A j \in DOMAIN EntryFor(a).parts :
                  /\ EntryFor(a).parts[j] = Content(attempt[a], j)
                  /\ buf[a] # NoPartial /\ j \in DOMAIN buf[a].parts
<1>1. CASE Retained[a] # NoPartial
  <2>1. buf[a] # NoPartial /\ EntryFor(a) = buf[a]
      BY <1>1 DEF Retained, EntryFor
  <2>2. buf[a] \in Partials
      BY <2>1 DEF IndInv, TypeOK
  <2> QED
      BY <2>1, <2>2 DEF IndInv, BufferedParts, Partials
<1>2. CASE Retained[a] = NoPartial
  <2>1. EntryFor(a) = [n |-> FragCount(attempt[a]), parts |-> <<>>, first_ms |-> clock]
      BY <1>2 DEF EntryFor
  <2>2. DOMAIN <<>> = {}
      OBVIOUS
  <2> QED
      BY <2>1, <2>2 DEF IndInv, TypeOK
<1> QED
    BY <1>1, <1>2

\* What a fragment's entry looks like with the fragment in it.
LEMMA InsertedFacts ==
    ASSUME IndInv, NEW a \in Ids, attempt[a] # NoWire,
           NEW i \in 0..onNet[a] - 1, i \in Indices(attempt[a]), onNet[a] \in Nat,
           NEW parts, parts = Inserted(EntryFor(a).parts, i, Content(attempt[a], i))
    PROVE  /\ DOMAIN parts = DOMAIN EntryFor(a).parts \cup {i}
           /\ DOMAIN parts \subseteq 0..onNet[a] - 1
           /\ \A j \in DOMAIN parts : parts[j] = Content(attempt[a], j)
           /\ parts = [j \in DOMAIN parts |-> Content(attempt[a], j)]
<1>1. DOMAIN parts = DOMAIN EntryFor(a).parts \cup {i}
    BY DEF Inserted
<1>2. DOMAIN parts \subseteq 0..onNet[a] - 1
    BY <1>1, EntryFacts
<1>3. ASSUME NEW j \in DOMAIN parts PROVE parts[j] = Content(attempt[a], j)
    BY <1>1, <1>3, EntryFacts DEF Inserted
<1>4. parts = [j \in DOMAIN parts |-> parts[j]]
    BY DEF Inserted
<1> QED
    BY <1>1, <1>2, <1>3, <1>4

\* The set is complete exactly when every index is there.
LEMMA CompleteFacts ==
    ASSUME IndInv, NEW a \in Ids, attempt[a] # NoWire, onNet[a] \in Nat,
           onNet[a] <= FragCount(attempt[a]),
           NEW parts, DOMAIN parts \subseteq 0..onNet[a] - 1
    PROVE  /\ DOMAIN parts \subseteq Indices(attempt[a])
           /\ IsComplete(parts, FragCount(attempt[a]))
                 <=> DOMAIN parts = Indices(attempt[a])
           /\ DOMAIN parts = Indices(attempt[a]) => onNet[a] = FragCount(attempt[a])
<1> DEFINE F == FragCount(attempt[a])
<1>1. F \in Nat /\ F >= 1 /\ Indices(attempt[a]) = 0..F - 1
    BY AttemptFacts, FragConstants
<1>2. DOMAIN parts \subseteq Indices(attempt[a])
    BY <1>1
<1>3. Cardinality(0..F - 1) = F
    <2> HIDE DEF F
    <2>1. F - 1 \in Int /\ ~(0 > F - 1) /\ F - 1 - 0 + 1 = F
        BY <1>1
    <2>2. Cardinality(0..F - 1) = IF 0 > F - 1 THEN 0 ELSE F - 1 - 0 + 1
        BY <2>1, FS_Interval
    <2> QED
        BY <2>1, <2>2
<1>4. IsComplete(parts, F) <=> DOMAIN parts = Indices(attempt[a])
    BY <1>1, <1>2, <1>3 DEF IsComplete
<1>5. DOMAIN parts = Indices(attempt[a]) => F - 1 \in 0..onNet[a] - 1
    BY <1>1
<1> QED
    BY <1>1, <1>2, <1>4, <1>5

\* A step of consume_v2_queue either buffers the content, and then the set is
\* still incomplete, or hands the attempt's own wire on.
Buffers(a, i) ==
    /\ NeedsFragment(attempt[a])
    /\ buf'[a] \in Partials
    /\ buf'[a].n = FragCount(attempt[a])
    /\ buf'[a].first_ms = EntryFor(a).first_ms
    /\ DOMAIN buf'[a].parts = DOMAIN EntryFor(a).parts \cup {i}
    /\ DOMAIN buf'[a].parts \subseteq 0..onNet[a] - 1
    /\ DOMAIN buf'[a].parts # Indices(attempt[a])
    /\ \A j \in DOMAIN buf'[a].parts : buf'[a].parts[j] = Content(attempt[a], j)
    /\ handed' = handed

HandsOn(a, i) ==
    /\ buf'[a] \in {NoPartial, buf[a]}
    /\ NeedsFragment(attempt[a]) => buf'[a] = NoPartial
    /\ handed' = [handed EXCEPT ![a] = Append(@, attempt[a])]
    /\ onNet[a] = FragCount(attempt[a])
    /\ NeedsFragment(attempt[a]) =>
          Indices(attempt[a]) = DOMAIN EntryFor(a).parts \cup {i}
    /\ ~NeedsFragment(attempt[a]) => Indices(attempt[a]) = {i}

\* reassemble either buffers a fragment in its attempt's entry, or hands on the
\* whole wire and clears the entry; the other entries only lose what the sweep drops.
LEMMA ConsumeEffect ==
    ASSUME IndInv, NEW a \in Ids, NEW i \in 0..MaxFrags - 1, ConsumeContent(a, i)
    PROVE  /\ Buffers(a, i) \/ HandsOn(a, i)
           /\ buf' \in [Ids -> Partials \cup {NoPartial}]
           /\ \A b \in Ids \ {a} : buf'[b] \in {NoPartial, buf[b]}
<1> DEFINE w == attempt[a]
<1>0. /\ w # NoWire /\ i \in Indices(w) /\ i \in 0..onNet[a] - 1
      /\ onNet[a] \in Nat /\ onNet[a] <= FragCount(w)
    BY ConsumeFacts
<1>1. /\ w \in Wires /\ FragCount(w) \in 1..MaxFrags
      /\ Indices(w) = 0..FragCount(w) - 1 /\ Indices(w) \subseteq 0..MaxFrags - 1
    BY <1>0, AttemptFacts
<1>2. CASE ~NeedsFragment(w)
  <2>1. FragCount(w) = 1
      BY <1>2 DEF FragCount
  <2>2. Indices(w) = {i} /\ onNet[a] = FragCount(w)
      BY <2>1, <1>0, <1>1
  <2>3. buf' = buf /\ handed' = [handed EXCEPT ![a] = Append(@, w)]
      BY <1>2 DEF ConsumeContent, PassThrough
  <2> QED
      BY <2>2, <2>3, <1>2 DEF HandsOn, IndInv, TypeOK
<1>3. CASE NeedsFragment(w)
  <2> DEFINE p == EntryFor(a)
             parts == Inserted(p.parts, i, Content(w, i))
             entry == [n |-> p.n, parts |-> parts, first_ms |-> p.first_ms]
  <2>0. ReassembleFragment(a, i)
      BY <1>3 DEF ConsumeContent
  <2>1. /\ p.n = FragCount(w) /\ p.first_ms \in 0..MaxClock
      BY <1>0, EntryFacts
  <2>2. /\ DOMAIN parts = DOMAIN p.parts \cup {i}
        /\ DOMAIN parts \subseteq 0..onNet[a] - 1
        /\ \A j \in DOMAIN parts : parts[j] = Content(w, j)
        /\ parts = [j \in DOMAIN parts |-> Content(w, j)]
      BY <1>0, InsertedFacts
  <2>3. /\ DOMAIN parts \subseteq Indices(w)
        /\ IsComplete(parts, FragCount(w)) <=> DOMAIN parts = Indices(w)
        /\ DOMAIN parts = Indices(w) => onNet[a] = FragCount(w)
      BY <1>0, <2>2, CompleteFacts
  <2>4. Retained \in [Ids -> Partials \cup {NoPartial}]
      BY DEF Retained, IndInv, TypeOK
  <2>5. \A b \in Ids : Retained[b] \in {NoPartial, buf[b]}
      BY DEF Retained
  <2>6. CASE ~IsComplete(parts, FragCount(w))
    <3>1. buf' = [Retained EXCEPT ![a] = entry] /\ handed' = handed
        BY <2>0, <2>1, <2>6 DEF ReassembleFragment
    <3>2. entry \in Partials
      <4>1. parts \in [DOMAIN parts -> Contents]
          BY <2>2, <2>3, <1>1 DEF Contents
      <4>2. DOMAIN parts \in SUBSET (0..MaxFrags - 1)
          BY <2>3, <1>1
      <4>3. parts \in UNION {[D -> Contents] : D \in SUBSET (0..MaxFrags - 1)}
          BY <4>1, <4>2
      <4> HIDE DEF parts, p
      <4> QED
          BY <4>3, <2>1, <1>1 DEF Partials
    <3>3. buf'[a] = entry
        BY <3>1, <2>4
    <3>4. Buffers(a, i)
        BY <3>1, <3>2, <3>3, <2>1, <2>2, <2>3, <2>6, <1>3 DEF Buffers
    <3> QED
        BY <3>1, <3>2, <3>4, <2>4, <2>5
  <2>7. CASE IsComplete(parts, FragCount(w))
    <3>1. /\ buf' = [Retained EXCEPT ![a] = NoPartial]
          /\ handed' = [handed EXCEPT ![a] = Append(@, JoinParts(parts, p.n))]
        BY <2>0, <2>1, <2>7 DEF ReassembleFragment
    <3>2. DOMAIN parts = Indices(w) /\ onNet[a] = FragCount(w)
        BY <2>3, <2>7
    <3>3. parts = WholeParts(w)
        BY <2>2, <3>2 DEF WholeParts
    <3>4. JoinParts(parts, p.n) = w
        BY <3>3, <2>1, <1>1, RoundTrip
    <3>5. buf'[a] = NoPartial
        BY <3>1, <2>4
    <3>6. HandsOn(a, i)
        BY <3>1, <3>2, <3>4, <3>5, <2>2, <1>3 DEF HandsOn
    <3> QED
        BY <3>1, <3>6, <2>4, <2>5
  <2> QED
      BY <2>6, <2>7
<1> QED
    BY <1>2, <1>3

\* consume_v2_queue keeps the invariant, conjunct by conjunct.
LEMMA ConsumeInv ==
    ASSUME IndInv, NEW a \in Ids, NEW i \in 0..MaxFrags - 1, ConsumeContent(a, i)
    PROVE  IndInv'
<1> DEFINE w == attempt[a]
<1>0. /\ w # NoWire /\ i \in Indices(w) /\ i \in 0..onNet[a] - 1
      /\ onNet[a] \in Nat /\ onNet[a] <= FragCount(w)
    BY ConsumeFacts
<1>1. /\ w \in Wires /\ FragCount(w) \in 1..MaxFrags
      /\ Indices(w) = 0..FragCount(w) - 1 /\ Indices(w) \subseteq 0..MaxFrags - 1
    BY <1>0, AttemptFacts
<1>2. /\ arrived'[a][i] = arrived[a][i] + 1
      /\ \A b \in Ids, j \in 0..MaxFrags - 1 :
            /\ arrived[b][j] \in Nat
            /\ <<b, j>> # <<a, i>> => arrived'[b][j] = arrived[b][j]
    BY ConsumeFacts
<1>3. Buffers(a, i) \/ HandsOn(a, i)
    BY ConsumeEffect
<1>4. /\ buf' \in [Ids -> Partials \cup {NoPartial}]
      /\ \A b \in Ids \ {a} : buf'[b] \in {NoPartial, buf[b]}
    BY ConsumeEffect
<1>5. UNCHANGED <<attempt, phase, onNet, restarts, clock>>
    BY DEF ConsumeContent
<1>6. /\ handed' \in [Ids -> Seq(Wires)]
      /\ \A b \in Ids \ {a} : handed'[b] = handed[b]
      /\ HandsOn(a, i) => handed'[a] = Append(handed[a], w)
      /\ handed[a] \in Seq(Wires)
  <2>1. handed \in [Ids -> Seq(Wires)]
      BY DEF IndInv, TypeOK
  <2>2. CASE Buffers(a, i)
    <3>1. handed' = handed
        BY <2>2 DEF Buffers
    <3>2. ~HandsOn(a, i) \/ handed'[a] = Append(handed[a], w)
        BY <2>1 DEF HandsOn
    <3> QED
        BY <2>1, <3>1, <3>2
  <2>3. CASE HandsOn(a, i)
    <3>1. handed' = [handed EXCEPT ![a] = Append(handed[a], w)]
        BY <2>3 DEF HandsOn
    <3>2. Append(handed[a], w) \in Seq(Wires)
        BY <2>1, <1>1
    <3> QED
        BY <2>1, <3>1, <3>2
  <2> QED
      BY <2>2, <2>3, <1>3
<1>7. /\ since'[a] = since[a] \cup {i}
      /\ \A b \in Ids \ {a} : since'[b] = since[b] /\ firstAt'[b] = firstAt[b]
      /\ firstAt'[a] = IF since[a] = {} THEN clock ELSE firstAt[a]
    BY DEF ConsumeContent, IndInv, TypeOK
<1>8. /\ NoPartial \notin Partials
      /\ MaxFrags \in Nat /\ MaxClock \in Nat /\ MaxCopies \in Nat
    BY FragConstants
<1>t. TypeOK'
  <2>1. arrived' \in [Ids -> [0..MaxFrags - 1 -> 0..MaxCopies]]
    <3>1. arrived[a][i] \in Nat /\ arrived[a][i] < MaxCopies
        BY <1>2 DEF ConsumeContent
    <3>2. arrived[a][i] + 1 \in 0..MaxCopies
        BY <3>1, <1>8
    <3> QED
        BY <3>2 DEF ConsumeContent, IndInv, TypeOK
  <2>2. since' \in [Ids -> SUBSET (0..MaxFrags - 1)]
      BY DEF ConsumeContent, IndInv, TypeOK
  <2>3. firstAt' \in [Ids -> 0..MaxClock]
      BY DEF ConsumeContent, IndInv, TypeOK
  <2> QED
      BY <2>1, <2>2, <2>3, <1>4, <1>5, <1>6 DEF IndInv, TypeOK
<1>p. Progress'
    BY <1>5 DEF IndInv, Progress
<1>b. BufferedParts'
  <2> SUFFICES ASSUME NEW b \in Ids, buf'[b] # NoPartial
               PROVE  /\ attempt[b] # NoWire
                      /\ buf'[b].n = FragCount(attempt[b])
                      /\ DOMAIN buf'[b].parts \subseteq 0..onNet[b] - 1
                      /\ \A j \in DOMAIN buf'[b].parts :
                            buf'[b].parts[j] = Content(attempt[b], j)
      BY <1>5 DEF BufferedParts
  <2>1. CASE buf'[b] = buf[b]
      BY <2>1 DEF IndInv, BufferedParts
  <2>2. CASE b = a /\ Buffers(a, i)
      BY <2>2, <1>0 DEF Buffers
  <2>3. CASE b = a /\ HandsOn(a, i)
      BY <2>1, <2>3 DEF HandsOn
  <2>4. CASE b # a
      BY <2>1, <2>4, <1>4
  <2> QED
      BY <2>2, <2>3, <2>4, <1>3
<1>n. Accounted'
  <2> SUFFICES ASSUME NEW b \in Ids, attempt[b] # NoWire, NEW j \in Indices(attempt[b])
               PROVE  /\ Len(handed'[b]) <= arrived'[b][j]
                      /\ (buf'[b] # NoPartial /\ j \in DOMAIN buf'[b].parts)
                           => Len(handed'[b]) + 1 <= arrived'[b][j]
      BY <1>5 DEF Accounted
  <2>0. /\ Len(handed[b]) <= arrived[b][j]
        /\ (buf[b] # NoPartial /\ j \in DOMAIN buf[b].parts)
              => Len(handed[b]) + 1 <= arrived[b][j]
        /\ j \in 0..MaxFrags - 1 /\ arrived[b][j] \in Nat
        /\ handed[b] \in Seq(Wires) /\ Len(handed[b]) \in Nat
    <3>1. handed[b] \in Seq(Wires)
        BY DEF IndInv, TypeOK
    <3>2. j \in 0..MaxFrags - 1
        BY AttemptFacts
    <3>3. Len(handed[b]) \in Nat
        BY <3>1
    <3> QED
        BY <3>1, <3>2, <3>3, <1>2 DEF IndInv, Accounted
  <2>1. CASE b # a
      BY <2>0, <2>1, <1>2, <1>4, <1>6
  <2>2. CASE b = a /\ Buffers(a, i)
    <3>1. handed'[b] = handed[b]
        BY <2>2 DEF Buffers
    <3>2. CASE j = i
        BY <3>1, <3>2, <2>0, <2>2, <1>2
    <3>3. CASE j # i
      <4>1. arrived'[b][j] = arrived[b][j]
          BY <3>3, <2>0, <2>2, <1>2
      <4>2. (buf'[b] # NoPartial /\ j \in DOMAIN buf'[b].parts)
              => buf[b] # NoPartial /\ j \in DOMAIN buf[b].parts
          BY <2>2, <3>3, <1>0, EntryFacts DEF Buffers
      <4> QED
          BY <4>1, <4>2, <3>1, <2>0
    <3> QED
        BY <3>2, <3>3
  <2>3. CASE b = a /\ HandsOn(a, i)
    <3>1. Len(handed'[b]) = Len(handed[b]) + 1
        BY <2>0, <2>3, <1>1, <1>6
    <3>2. CASE j = i
      <4>1. buf'[b] # NoPartial => buf[b] # NoPartial /\ buf'[b] = buf[b]
          BY <2>3 DEF HandsOn
      <4> QED
          BY <4>1, <3>1, <3>2, <2>0, <2>3, <1>2
    <3>3. CASE j # i
      <4>1. arrived'[b][j] = arrived[b][j]
          BY <3>3, <2>0, <2>3, <1>2
      <4>2. NeedsFragment(w) /\ j \in DOMAIN EntryFor(a).parts
          BY <3>3, <2>3 DEF HandsOn
      <4>3. buf[b] # NoPartial /\ j \in DOMAIN buf[b].parts
          BY <4>2, <2>3, <1>0, EntryFacts
      <4>4. buf'[b] = NoPartial
          BY <4>2, <2>3 DEF HandsOn
      <4> QED
          BY <4>1, <4>3, <4>4, <3>1, <2>0
    <3> QED
        BY <3>2, <3>3
  <2> QED
      BY <2>1, <2>2, <2>3, <1>3
<1>h. HandedWhole'
  <2> SUFFICES ASSUME NEW b \in Ids
               PROVE  /\ attempt[b] = NoWire => handed'[b] = <<>>
                      /\ handed'[b] # <<>> => onNet[b] = FragCount(attempt[b])
                      /\ \A k \in 1..Len(handed'[b]) : handed'[b][k] = attempt[b]
      BY <1>5 DEF HandedWhole
  <2>1. CASE handed'[b] = handed[b]
      BY <2>1 DEF IndInv, HandedWhole
  <2>2. CASE b = a /\ HandsOn(a, i)
    <3>1. \A k \in 1..Len(handed[a]) : handed[a][k] = w
        BY DEF IndInv, HandedWhole
    <3>2. \A k \in 1..Len(handed'[a]) : handed'[a][k] = w
      <4>1. handed'[a] = Append(handed[a], w) /\ handed[a] \in Seq(Wires)
          BY <2>2, <1>6
      <4>2. Len(handed'[a]) = Len(handed[a]) + 1 /\ Len(handed[a]) \in Nat
          BY <4>1
      <4> SUFFICES ASSUME NEW k \in 1..Len(handed'[a]) PROVE handed'[a][k] = w
          OBVIOUS
      <4>3. CASE k = Len(handed[a]) + 1
          BY <4>1, <4>3
      <4>4. CASE k \in 1..Len(handed[a])
          BY <4>1, <4>4, <3>1
      <4> QED
          BY <4>2, <4>3, <4>4
    <3> QED
        BY <3>2, <2>2, <1>0 DEF HandsOn
  <2> QED
      BY <2>1, <2>2, <1>3, <1>6 DEF Buffers
<1>s. BufferIsSince'
  <2> SUFFICES ASSUME NEW b \in Ids
               PROVE  /\ since'[b] # {} => attempt[b] # NoWire
                      /\ since'[b] = {} => buf'[b] = NoPartial
                      /\ attempt[b] # NoWire => since'[b] \subseteq Indices(attempt[b])
                      /\ (/\ since'[b] # {} /\ NeedsFragment(attempt[b])
                          /\ ~(Indices(attempt[b]) \subseteq since'[b])
                          /\ clock - firstAt'[b] < REASSEMBLY_TTL)
                         => /\ buf'[b] # NoPartial
                            /\ DOMAIN buf'[b].parts = since'[b]
                            /\ buf'[b].first_ms = firstAt'[b]
      BY <1>5 DEF BufferIsSince
  <2>1. CASE b # a
    \* Another attempt's sweep drops only what is out of its TTL.
    <3>1. buf'[b] = Retained[b] \/ buf'[b] = buf[b]
        BY <2>1 DEF ConsumeContent, ReassembleFragment, PassThrough, Retained
    <3>2. (buf[b] # NoPartial /\ clock - buf[b].first_ms < REASSEMBLY_TTL)
            => buf'[b] = buf[b]
        BY <3>1 DEF Retained
    <3>3. buf'[b] \in {NoPartial, buf[b]}
        BY <2>1, <1>4
    <3> QED
        BY <3>2, <3>3, <2>1, <1>7 DEF IndInv, BufferIsSince
  <2>2. CASE b = a
    <3>1. since[a] \subseteq Indices(w)
        BY <1>0 DEF IndInv, BufferIsSince
    <3>2. /\ since'[a] # {} /\ w # NoWire /\ since'[a] \subseteq Indices(w)
        BY <3>1, <1>0, <1>7
    <3>3. ASSUME NeedsFragment(w), ~(Indices(w) \subseteq since'[a]),
                 clock - firstAt'[a] < REASSEMBLY_TTL
          PROVE  /\ buf'[a] # NoPartial
                 /\ DOMAIN buf'[a].parts = since'[a]
                 /\ buf'[a].first_ms = firstAt'[a]
      <4>1. DOMAIN EntryFor(a).parts = since[a] /\ EntryFor(a).first_ms = firstAt'[a]
        <5>1. CASE since[a] = {}
          <6>1. Retained[a] = NoPartial
              BY <5>1 DEF Retained, IndInv, BufferIsSince
          <6>2. EntryFor(a) = [n |-> FragCount(w), parts |-> <<>>, first_ms |-> clock]
              BY <6>1 DEF EntryFor
          <6>3. DOMAIN <<>> = {}
              OBVIOUS
          <6> QED
              BY <6>2, <6>3, <5>1, <1>7
        <5>2. CASE since[a] # {}
          <6>1. firstAt'[a] = firstAt[a] /\ ~(Indices(w) \subseteq since[a])
              BY <5>2, <3>3, <1>7
          <6>2. /\ buf[a] # NoPartial
                /\ DOMAIN buf[a].parts = since[a]
                /\ buf[a].first_ms = firstAt[a]
              BY <6>1, <5>2, <3>3 DEF IndInv, BufferIsSince
          <6>3. EntryFor(a) = buf[a]
              BY <6>1, <6>2, <3>3 DEF EntryFor, Retained
          <6> QED
              BY <6>1, <6>2, <6>3
        <5> QED
            BY <5>1, <5>2
      <4>2. Buffers(a, i)
          BY <4>1, <3>3, <1>3, <1>7 DEF HandsOn
      <4> QED
          BY <4>1, <4>2, <1>7, <1>8 DEF Buffers
    <3> QED
        BY <2>2, <3>2, <3>3
  <2> QED
      BY <2>1, <2>2
<1> QED
    BY <1>t, <1>p, <1>b, <1>n, <1>h, <1>s DEF IndInv

\* A reload, which empties the thread-local buffer, keeps the invariant.
LEMMA ReloadInv == ASSUME IndInv, Reload PROVE IndInv'
<1>1. TypeOK'
    BY FragConstants DEF Reload, IndInv, TypeOK
<1>2. Progress' /\ HandedWhole'
    BY DEF Reload, IndInv, Progress, HandedWhole
<1>3. BufferedParts' /\ BufferIsSince'
    BY DEF Reload, IndInv, BufferedParts, BufferIsSince
<1>4. Accounted'
    BY DEF Reload, IndInv, Accounted
<1> QED
    BY <1>1, <1>2, <1>3, <1>4 DEF IndInv

\* Time passing only takes attempts out of the TTL window.
LEMMA TickInv == ASSUME IndInv, Tick PROVE IndInv'
<1>1. clock \in Nat /\ clock' = clock + 1 /\ clock' \in 0..MaxClock
    BY FragConstants DEF Tick, IndInv, TypeOK
<1>2. \A a \in Ids : firstAt[a] \in Nat
    BY FragConstants DEF IndInv, TypeOK
<1>3. TypeOK'
    BY <1>1 DEF Tick, IndInv, TypeOK
<1>4. Progress' /\ HandedWhole' /\ BufferedParts' /\ Accounted'
    BY DEF Tick, IndInv, Progress, HandedWhole, BufferedParts, Accounted
<1>5. BufferIsSince'
  <2>1. \A a \in Ids : clock' - firstAt[a] < REASSEMBLY_TTL
                        => clock - firstAt[a] < REASSEMBLY_TTL
      BY <1>1, <1>2, FragConstants
  <2> QED
      BY <2>1 DEF Tick, IndInv, BufferIsSince
<1> QED
    BY <1>3, <1>4, <1>5 DEF IndInv

\* Every step of sender, receiver, network and clock keeps the invariant.
LEMMA NextInv == IndInv /\ [Next]_vars => IndInv'
<1> SUFFICES ASSUME IndInv, [Next]_vars PROVE IndInv'
    OBVIOUS
<1>1. CASE \E a \in Ids, w \in Wires : PublishWire(a, w)
    BY <1>1, PublishWireInv
<1>2. CASE \E a \in Ids : SendContent(a) \/ SendFails(a)
    BY <1>2, SendInv
<1>3. CASE \E a \in Ids, i \in 0..MaxFrags - 1 : ConsumeContent(a, i)
    BY <1>3, ConsumeInv
<1>4. CASE Reload
    BY <1>4, ReloadInv
<1>5. CASE Tick
    BY <1>5, TickInv
<1>6. CASE UNCHANGED vars
    BY <1>6 DEF vars, IndInv, TypeOK, Progress, BufferedParts, Accounted,
                HandedWhole, BufferIsSince
<1> QED
    BY <1>1, <1>2, <1>3, <1>4, <1>5, <1>6 DEF Next

\* The invariant holds in every reachable state of the fragmentation layer.
LEMMA AlwaysIndInv == Spec => []IndInv
    BY InitInv, NextInv, PTL DEF Spec

-----------------------------------------------------------------------------
(* The results.                                                            *)

\* publish_wire, reassemble and consume_v2_queue keep their state well formed.
THEOREM FragTypeOK == Spec => []TypeOK
<1>1. IndInv => TypeOK
    BY DEF IndInv
<1> QED
    BY <1>1, AlwaysIndInv, PTL

\* reassemble never hands on anything but a complete wire of one attempt,
\* under every loss, duplication, reordering, eviction and reload.
THEOREM FragWhole == Spec => []OnlyWholeWires
<1>1. IndInv => OnlyWholeWires
  <2> SUFFICES ASSUME IndInv, NEW a \in Ids, NEW k \in 1..Len(handed[a])
               PROVE  handed[a][k] = attempt[a] /\ onNet[a] = FragCount(attempt[a])
      BY DEF OnlyWholeWires
  <2>1. handed[a] # <<>>
      OBVIOUS
  <2> QED
      BY <2>1 DEF IndInv, HandedWhole
<1> QED
    BY <1>1, AlwaysIndInv, PTL

\* reassemble never multiplies duplicates.
THEOREM FragNoAmplification == Spec => []NoAmplification
<1>1. IndInv => NoAmplification
    BY DEF IndInv, Accounted, NoAmplification
<1> QED
    BY <1>1, AlwaysIndInv, PTL

\* Whatever other attempts and the sweep do, a wire all of whose contents
\* arrive within the TTL is handed on with the last of them.
THEOREM FragTimely == Spec => HandedWithinTTL
<1> DEFINE Timely ==
      \A a \in Ids :
         (/\ attempt[a] # NoWire
          /\ ~(Indices(attempt[a]) \subseteq since[a])
          /\ Indices(attempt[a]) \subseteq since'[a]
          /\ since[a] = {} \/ clock - firstAt[a] < REASSEMBLY_TTL)
         => Len(handed'[a]) = Len(handed[a]) + 1
<1>1. IndInv /\ [Next]_vars => [Timely]_vars
  <2> SUFFICES ASSUME IndInv, Next, NEW a \in Ids,
                      attempt[a] # NoWire,
                      ~(Indices(attempt[a]) \subseteq since[a]),
                      Indices(attempt[a]) \subseteq since'[a],
                      since[a] = {} \/ clock - firstAt[a] < REASSEMBLY_TTL
               PROVE  Len(handed'[a]) = Len(handed[a]) + 1
      OBVIOUS
  <2> DEFINE w == attempt[a]
  <2>1. PICK i \in 0..MaxFrags - 1 : ConsumeContent(a, i)
    <3>1. since'[a] # since[a]
        OBVIOUS
    <3>2. Indices(w) # {}
        BY AttemptFacts
    <3>3. ~Reload
        BY <3>2 DEF Reload
    <3>4. ~Tick /\ ~(\E b \in Ids, v \in Wires : PublishWire(b, v))
        BY <3>1 DEF Tick, PublishWire
    <3>5. ~(\E b \in Ids : SendContent(b) \/ SendFails(b))
        BY <3>1 DEF SendContent, SendFails
    <3>6. PICK b \in Ids, i \in 0..MaxFrags - 1 : ConsumeContent(b, i)
        BY <3>3, <3>4, <3>5 DEF Next
    <3>7. b = a
        BY <3>1, <3>6 DEF ConsumeContent, IndInv, TypeOK
    <3> QED
        BY <3>6, <3>7
  <2>2. since'[a] = since[a] \cup {i} /\ since[a] \subseteq Indices(w)
      BY <2>1 DEF ConsumeContent, IndInv, TypeOK, BufferIsSince
  <2>3. HandsOn(a, i)
    <3> SUFFICES ASSUME Buffers(a, i) PROVE FALSE
        BY <2>1, ConsumeEffect
    <3>1. NeedsFragment(w) /\ DOMAIN EntryFor(a).parts \cup {i} # Indices(w)
        BY DEF Buffers
    <3>2. DOMAIN EntryFor(a).parts = since[a]
      <4>1. CASE since[a] = {}
        <5>1. Retained[a] = NoPartial
            BY <4>1 DEF Retained, IndInv, BufferIsSince
        <5>2. EntryFor(a) = [n |-> FragCount(w), parts |-> <<>>, first_ms |-> clock]
            BY <5>1 DEF EntryFor
        <5>3. DOMAIN <<>> = {}
            OBVIOUS
        <5> QED
            BY <5>2, <5>3, <4>1
      <4>2. CASE since[a] # {}
        <5>1. /\ buf[a] # NoPartial
              /\ DOMAIN buf[a].parts = since[a]
              /\ buf[a].first_ms = firstAt[a]
            BY <4>2, <3>1 DEF IndInv, BufferIsSince
        <5>2. EntryFor(a) = buf[a]
            BY <5>1, <4>2 DEF EntryFor, Retained
        <5> QED
            BY <5>1, <5>2
      <4> QED
          BY <4>1, <4>2
    <3>3. i \in Indices(w)
        BY <2>1, ConsumeFacts
    <3> QED
        BY <3>1, <3>2, <3>3, <2>2
  <2>4. handed'[a] = Append(handed[a], w) /\ handed[a] \in Seq(Wires) /\ w \in Wires
      BY <2>3, AttemptFacts DEF HandsOn, IndInv, TypeOK
  <2> QED
      BY <2>4
<1> HIDE DEF Timely
<1>2. Spec => [][Timely]_vars
    BY <1>1, AlwaysIndInv, PTL DEF Spec
<1> QED
    BY <1>2 DEF HandedWithinTTL, Timely

-----------------------------------------------------------------------------
(* The refinement.                                                         *)

\* The loop of publish_wire, seen from above: all contents but the last are
\* invisible, the last one confirms, a failure gives up.
LEMMA SendMaps ==
    ASSUME IndInv, NEW a \in Ids, SendContent(a) \/ SendFails(a)
    PROVE  [Whole!Next]_(Whole!vars)
<1>0. /\ attempt[a] # NoWire /\ onNet[a] < FragCount(attempt[a])
      /\ phase[a] = "open" /\ attempt' = attempt /\ handed' = handed
    BY DEF IndInv, Progress, TypeOK, SendContent, SendFails
<1>1. /\ onNet \in [Ids -> 0..MaxFrags] /\ MaxFrags \in Nat
      /\ phase \in [Ids -> {"idle", "open", "ok", "failed"}]
      /\ FragCount(attempt[a]) \in 1..MaxFrags
    BY <1>0, AttemptFacts, FragConstants DEF IndInv, TypeOK
<1>2. /\ onNet[a] # FragCount(attempt[a])
      /\ SendContent(a) => onNet'[a] = onNet[a] + 1
    BY <1>0, <1>1 DEF SendContent
<1>3. \A b \in Ids \ {a} : onNet'[b] = onNet[b]
    BY <1>1 DEF SendContent, SendFails
<1>4. AllOut' = [AllOut EXCEPT ![a] = (onNet'[a] = FragCount(attempt[a]))]
    BY <1>0, <1>3 DEF AllOut
<1>5. CASE SendContent(a) /\ onNet[a] + 1 = FragCount(attempt[a])
  <2>1. Whole!Confirm(a)
      BY <1>0, <1>1, <1>4, <1>5 DEF SendContent, Whole!Confirm
  <2> QED
      BY <2>1 DEF Whole!Next
<1>6. CASE SendContent(a) /\ onNet[a] + 1 # FragCount(attempt[a])
  <2>1. phase' = phase
      BY <1>0, <1>1, <1>6 DEF SendContent
  <2>2. \A b \in Ids : onNet'[b] = FragCount(attempt[b]) <=> onNet[b] = FragCount(attempt[b])
      BY <1>2, <1>3, <1>6
  <2>3. AllOut' = AllOut
      BY <2>2, <1>0 DEF AllOut
  <2> QED
      BY <2>1, <2>3, <1>0 DEF Whole!vars
<1>7. CASE SendFails(a)
  <2>1. Whole!GiveUp(a)
      BY <1>0, <1>4, <1>7 DEF SendFails, Whole!GiveUp
  <2> QED
      BY <2>1 DEF Whole!Next
<1> QED
    BY <1>5, <1>6, <1>7

\* A drained content is buffered unseen, or delivers the whole wire.
LEMMA ConsumeMaps ==
    ASSUME IndInv, NEW a \in Ids, NEW i \in 0..MaxFrags - 1, ConsumeContent(a, i)
    PROVE  [Whole!Next]_(Whole!vars)
<1>1. attempt' = attempt /\ phase' = phase /\ onNet' = onNet
    BY DEF ConsumeContent
<1>2. AllOut' = AllOut
    BY <1>1 DEF AllOut
<1>3. CASE Buffers(a, i)
    BY <1>1, <1>2, <1>3 DEF Buffers, Whole!vars
<1>4. CASE HandsOn(a, i)
  <2>1. attempt[a] # NoWire /\ handed' = [handed EXCEPT ![a] = Append(@, attempt[a])]
      BY <1>4, ConsumeFacts DEF HandsOn
  <2>2. AllOut[a]
      BY <1>4, <2>1 DEF HandsOn, AllOut
  <2>3. Whole!Deliver(a)
      BY <1>1, <1>2, <2>1, <2>2 DEF Whole!Deliver
  <2> QED
      BY <2>3 DEF Whole!Next
<1> QED
    BY <1>3, <1>4, ConsumeEffect

\* Every step of the fragmentation layer is one of the channel, or invisible.
LEMMA StepMaps == IndInv /\ [Next]_vars => [Whole!Next]_(Whole!vars)
<1> SUFFICES ASSUME IndInv, [Next]_vars PROVE [Whole!Next]_(Whole!vars)
    OBVIOUS
<1>1. ASSUME NEW a \in Ids, NEW w \in Wires, PublishWire(a, w)
      PROVE  Whole!Post(a, w)
  <2>1. /\ attempt[a] = NoWire /\ onNet[a] = 0 /\ onNet' = onNet
        /\ FragCount(w) \in 1..MaxFrags
      BY <1>1, FragConstants DEF PublishWire, IndInv, Progress
  <2>2. attempt'[a] = w /\ \A b \in Ids \ {a} : attempt'[b] = attempt[b]
      BY <1>1 DEF PublishWire, IndInv, TypeOK
  <2>3. AllOut' = AllOut
      BY <2>1, <2>2 DEF AllOut
  <2> QED
      BY <1>1, <2>3 DEF PublishWire, Whole!Post
<1>2. CASE \E a \in Ids, w \in Wires : PublishWire(a, w)
    BY <1>1, <1>2 DEF Whole!Next
<1>3. CASE \E a \in Ids : SendContent(a) \/ SendFails(a)
    BY <1>3, SendMaps
<1>4. CASE \E a \in Ids, i \in 0..MaxFrags - 1 : ConsumeContent(a, i)
    BY <1>4, ConsumeMaps
<1>5. CASE Reload \/ Tick \/ UNCHANGED vars
    BY <1>5 DEF Reload, Tick, vars, AllOut, Whole!vars
<1> QED
    BY <1>2, <1>3, <1>4, <1>5 DEF Next

\* publish_wire and the draining loop with reassemble implement the lossy
\* channel of whole wires that the outbox, the handshake and the ratchet
\* are written against, for all wires, ids and bounds.
THEOREM FragImplementsChannel == Spec => ImplementsChannel
<1>1. Init => Whole!Init
    BY DEF Init, AllOut, Whole!Init
<1>2. Spec => Whole!Spec
    BY <1>1, StepMaps, AlwaysIndInv, PTL DEF Spec, Whole!Spec
<1> QED
    BY <1>2 DEF ImplementsChannel

-----------------------------------------------------------------------------
(* What attachments keep: whole references, stored chunks, and the books of *)
(* the cache.                                                              *)

\* A chunk is named by its upload and its number; a reference names its node.
Chunk == Nat \X Nat
Ref == [chunk : Chunk, node : Int \cup {None}]
Attachment == [up : Nat, via : {"inline", "blobs", "content"}, refs : Seq(Ref)]
Fetch == [up : Nat, got : Seq(Chunk) \cup {None}, timer : BOOLEAN]

\* The chunks that an upload was cut into.
Known(chunk) == chunk[1] \in 1..Len(uploads) /\ chunk[2] \in DOMAIN Chunks[uploads[chunk[1]]]

\* An attachment names all the chunks of its file in order, and has some
\* unless it rides inline.
Complete(a) ==
    /\ a \in Attachment /\ a.up \in 1..Len(uploads)
    /\ [i \in DOMAIN a.refs |-> a.refs[i].chunk] = ChunksOf(a.up)
    /\ a.via # "inline" => a.refs # <<>>

\* The chunks that a list of references names are where it says, and stay.
Stored(via, refs) ==
    /\ via = "content" => \A i \in DOMAIN refs : refs[i].chunk \in pins
    /\ via = "blobs" => \A i \in DOMAIN refs : /\ refs[i].chunk \in blobs
                                               /\ respawns = 0 => refs[i].node = 1

\* The uploads that are over.
Over == 1..(IF upload = None THEN Len(uploads) ELSE Len(uploads) - 1)

\* Attachments of the message to be: good ones, that no other message has.
Coming(atts) ==
    /\ atts \in Seq(Attachment)
    /\ \A a \in ToSet(atts) :
         Complete(a) /\ a.up \in Over /\ Stored(a.via, a.refs) /\ \A b \in conv \cup deleted : b.up # a.up

SenderInv ==
    /\ pending \in Seq(Files) /\ uploads \in Seq(Files)
    /\ respawns \in Nat /\ node \in Int \cup {None} /\ (respawns = 0 => node \in {1, None})
    /\ sending # None => sending.files \in Seq(Files) /\ Coming(sending.atts)

\* The upload under way has the first chunks of the latest file.
UploadInv ==
    upload # None =>
        /\ sending # None /\ sending.files # <<>>
        /\ Current \in 1..Len(uploads) /\ Chunks[uploads[Current]] # <<>>
        /\ upload \in [via : {"blobs", "content"}, refs : Seq(Ref)]
        /\ Len(upload.refs) <= Len(Chunks[uploads[Current]])
        /\ \A i \in DOMAIN upload.refs : upload.refs[i].chunk = <<Current, i>>
        /\ Stored(upload.via, upload.refs)

\* What was sent arrived; what a deletion has begun with shares no upload with
\* a message that came after.
ConvInv ==
    /\ conv \cup deleted \subseteq inbox
    /\ \A a \in inbox : Complete(a) /\ a.up \in Over
    /\ \A a \in conv \ doomed : Stored(a.via, a.refs)
    /\ \A a \in conv \cup deleted : a.via = "blobs" => Stored(a.via, a.refs)
    /\ doomed \subseteq conv \cup deleted /\ (deletion # None => deletion \subseteq doomed)
    /\ \A a \in doomed, b \in conv \ doomed : a.up # b.up

\* The cache holds chunks of uploads, in its bounds and with its books right.
CacheInv ==
    /\ cache.order \in Seq(Chunk) /\ cache.total \in Nat
    /\ \A i \in DOMAIN cache.order : Known(cache.order[i])
    /\ CacheSound

\* A fetch is one of an attachment that arrived.
FetchInv ==
    /\ fetches \in Seq(Fetch)
    /\ \A k \in DOMAIN fetches : Arrived(fetches[k].up)

AttachInv == SenderInv /\ UploadInv /\ ConvInv /\ CacheInv /\ FetchInv

-----------------------------------------------------------------------------
(* Sums.                                                                   *)

\* A set of naturals that is not empty has a least element.
LEMMA LeastNat ==
    ASSUME NEW T \in SUBSET Nat, T # {}
    PROVE  \E x \in T : \A y \in T : x <= y
<1>1. IsWellFoundedOn(OpToRel(<, Nat), Nat)
    BY NatLessThanWellFounded
<1>2. PICK x \in T : \A y \in T : ~(<<y, x>> \in OpToRel(<, Nat))
    BY <1>1, WFMin
<1>3. \A y \in T : ~(y < x)
    BY <1>2 DEF OpToRel
<1> QED
    BY <1>3

\* f is the function that SumOf(sizes) defines, up to the n-th element.
Summing(sizes, n, f) ==
    f = [i \in 0..n |-> IF i = 0 THEN 0 ELSE f[i - 1] + sizes[i]]

LEMMA SumOfDef ==
    ASSUME NEW sizes
    PROVE  SumOf(sizes) = (CHOOSE f : Summing(sizes, Len(sizes), f))[Len(sizes)]
    BY DEF SumOf, Summing

\* The equation has a solution for every length.
LEMMA SummingExists ==
    ASSUME NEW sizes, NEW n \in Nat
    PROVE  \E f : Summing(sizes, n, f)
<1> DEFINE T == {m \in Nat : ~ \E f : Summing(sizes, m, f)}
<1>1. SUFFICES ASSUME T # {} PROVE FALSE
    OBVIOUS
<1>2. PICK m \in T : \A y \in T : m <= y
    BY <1>1, LeastNat
<1>3. m # 0
    <2>1. Summing(sizes, 0, [i \in 0..0 |-> 0])
        BY DEF Summing
    <2> QED
        BY <2>1
<1>4. m - 1 \in Nat /\ m - 1 \notin T
    BY <1>2, <1>3
<1>5. PICK f : Summing(sizes, m - 1, f)
    BY <1>4
<1> DEFINE g == [i \in 0..m |-> IF i = m THEN f[m - 1] + sizes[m] ELSE f[i]]
<1>6. \A i \in 0..(m - 1) : f[i] = IF i = 0 THEN 0 ELSE f[i - 1] + sizes[i]
    BY <1>5, <1>4 DEF Summing
<1>7. \A i \in 0..m : g[i] = IF i = 0 THEN 0 ELSE g[i - 1] + sizes[i]
    <2> TAKE i \in 0..m
    <2>0. \A j \in 0..(m - 1) : g[j] = f[j]
        BY <1>2, <1>4
    <2>1. CASE i = m
        BY <2>0, <2>1, <1>2, <1>3, <1>4
    <2>2. CASE i # m
        <3>1. i \in 0..(m - 1) /\ (i # 0 => i - 1 \in 0..(m - 1))
            BY <2>2, <1>2
        <3> HIDE DEF g
        <3> QED
            BY <3>1, <2>0, <1>6
    <2> QED
        BY <2>1, <2>2
<1>8. Summing(sizes, m, g)
    BY <1>7 DEF Summing
<1> QED
    BY <1>8, <1>2

\* The sums so far, from one element to the next.
LEMMA SumsSoFar ==
    ASSUME NEW sizes \in Seq(Nat)
    PROVE  \E f : /\ SumOf(sizes) = f[Len(sizes)] /\ f[0] = 0
                  /\ \A i \in 1..Len(sizes) : f[i] = f[i - 1] + sizes[i]
                  /\ \A i \in 0..Len(sizes) : f[i] \in Nat
<1> DEFINE n == Len(sizes)
           f == CHOOSE x : Summing(sizes, n, x)
<1>1. n \in Nat /\ SumOf(sizes) = f[n]
    BY SumOfDef
<1>2. Summing(sizes, n, f)
    BY <1>1, SummingExists
<1> HIDE DEF f
<1>3. \A i \in 0..n : f[i] = IF i = 0 THEN 0 ELSE f[i - 1] + sizes[i]
    BY <1>2, Zenon DEF Summing
<1>4. f[0] = 0 /\ \A i \in 1..n : f[i] = f[i - 1] + sizes[i]
    BY <1>1, <1>3
<1>5. \A i \in 0..n : f[i] \in Nat
    <2> DEFINE T == {i \in 0..n : f[i] \notin Nat}
    <2>1. SUFFICES ASSUME T # {} PROVE FALSE
        OBVIOUS
    <2>2. T \in SUBSET Nat
        BY <1>1
    <2>3. PICK i \in T : \A j \in T : i <= j
        BY <2>1, <2>2, LeastNat
    <2>4. i # 0 /\ i \in 1..n /\ i - 1 \in 0..n /\ i - 1 \notin T
        BY <2>3, <1>1, <1>4
    <2>5. sizes[i] \in Nat
        BY <2>4
    <2> QED
        BY <2>3, <2>4, <2>5, <1>4
<1> QED
    BY <1>1, <1>4, <1>5

\* A sum is that of the first k and that of the others.
LEMMA SumSplit ==
    ASSUME NEW sizes \in Seq(Nat), NEW k \in 0..Len(sizes)
    PROVE  /\ SumOf(sizes) \in Nat
           /\ SumOf(sizes) = SumOf(SubSeq(sizes, 1, k)) + SumOf(SubSeq(sizes, k + 1, Len(sizes)))
           /\ SumOf(SubSeq(sizes, 1, k)) \in Nat /\ SumOf(SubSeq(sizes, k + 1, Len(sizes))) \in Nat
<1> DEFINE n == Len(sizes)
           p == SubSeq(sizes, 1, k)
           q == SubSeq(sizes, k + 1, n)
<1>1. /\ n \in Nat /\ k \in Nat /\ k <= n
      /\ p \in Seq(Nat) /\ Len(p) = k /\ \A i \in 1..k : p[i] = sizes[i]
      /\ q \in Seq(Nat) /\ Len(q) = n - k /\ \A i \in 1..(n - k) : q[i] = sizes[k + i]
    <2>1. n \in Nat /\ k \in Nat /\ k <= n
        OBVIOUS
    <2>2. p \in Seq(Nat) /\ Len(p) = k /\ \A i \in 1..k : p[i] = sizes[i]
        BY <2>1
    <2>3. q \in Seq(Nat) /\ Len(q) = n - k /\ \A i \in 1..(n - k) : q[i] = sizes[k + i]
        BY <2>1
    <2> QED
        BY <2>1, <2>2, <2>3
<1> HIDE DEF p, q
<1>2. PICK f : /\ SumOf(sizes) = f[n] /\ f[0] = 0
               /\ \A i \in 1..n : f[i] = f[i - 1] + sizes[i]
               /\ \A i \in 0..n : f[i] \in Nat
    BY SumsSoFar
<1>3. PICK g : /\ SumOf(p) = g[Len(p)] /\ g[0] = 0
               /\ \A i \in 1..Len(p) : g[i] = g[i - 1] + p[i]
               /\ \A i \in 0..Len(p) : g[i] \in Nat
    BY <1>1, SumsSoFar, Zenon
<1>4. PICK h : /\ SumOf(q) = h[Len(q)] /\ h[0] = 0
               /\ \A i \in 1..Len(q) : h[i] = h[i - 1] + q[i]
               /\ \A i \in 0..Len(q) : h[i] \in Nat
    BY <1>1, SumsSoFar, Zenon
<1>5. \A i \in 0..k : g[i] = f[i]
    <2> DEFINE T == {i \in 0..k : g[i] # f[i]}
    <2>1. SUFFICES ASSUME T # {} PROVE FALSE
        OBVIOUS
    <2>2. T \in SUBSET Nat
        BY <1>1
    <2>3. PICK i \in T : \A j \in T : i <= j
        BY <2>1, <2>2, LeastNat
    <2>4. i \in 1..k /\ i - 1 \in 0..k /\ i - 1 \notin T
        BY <2>3, <1>1, <1>2, <1>3
    <2>5. g[i] = g[i - 1] + p[i] /\ f[i] = f[i - 1] + sizes[i] /\ p[i] = sizes[i]
        BY <2>4, <1>1, <1>2, <1>3
    <2> QED
        BY <2>3, <2>4, <2>5
<1>6. \A i \in 0..(n - k) : f[k + i] = f[k] + h[i]
    <2> DEFINE T == {i \in 0..(n - k) : f[k + i] # f[k] + h[i]}
    <2>1. SUFFICES ASSUME T # {} PROVE FALSE
        OBVIOUS
    <2>2. T \in SUBSET Nat
        BY <1>1
    <2>3. PICK i \in T : \A j \in T : i <= j
        BY <2>1, <2>2, LeastNat
    <2>4. i \in 1..(n - k) /\ i - 1 \in 0..(n - k) /\ i - 1 \notin T
        BY <2>3, <1>1, <1>2, <1>4
    <2>5. h[i] = h[i - 1] + q[i] /\ q[i] = sizes[k + i] /\ h[i - 1] \in Nat /\ h[i] \in Nat
        BY <2>4, <1>1, <1>4
    <2>6. k + i \in 1..n /\ k \in 0..n /\ k + i - 1 = k + (i - 1)
        <3>1. n \in Nat /\ k \in Nat /\ k <= n
            BY <1>1
        <3>2. i \in 1..(n - k)
            BY <2>4
        <3> HIDE DEF n
        <3> QED
            BY <3>1, <3>2
    <2>7. f[k + i] = f[k + (i - 1)] + sizes[k + i] /\ f[k] \in Nat /\ sizes[k + i] \in Nat
        BY <2>6, <1>2
    <2>8. f[k + (i - 1)] = f[k] + h[i - 1]
        BY <2>4
    <2> QED
        BY <2>3, <2>5, <2>7, <2>8
<1>7. f[n] = f[k] + h[n - k]
    BY <1>1, <1>6
<1>8. SumOf(p) = f[k] /\ SumOf(q) = h[n - k] /\ f[k] \in Nat /\ h[n - k] \in Nat
    BY <1>1, <1>2, <1>3, <1>4, <1>5
<1>9. SumOf(sizes) \in Nat /\ SumOf(sizes) = SumOf(p) + SumOf(q)
    BY <1>2, <1>7, <1>8
<1> QED
    BY <1>8, <1>9, Zenon DEF p, q

LEMMA SumAppend ==
    ASSUME NEW sizes \in Seq(Nat), NEW n \in Nat
    PROVE  SumOf(Append(sizes, n)) = SumOf(sizes) + n
<1> DEFINE s == Append(sizes, n)
           m == Len(sizes)
<1>1. s \in Seq(Nat) /\ Len(s) = m + 1 /\ m \in Nat /\ m \in 0..Len(s)
    OBVIOUS
<1>2. SubSeq(s, 1, m) = sizes
    OBVIOUS
<1>3. SubSeq(s, m + 1, Len(s)) = <<n>>
    <2> DEFINE r == SubSeq(s, m + 1, Len(s))
    <2>1. r \in Seq(Nat) /\ Len(r) = 1 /\ r[1] = n
        BY <1>1
    <2>2. <<n>> \in Seq(Nat) /\ Len(<<n>>) = 1 /\ <<n>>[1] = n
        OBVIOUS
    <2> HIDE DEF r
    <2>3. r = <<n>>
        BY <2>1, <2>2, SeqEqual
    <2> QED
        BY <2>3 DEF r
<1>4. SumOf(<<n>>) = n
    <2>1. <<n>> \in Seq(Nat) /\ Len(<<n>>) = 1 /\ <<n>>[1] = n
        OBVIOUS
    <2> DEFINE o == <<n>>
    <2> HIDE DEF o
    <2>2. PICK f : /\ SumOf(o) = f[Len(o)] /\ f[0] = 0
                   /\ \A i \in 1..Len(o) : f[i] = f[i - 1] + o[i]
        BY <2>1, SumsSoFar DEF o
    <2>3. SumOf(o) = f[1] /\ f[1] = f[0] + n
        <3>1. Len(o) = 1 /\ o[1] = n
            BY <2>1 DEF o
        <3>2. f[1] = f[1 - 1] + o[1]
            BY <2>2, <3>1
        <3> QED
            BY <2>2, <3>1, <3>2
    <2> QED
        BY <2>2, <2>3 DEF o
<1>5. SumOf(s) = SumOf(SubSeq(s, 1, m)) + SumOf(SubSeq(s, m + 1, Len(s)))
    BY <1>1, SumSplit
<1> QED
    BY <1>2, <1>3, <1>4, <1>5

-----------------------------------------------------------------------------
(* The cache.                                                              *)

\* What the chunks of a list weigh.
Sizes(order) == [i \in DOMAIN order |-> SizeOf(order[i])]

LEMMA KnownSize ==
    ASSUME uploads \in Seq(Files), NEW chunk \in Chunk, Known(chunk)
    PROVE  SizeOf(chunk) \in Nat \ {0}
<1>1. uploads[chunk[1]] \in Files
    BY DEF Known
<1>2. Chunks[uploads[chunk[1]]] \in Seq(Nat \ {0})
    BY <1>1, AttachConstants DEF AttachConstants
<1> QED
    BY <1>2 DEF Known, SizeOf

\* What an entry evicts: the first k, after which there is room for it.
LEMMA EvictedFits ==
    ASSUME uploads \in Seq(Files), CacheInv, NEW size \in Nat, size <= MaxEntry
    PROVE  \E k \in 0..Len(cache.order) :
              /\ Evicted(cache, size).order = SubSeq(cache.order, k + 1, Len(cache.order))
              /\ Evicted(cache, size).total = SumOf(SubSeq(Sizes(cache.order), k + 1, Len(cache.order)))
              /\ Len(cache.order) - k < MaxEntries
              /\ Evicted(cache, size).total + size <= MaxBytes
<1> DEFINE order == cache.order
           n == Len(order)
           w == Sizes(order)
           prefix(j) == Total(SubSeq(order, 1, j))
           fits(j) == Len(order) - j < MaxEntries /\ cache.total - prefix(j) + size <= MaxBytes
           first(j) == (fits(j) \/ j = Len(order)) /\ \A i \in 0..(j - 1) : ~fits(i)
           k == CHOOSE j \in 0..Len(order) : first(j)
<1>1. order \in Seq(Chunk) /\ n \in Nat /\ cache.total = SumOf(w) /\ cache.total \in Nat
    BY DEF CacheInv, CacheSound, Total, Sizes
<1>2. w \in Seq(Nat) /\ Len(w) = n
    <2>1. \A i \in 1..n : order[i] \in Chunk /\ Known(order[i])
        BY <1>1 DEF CacheInv
    <2>2. \A i \in 1..n : SizeOf(order[i]) \in Nat
        BY <2>1, KnownSize
    <2> QED
        BY <1>1, <2>2 DEF Sizes
<1>3. \A j \in 0..n : prefix(j) = SumOf(SubSeq(w, 1, j))
    <2> TAKE j \in 0..n
    <2>1. Sizes(SubSeq(order, 1, j)) = SubSeq(w, 1, j)
        BY <1>1, <1>2 DEF Sizes
    <2> QED
        BY <2>1 DEF Total, Sizes
<1>4. \A j \in 0..n : /\ SumOf(w) = prefix(j) + SumOf(SubSeq(w, j + 1, n))
                      /\ prefix(j) \in Nat /\ SumOf(SubSeq(w, j + 1, n)) \in Nat
    BY <1>2, <1>3, SumSplit
<1>5. fits(n)
    <2>1. SubSeq(order, 1, n) = order
        BY <1>1
    <2>2. prefix(n) = cache.total
        BY <2>1, <1>1 DEF Total, Sizes
    <2> QED
        BY <1>1, <2>2, AttachConstants DEF AttachConstants
<1> HIDE DEF prefix
<1>6. \E j \in 0..n : first(j)
    <2> DEFINE S == {j \in 0..n : fits(j)}
    <2>1. S \in SUBSET Nat /\ S # {}
        BY <1>1, <1>5
    <2> HIDE DEF fits
    <2>2. PICK j \in S : \A i \in S : j <= i
        BY <2>1, LeastNat
    <2>3. \A i \in 0..(j - 1) : i \in 0..n /\ ~(j <= i)
        BY <2>1, <2>2, <1>1
    <2> QED
        BY <2>2, <2>3
<1>7. k \in 0..n /\ first(k)
    <2> HIDE DEF first
    <2> QED
        BY <1>6
<1>8. fits(k)
    BY <1>5, <1>7
<1> DEFINE e == Evicted(cache, size)
<1>9. e = [order |-> SubSeq(order, k + 1, n), total |-> cache.total - prefix(k)]
    BY DEF Evicted, prefix
<1> HIDE DEF k, first, w, e, n, fits
<1>10. e.order = SubSeq(order, k + 1, n) /\ e.total = cache.total - prefix(k)
    BY <1>9
<1>11. cache.total - prefix(k) = SumOf(SubSeq(w, k + 1, n))
    BY <1>1, <1>4, <1>7
<1>12. n - k < MaxEntries /\ e.total + size <= MaxBytes
    BY <1>8, <1>10 DEF fits, n
<1> QED
    BY <1>7, <1>10, <1>11, <1>12 DEF w, e, n

\* CidCache::put keeps the bounds and the books.
LEMMA PutKeeps ==
    ASSUME uploads \in Seq(Files), CacheInv, uploads' = uploads,
           NEW chunk \in Chunk, Known(chunk), chunk \notin ToSet(cache.order),
           cache' = put(cache, chunk)
    PROVE  CacheInv'
<1> DEFINE order == cache.order
           n == Len(order)
           size == SizeOf(chunk)
<1>1. size \in Nat /\ size > 0
    BY KnownSize
<1>2. CASE size > MaxEntry
    <2>1. cache' = cache
        BY <1>2 DEF put
    <2> QED
        BY <2>1 DEF CacheInv, CacheSound, Total, SizeOf, Known
<1>3. CASE ~(size > MaxEntry)
    <2>0. size <= MaxEntry
        BY <1>1, <1>3, AttachConstants DEF AttachConstants
    <2> DEFINE e == Evicted(cache, size)
               w == Sizes(order)
    <2>1. PICK k \in 0..n :
              /\ e.order = SubSeq(order, k + 1, n)
              /\ e.total = SumOf(SubSeq(w, k + 1, n))
              /\ n - k < MaxEntries
              /\ e.total + size <= MaxBytes
        BY <1>1, <2>0, EvictedFits
    <2>2. cache' = [order |-> Append(e.order, chunk), total |-> e.total + size]
        BY <1>3 DEF put
    <2>3. order \in Seq(Chunk) /\ n \in Nat /\ \A i \in 1..n : Known(order[i])
        BY DEF CacheInv
    <2>4. w \in Seq(Nat) /\ Len(w) = n /\ \A i \in 1..n : w[i] = SizeOf(order[i])
        <3>1. \A i \in 1..n : SizeOf(order[i]) \in Nat
            BY <2>3, KnownSize
        <3>2. w = [i \in 1..n |-> SizeOf(order[i])]
            BY <2>3 DEF Sizes
        <3> HIDE DEF w, n
        <3> QED
            BY <2>3, <3>1, <3>2
    <2> DEFINE s == SubSeq(order, k + 1, n)
               v == SubSeq(w, k + 1, n)
               m == n - k
    <2>5. /\ m \in Nat /\ s \in Seq(Chunk) /\ Len(s) = m /\ \A i \in 1..m : s[i] = order[k + i]
          /\ v \in Seq(Nat) /\ Len(v) = m /\ \A i \in 1..m : v[i] = w[k + i]
        BY <2>3, <2>4
    <2> DEFINE o == Append(s, chunk)
    <2> HIDE DEF s, v, w, e, m, n, size, order
    <2>6. cache'.order = o /\ cache'.total = SumOf(v) + size
        <3>1. e.order = s /\ e.total = SumOf(v)
            BY <2>1 DEF s, v
        <3> HIDE DEF o
        <3>2. cache' = [order |-> o, total |-> e.total + size]
            BY <2>2, <3>1 DEF o
        <3> QED
            BY <3>1, <3>2
    <2>7. o \in Seq(Chunk) /\ Len(o) = m + 1 /\ o[m + 1] = chunk /\ \A i \in 1..m : o[i] = s[i]
        BY <2>5
    <2>8. [i \in DOMAIN o |-> SizeOf(o[i])] = Append(v, size)
        <3> DEFINE a == [i \in DOMAIN o |-> SizeOf(o[i])]
                   b == Append(v, size)
        <3>1. DOMAIN o = 1..(m + 1)
            BY <2>7
        <3>2. \A i \in 1..m : k + i \in 1..n
            BY <2>1, <2>3 DEF m
        <3> HIDE DEF o, b
        <3>3. \A i \in 1..m : SizeOf(o[i]) = v[i]
            <4> TAKE i \in 1..m
            <4>1. o[i] = order[k + i] /\ v[i] = w[k + i] /\ k + i \in 1..n
                BY <2>5, <2>7, <3>2
            <4> QED
                BY <4>1, <2>4
        <3>4. b \in Seq(Nat) /\ Len(b) = m + 1 /\ b[m + 1] = size /\ \A i \in 1..m : b[i] = v[i]
            BY <1>1, <2>5 DEF b
        <3>5. \A i \in 1..(m + 1) : a[i] = b[i]
            <4>1. \A i \in 1..m : a[i] = SizeOf(o[i])
                BY <2>5, <3>1
            <4>2. a[m + 1] = SizeOf(chunk)
                BY <2>5, <2>7, <3>1
            <4> HIDE DEF a
            <4> QED
                BY <2>5, <3>3, <3>4, <4>1, <4>2 DEF size
        <3>6. DOMAIN a = 1..(m + 1) /\ DOMAIN b = 1..(m + 1)
            BY <3>1, <3>4
        <3>7. a = [i \in 1..(m + 1) |-> a[i]] /\ b = [i \in 1..(m + 1) |-> b[i]]
            BY <3>1, <3>4, <3>6
        <3> HIDE DEF a
        <3> QED
            BY <3>5, <3>7 DEF a, b, o
    <2>9. cache'.total = SumOf(Append(v, size))
        BY <1>1, <2>5, <2>6, SumAppend
    <2>10. cache'.total = Total(cache.order)'
        <3>1. Total(cache.order)' = SumOf([i \in DOMAIN cache'.order |-> Chunks[uploads[cache'.order[i][1]]][cache'.order[i][2]]])
            BY DEF Total, SizeOf
        <3>2. [i \in DOMAIN o |-> SizeOf(o[i])] = [i \in DOMAIN o |-> Chunks[uploads[o[i][1]]][o[i][2]]]
            BY DEF SizeOf
        <3> QED
            BY <2>6, <2>8, <2>9, <3>1, <3>2
    <2>11. cache'.total \in Nat /\ cache'.total <= MaxBytes /\ Len(cache'.order) <= MaxEntries
        <3>1. SumOf(v) \in Nat
            BY <2>4, <2>1, SumSplit DEF v
        <3>2. e.total + size <= MaxBytes /\ e.total = SumOf(v) /\ m < MaxEntries
            BY <2>1 DEF v, m
        <3> QED
            BY <1>1, <2>5, <2>6, <2>7, <3>1, <3>2, AttachConstants DEF AttachConstants
    <2>12. \A i \in 1..(m + 1) : o[i] = chunk \/ \E j \in 1..n : o[i] = order[j]
        <3>1. \A i \in 1..m : o[i] = order[k + i] /\ k + i \in 1..n
            BY <2>1, <2>3, <2>5, <2>7 DEF m
        <3> QED
            BY <2>5, <2>7, <3>1
    <2>13. (\A i \in DOMAIN cache.order : Known(cache.order[i]))'
        <3>1. \A i \in 1..(m + 1) : Known(o[i])
            BY <2>3, <2>12
        <3>2. \A i \in DOMAIN cache'.order : i \in 1..(m + 1)
            BY <2>6, <2>7
        <3> QED
            BY <2>6, <3>1, <3>2 DEF Known
    <2>14. IsInjective(cache'.order)
        <3>0. \A i \in 1..m : o[i] = order[k + i] /\ k + i \in 1..n /\ k + i \in DOMAIN order
            BY <2>1, <2>3, <2>5, <2>7 DEF m, n
        <3>1. \A i \in 1..m : o[i] # chunk
            BY <3>0 DEF ToSet, order
        <3>2. \A i, j \in 1..m : o[i] = o[j] => i = j
            <4>1. \A i, j \in DOMAIN order : order[i] = order[j] => i = j
                BY DEF CacheInv, CacheSound, IsInjective, order
            <4> QED
                BY <2>1, <2>5, <3>0, <4>1
        <3>3. \A i, j \in 1..(m + 1) : o[i] = o[j] => i = j
            BY <2>5, <2>7, <3>1, <3>2
        <3> QED
            BY <2>6, <2>7, <3>3 DEF IsInjective
    <2> QED
        BY <2>6, <2>7, <2>10, <2>11, <2>13, <2>14 DEF CacheInv, CacheSound
<1> QED
    BY <1>2, <1>3
-----------------------------------------------------------------------------
(* What a step leaves as it is.                                            *)

\* Uploads are numbered; the list only grows.
Grown ==
    /\ uploads' \in Seq(Files) /\ Len(uploads) <= Len(uploads')
    /\ \A n \in 1..Len(uploads) : uploads'[n] = uploads[n]

LEMMA UploadsGrow ==
    ASSUME uploads \in Seq(Files), Grown
    PROVE  /\ \A a : Complete(a) => Complete(a)'
           /\ \A c : Known(c) => Known(c)' /\ SizeOf(c)' = SizeOf(c)
<1>1. Len(uploads) \in Nat /\ Len(uploads') \in Nat
    BY DEF Grown
<1>2. ASSUME NEW a, Complete(a) PROVE Complete(a)'
    <2>1. a.up \in 1..Len(uploads) /\ a.up \in 1..Len(uploads') /\ uploads'[a.up] = uploads[a.up]
        BY <1>1, <1>2 DEF Grown, Complete
    <2> QED
        BY <1>2, <2>1 DEF Complete, ChunksOf
<1>3. ASSUME NEW c, Known(c) PROVE Known(c)' /\ SizeOf(c)' = SizeOf(c)
    BY <1>1, <1>3 DEF Grown, Known, SizeOf
<1> QED
    BY <1>2, <1>3

LEMMA CacheStays ==
    ASSUME uploads \in Seq(Files), CacheInv, Grown, cache' = cache
    PROVE  CacheInv'
<1>1. \A i \in DOMAIN cache.order : Known(cache.order[i])' /\ SizeOf(cache.order[i])' = SizeOf(cache.order[i])
    BY UploadsGrow DEF CacheInv
<1>2. Total(cache.order)' = Total(cache.order)
    <2>1. Total(cache.order)' = SumOf([i \in DOMAIN cache'.order |-> SizeOf(cache.order[i])'])
        BY DEF Total
    <2>2. [i \in DOMAIN cache'.order |-> SizeOf(cache.order[i])'] = [i \in DOMAIN cache.order |-> SizeOf(cache.order[i])]
        BY <1>1
    <2> QED
        BY <2>1, <2>2 DEF Total
<1> QED
    BY <1>1, <1>2 DEF CacheInv, CacheSound

LEMMA FetchesStay ==
    ASSUME FetchInv, fetches' = fetches, inbox \subseteq inbox'
    PROVE  FetchInv'
    BY DEF FetchInv, Arrived

\* What is stored stays, as long as nothing is unpinned.
LEMMA StoredStays ==
    ASSUME pins \subseteq pins', blobs \subseteq blobs', respawns' = 0 => respawns = 0
    PROVE  \A via, refs : Stored(via, refs) => Stored(via, refs)'
    BY DEF Stored

\* The references of an attachment, one by one.
LEMMA CompleteRefs ==
    ASSUME NEW a, Complete(a)
    PROVE  /\ DOMAIN a.refs = 1..Len(a.refs) /\ DOMAIN a.refs = DOMAIN Chunks[uploads[a.up]]
           /\ \A i \in DOMAIN a.refs : a.refs[i].chunk = <<a.up, i>>
           /\ a.up \in Nat
<1>1. a.refs \in Seq(Ref) /\ a.up \in Nat
    BY DEF Complete, Attachment
<1>2. [i \in DOMAIN a.refs |-> a.refs[i].chunk] = [i \in DOMAIN Chunks[uploads[a.up]] |-> <<a.up, i>>]
    BY DEF Complete, ChunksOf
<1> QED
    BY <1>1, <1>2

-----------------------------------------------------------------------------
(* The reader's steps.                                                     *)

\* The chunk a fetch wants next is one of the upload it fetches.
LEMMA NextChunkKnown ==
    ASSUME AttachInv, NEW k, Fetching(k)
    PROVE  /\ fetches[k].got \in Seq(Chunk)
           /\ NextRef(k).chunk \in Chunk /\ Known(NextRef(k).chunk)
<1>1. k \in DOMAIN fetches /\ fetches[k] \in Fetch /\ fetches[k].got \in Seq(Chunk)
    <2>1. k \in DOMAIN fetches /\ fetches[k].got # None /\ fetches \in Seq(Fetch)
        BY DEF Fetching, Running, AttachInv, FetchInv
    <2>2. fetches[k] \in Fetch
        BY <2>1
    <2> QED
        BY <2>1, <2>2 DEF Fetch
<1>2. Wanted(k) \in inbox /\ Wanted(k).up = fetches[k].up
    BY <1>1 DEF AttachInv, FetchInv, Arrived, Wanted, Att
<1>3. PICK a : a = Wanted(k)
    OBVIOUS
<1>4. Complete(a)
    BY <1>2, <1>3 DEF AttachInv, ConvInv
<1>5. Len(fetches[k].got) + 1 \in 1..Len(a.refs) /\ Len(a.refs) \in Nat
    BY <1>1, <1>3, <1>4 DEF Fetching, Complete, Attachment
<1>6. PICK i \in 1..Len(a.refs) : NextRef(k) = a.refs[i]
    BY <1>3, <1>5 DEF NextRef
<1>7. NextRef(k).chunk = <<a.up, i>> /\ i \in DOMAIN Chunks[uploads[a.up]] /\ a.up \in Nat
    BY <1>4, <1>6, CompleteRefs
<1>8. a.up \in 1..Len(uploads)
    BY <1>4 DEF Complete
<1> QED
    BY <1>1, <1>7, <1>8, <1>6, <1>5 DEF Chunk, Known

\* A fetch gets a chunk or is over, and its timeout fires.
LEMMA FetchKeeps ==
    ASSUME FetchInv, NEW k \in DOMAIN fetches, inbox' = inbox,
           NEW f, f \in Fetch, f.up = fetches[k].up,
           fetches' = [fetches EXCEPT ![k] = f]
    PROVE  FetchInv'
<1>1. fetches \in Seq(Fetch) /\ k \in 1..Len(fetches) /\ Len(fetches) \in Nat
    BY DEF FetchInv
<1>2. fetches' \in Seq(Fetch) /\ DOMAIN fetches' = DOMAIN fetches
    BY <1>1
<1>3. \A j \in DOMAIN fetches' : fetches'[j].up = fetches[j].up
    BY <1>1, <1>2
<1> QED
    BY <1>2, <1>3 DEF FetchInv, Arrived

LEMMA GotKeeps ==
    ASSUME AttachInv, NEW k, Fetching(k), GotChunk(k), inbox' = inbox
    PROVE  FetchInv'
<1>1. k \in DOMAIN fetches /\ fetches[k] \in Fetch
    BY DEF Fetching, Running, AttachInv, FetchInv
<1> DEFINE f == [fetches[k] EXCEPT !.got = Append(@, NextRef(k).chunk)]
<1>2. f \in Fetch /\ f.up = fetches[k].up
    <2>1. Append(fetches[k].got, NextRef(k).chunk) \in Seq(Chunk)
        BY NextChunkKnown
    <2> QED
        BY <1>1, <2>1 DEF Fetch
<1>3. fetches' = [fetches EXCEPT ![k] = f]
    BY <1>1 DEF GotChunk, AttachInv, FetchInv
<1>4. PICK g : g = f
    OBVIOUS
<1> HIDE DEF f
<1> QED
    BY <1>1, <1>2, <1>3, <1>4, FetchKeeps DEF AttachInv

LEMMA ReaderKeeps ==
    ASSUME AttachInv, UNCHANGED <<sender, stores, convs>>,
           \/ \E n \in Ups : do_fetch(n)
           \/ \E k \in Tries : Timeout(k) \/ fetch_bytes(k) \/ get_bytes(k) \/ FetchFails(k) \/ Decrypted(k)
    PROVE  AttachInv'
<1>0. UNCHANGED <<pending, sending, uploads, upload, node, blobs, pins, respawns, conv, deleted, deletion, doomed, inbox>>
    BY DEF sender, stores, convs
<1>1. SenderInv' /\ UploadInv' /\ ConvInv'
    <2>2. \A a : Complete(a)' <=> Complete(a)
        BY <1>0 DEF Complete, ChunksOf
    <2>3. \A via, refs : Stored(via, refs)' <=> Stored(via, refs)
        BY <1>0 DEF Stored
    <2>4. Over' = Over /\ Current' = Current
        BY <1>0 DEF Over, Current
    <2>5. SenderInv'
        BY <1>0, <2>2, <2>3, <2>4 DEF AttachInv, SenderInv, Coming
    <2>6. UploadInv'
        BY <1>0, <2>3, <2>4 DEF AttachInv, UploadInv
    <2>7. ConvInv'
        BY <1>0, <2>2, <2>3, <2>4 DEF AttachInv, ConvInv
    <2> QED
        BY <2>5, <2>6, <2>7
<1>2. Grown /\ uploads \in Seq(Files)
    BY <1>0 DEF Grown, AttachInv, SenderInv
<1>3. cache' = cache => CacheInv'
    BY <1>2, CacheStays DEF AttachInv
<1>4. fetches \in Seq(Fetch)
    BY DEF AttachInv, FetchInv
<1>5. ASSUME NEW n \in Ups, do_fetch(n)
      PROVE  AttachInv'
    <2> DEFINE f == [up |-> n, got |-> <<>>, timer |-> TRUE]
    <2>1. f \in Fetch
        BY DEF Fetch, Ups
    <2>2. fetches' = Append(fetches, f) /\ cache' = cache /\ Arrived(n)
        BY <1>5 DEF do_fetch
    <2>3. f.up = n
        OBVIOUS
    <2> HIDE DEF f
    <2>4. fetches' \in Seq(Fetch) /\ \A k \in DOMAIN fetches' : fetches'[k] = f \/ (k \in DOMAIN fetches /\ fetches'[k] = fetches[k])
        BY <1>4, <2>1, <2>2
    <2>5. \A k \in DOMAIN fetches' : Arrived(fetches'[k].up)
        BY <2>2, <2>3, <2>4 DEF AttachInv, FetchInv
    <2>6. FetchInv'
        BY <1>0, <2>4, <2>5 DEF FetchInv, Arrived
    <2> QED
        BY <1>1, <1>3, <2>2, <2>6 DEF AttachInv
<1>6. ASSUME NEW k \in Tries, Timeout(k)
      PROVE  AttachInv'
    <2> DEFINE f == [fetches[k] EXCEPT !.timer = FALSE]
    <2>1. k \in DOMAIN fetches /\ fetches' = [fetches EXCEPT ![k] = f] /\ cache' = cache
        BY <1>4, <1>6 DEF Timeout
    <2>2. fetches[k] \in Fetch
        BY <1>4, <2>1
    <2>3. f \in Fetch /\ f.up = fetches[k].up
        BY <2>2 DEF Fetch
    <2>4. PICK g : g = f
        OBVIOUS
    <2> HIDE DEF f
    <2>5. FetchInv'
        BY <1>0, <2>1, <2>3, <2>4, FetchKeeps DEF AttachInv
    <2> QED
        BY <1>1, <1>3, <2>1, <2>5 DEF AttachInv
<1>7. ASSUME NEW k \in Tries, fetch_bytes(k)
      PROVE  AttachInv'
    <2>1. FetchInv' /\ cache' = cache
        BY <1>0, <1>7, GotKeeps DEF fetch_bytes
    <2> QED
        BY <1>1, <1>3, <2>1 DEF AttachInv
<1>8. ASSUME NEW k \in Tries, get_bytes(k)
      PROVE  AttachInv'
    <2>1. FetchInv'
        BY <1>0, <1>8, GotKeeps DEF get_bytes
    <2>2. PICK c : c = NextRef(k).chunk
        OBVIOUS
    <2>3. c \in Chunk /\ Known(c)
        BY <1>8, <2>2, NextChunkKnown DEF get_bytes
    <2>4. cache' = cache \/ (c \notin ToSet(cache.order) /\ cache' = put(cache, c))
        BY <1>8, <2>2 DEF get_bytes
    <2>5. CacheInv'
        BY <1>0, <1>2, <1>3, <2>3, <2>4, PutKeeps DEF AttachInv
    <2> QED
        BY <1>1, <2>1, <2>5 DEF AttachInv
<1>9. ASSUME NEW k \in Tries, FetchFails(k) \/ Decrypted(k)
      PROVE  AttachInv'
    <2> DEFINE f == [fetches[k] EXCEPT !.got = None]
    <2>1. k \in DOMAIN fetches /\ fetches' = [fetches EXCEPT ![k] = f] /\ cache' = cache
        BY <1>4, <1>9 DEF FetchFails, Decrypted, Fetching, Running
    <2>2. fetches[k] \in Fetch
        BY <1>4, <2>1
    <2>3. f \in Fetch /\ f.up = fetches[k].up
        BY <2>2 DEF Fetch
    <2>4. PICK g : g = f
        OBVIOUS
    <2> HIDE DEF f
    <2>5. FetchInv'
        BY <1>0, <2>1, <2>3, <2>4, FetchKeeps DEF AttachInv
    <2> QED
        BY <1>1, <1>3, <2>1, <2>5 DEF AttachInv
<1> QED
    BY <1>5, <1>6, <1>7, <1>8, <1>9

-----------------------------------------------------------------------------
(* The sender's steps and the providers'.                                  *)

\* A step that adds to the stores at most, and numbers no upload twice.
LEMMA Kept ==
    ASSUME AttachInv, UNCHANGED <<cache, fetches, conv, deleted, deletion, doomed, inbox>>,
           Grown, Over \subseteq Over',
           pins \subseteq pins', blobs \subseteq blobs', respawns' = 0 => respawns = 0
    PROVE  ConvInv' /\ CacheInv' /\ FetchInv'
<1>1. CacheInv' /\ FetchInv'
    BY CacheStays, FetchesStay DEF AttachInv, SenderInv
<1>2. \A a : Complete(a) => Complete(a)'
    BY UploadsGrow DEF AttachInv, SenderInv
<1>3. \A via, refs : Stored(via, refs) => Stored(via, refs)'
    BY StoredStays
<1>4. ConvInv'
    BY <1>2, <1>3 DEF AttachInv, ConvInv
<1> QED
    BY <1>1, <1>4

LEMMA ComingStays ==
    ASSUME uploads \in Seq(Files), UNCHANGED <<conv, deleted>>, Grown, Over \subseteq Over',
           pins \subseteq pins', blobs \subseteq blobs', respawns' = 0 => respawns = 0
    PROVE  \A atts : Coming(atts) => Coming(atts)'
<1>1. \A a : Complete(a) => Complete(a)'
    BY UploadsGrow
<1>2. \A via, refs : Stored(via, refs) => Stored(via, refs)'
    BY StoredStays
<1> QED
    BY <1>1, <1>2 DEF Coming

LEMMA ComingMore ==
    ASSUME NEW atts, NEW more, Coming(atts)', Coming(more)'
    PROVE  Coming(atts \o more)'
<1>1. atts \in Seq(Attachment) /\ more \in Seq(Attachment)
    BY DEF Coming
<1>2. atts \o more \in Seq(Attachment)
    BY <1>1
<1>3. ToSet(atts \o more) \subseteq ToSet(atts) \cup ToSet(more)
    BY <1>1 DEF ToSet
<1> QED
    BY <1>2, <1>3 DEF Coming

LEMMA ComingNone == Coming(<<>>)
    BY DEF Coming, ToSet

\* What the composer does.
LEMMA ComposerKeeps ==
    ASSUME AttachInv, UNCHANGED <<uploads, upload, stores, convs, reader>>,
           send \/ (\E f \in Files : on_file(f)) \/ (\E i \in Ups : Unpick(i))
    PROVE  AttachInv'
<1>1. UNCHANGED <<uploads, upload, node, blobs, pins, respawns, conv, deleted, deletion, doomed, inbox, cache, fetches>>
    BY DEF stores, convs, reader
<1>2. Over' = Over /\ Current' = Current /\ Grown
    BY <1>1 DEF Over, Current, Grown, AttachInv, SenderInv
<1>3. ConvInv' /\ CacheInv' /\ FetchInv'
    BY <1>1, <1>2, Kept
<1>4. \A atts : Coming(atts) => Coming(atts)'
    BY <1>1, <1>2, ComingStays DEF AttachInv, SenderInv
<1>5. CASE sending' = sending
    <2>1. ASSUME NEW f \in Files, on_file(f) PROVE pending' \in Seq(Files)
        BY <2>1 DEF on_file, AttachInv, SenderInv
    <2>2. ASSUME NEW i \in Ups, Unpick(i) PROVE pending' \in Seq(Files)
        <3>1. pending \in Seq(Files) /\ i \in 1..Len(pending) /\ Len(pending) \in Nat
            BY <2>2 DEF Unpick, AttachInv, SenderInv
        <3>2. SubSeq(pending, 1, i - 1) \in Seq(Files) /\ SubSeq(pending, i + 1, Len(pending)) \in Seq(Files)
            BY <3>1
        <3> QED
            BY <2>2, <3>2 DEF Unpick, RemoveAt
    <2>3. send => pending' \in Seq(Files)
        BY DEF send
    <2>4. SenderInv'
        BY <1>1, <1>2, <1>4, <1>5, <2>1, <2>2, <2>3 DEF AttachInv, SenderInv
    <2>5. UploadInv'
        BY <1>1, <1>2, <1>5 DEF AttachInv, UploadInv, Stored
    <2> QED
        BY <1>3, <2>4, <2>5 DEF AttachInv
<1>6. CASE send
    <2>1. sending' = [files |-> pending, atts |-> <<>>] /\ pending' = <<>> /\ sending = None
        BY <1>6 DEF send
    <2>2. Coming(<<>>)'
        BY <1>4, ComingNone
    <2>3. sending'.files = pending /\ sending'.atts = <<>>
        BY <2>1
    <2>4. SenderInv'
        BY <1>1, <2>1, <2>2, <2>3 DEF AttachInv, SenderInv
    <2>5. UploadInv'
        BY <1>1, <2>1 DEF AttachInv, UploadInv
    <2> QED
        BY <1>3, <2>4, <2>5 DEF AttachInv
<1> QED
    BY <1>5, <1>6 DEF on_file, Unpick

LEMMA UploadBegins ==
    ASSUME AttachInv, upload_attachment
    PROVE  AttachInv'
<1> DEFINE f == Head(sending.files)
           n == Len(uploads) + 1
<1>1. /\ sending # None /\ upload = None /\ sending.files # <<>> /\ uploads' = Append(uploads, f)
      /\ UNCHANGED <<pending, node, blobs, pins, respawns, conv, deleted, deletion, doomed, inbox, cache, fetches>>
    BY DEF upload_attachment, stores, convs, reader
<1>2. uploads \in Seq(Files) /\ sending.files \in Seq(Files) /\ Coming(sending.atts)
    BY <1>1 DEF AttachInv, SenderInv
<1>3. f \in Files /\ Tail(sending.files) \in Seq(Files)
    BY <1>1, <1>2
<1>4. /\ Len(uploads) \in Nat /\ uploads' \in Seq(Files) /\ Len(uploads') = n /\ uploads'[n] = f
      /\ \A i \in 1..Len(uploads) : uploads'[i] = uploads[i]
    BY <1>1, <1>2, <1>3
<1>5. Grown
    BY <1>4 DEF Grown
<1>6. Over = 1..Len(uploads) /\ Over' \in {1..n, 1..(n - 1)} /\ Over \subseteq Over'
    BY <1>1, <1>4 DEF Over
<1>7. ConvInv' /\ CacheInv' /\ FetchInv'
    BY <1>1, <1>5, <1>6, Kept
<1>8. PICK atts : atts = sending.atts
    OBVIOUS
<1>9. Coming(atts) /\ Coming(atts)'
    BY <1>1, <1>2, <1>5, <1>6, <1>8, ComingStays
<1>10. CASE Chunks[f] = <<>>
    <2>0. PICK a : a = Attached(n, "inline", <<>>)
        OBVIOUS
    <2>1. sending' = [files |-> Tail(sending.files), atts |-> sending.atts \o <<a>>] /\ upload' = upload
        BY <1>10, <2>0 DEF upload_attachment, NextFile
    <2>2. Coming(<<a>>)'
        <3>1. a \in Attachment /\ a.up = n /\ a.via = "inline" /\ a.refs = <<>>
            BY <1>4, <2>0 DEF Attachment, Attached
        <3>2. ChunksOf(a.up)' = <<>>
            BY <1>4, <1>10, <3>1 DEF ChunksOf
        <3>3. Complete(a)'
            BY <1>4, <3>1, <3>2 DEF Complete
        <3>4. a.up \in Over' /\ Stored(a.via, a.refs)'
            BY <1>1, <1>4, <2>1, <3>1 DEF Over, Stored
        <3>5. \A b \in conv \cup deleted : b.up # a.up
            BY <1>4, <1>6, <3>1 DEF AttachInv, ConvInv
        <3>6. <<a>> \in Seq(Attachment) /\ ToSet(<<a>>) = {a}
            BY <3>1 DEF ToSet
        <3> QED
            BY <1>1, <3>3, <3>4, <3>5, <3>6 DEF Coming
    <2>4. Coming(atts \o <<a>>)'
        BY <1>9, <2>2, ComingMore
    <2>5. sending'.files = Tail(sending.files) /\ sending'.atts = atts \o <<a>>
        BY <2>1, <1>8
    <2>6. Coming(sending.atts)'
        BY <2>4, <2>5 DEF Coming
    <2>7. SenderInv'
        BY <1>1, <1>3, <1>4, <2>5, <2>6 DEF AttachInv, SenderInv
    <2>8. UploadInv'
        BY <1>1, <2>1 DEF UploadInv
    <2> QED
        BY <1>7, <2>7, <2>8 DEF AttachInv
<1>11. CASE Chunks[f] # <<>>
    <2>1. upload' = [via |-> "blobs", refs |-> <<>>] /\ sending' = sending
        BY <1>11 DEF upload_attachment
    <2>2. SenderInv'
        BY <1>1, <1>4, <1>8, <1>9, <2>1 DEF AttachInv, SenderInv
    <2>3. upload'.via = "blobs" /\ upload'.refs = <<>> /\ upload' \in [via : {"blobs", "content"}, refs : Seq(Ref)]
        BY <2>1
    <2>4. Current' = n /\ n \in 1..Len(uploads')
        BY <1>4 DEF Current
    <2>5. Stored(upload.via, upload.refs)'
        BY <2>3 DEF Stored
    <2>6. Chunks[f] \in Seq(Nat \ {0})
        BY <1>3, AttachConstants DEF AttachConstants
    <2>7. UploadInv'
        BY <1>1, <1>4, <1>11, <2>1, <2>3, <2>4, <2>5, <2>6 DEF UploadInv
    <2> QED
        BY <1>7, <2>2, <2>7 DEF AttachInv
<1> QED
    BY <1>10, <1>11

\* What the upload under way has so far.
LEMMA UnderWay ==
    ASSUME AttachInv, upload # None
    PROVE  /\ sending # None /\ sending.files # <<>> /\ Tail(sending.files) \in Seq(Files) /\ Coming(sending.atts)
           /\ Current \in 1..Len(uploads) /\ Len(uploads) \in Nat /\ Over = 1..(Len(uploads) - 1)
           /\ Chunks[uploads[Current]] \in Seq(Nat \ {0}) /\ Chunks[uploads[Current]] # <<>>
           /\ upload \in [via : {"blobs", "content"}, refs : Seq(Ref)]
           /\ Len(upload.refs) \in Nat /\ Len(upload.refs) <= Len(Chunks[uploads[Current]])
           /\ \A i \in DOMAIN upload.refs : upload.refs[i].chunk = <<Current, i>>
           /\ Stored(upload.via, upload.refs)
           /\ AllTickets(upload.refs) <=> Len(upload.refs) = Len(Chunks[uploads[Current]])
<1>1. uploads \in Seq(Files) /\ sending # None /\ Current \in 1..Len(uploads)
    BY DEF AttachInv, UploadInv, SenderInv
<1>2. Chunks[uploads[Current]] \in Seq(Nat \ {0})
    BY <1>1, AttachConstants DEF AttachConstants
<1>3. Len(ChunksOf(Current)) = Len(Chunks[uploads[Current]])
    BY <1>2 DEF ChunksOf
<1>4. upload \in [via : {"blobs", "content"}, refs : Seq(Ref)]
    BY DEF AttachInv, UploadInv
<1>5. Len(upload.refs) \in Nat
    BY <1>4
<1>6. sending.files \in Seq(Files) /\ sending.files # <<>>
    BY <1>1 DEF AttachInv, UploadInv, SenderInv
<1>7. Tail(sending.files) \in Seq(Files)
    BY <1>6
<1> QED
    BY <1>1, <1>2, <1>3, <1>4, <1>5, <1>7 DEF AttachInv, UploadInv, SenderInv, AllTickets, Over

\* The chunk that is added is the next one of the upload under way.
LEMMA ChunkAdded ==
    ASSUME AttachInv, upload # None, ~AllTickets(upload.refs), NEW where \in Int \cup {None},
           upload' = [upload EXCEPT !.refs = Append(@, [chunk |-> NextChunk, node |-> where])],
           UNCHANGED <<pending, sending, uploads, node, respawns, conv, deleted, deletion, doomed, inbox, cache, fetches>>,
           pins \subseteq pins', blobs \subseteq blobs',
           upload.via = "content" => NextChunk \in pins',
           upload.via = "blobs" => NextChunk \in blobs' /\ (respawns = 0 => where = 1)
    PROVE  AttachInv'
<1> DEFINE r == [chunk |-> NextChunk, node |-> where]
           old == upload.refs
           m == Len(old)
           L == Len(Chunks[uploads[Current]])
<1>1. /\ sending # None /\ sending.files # <<>> /\ Current \in 1..Len(uploads) /\ Len(uploads) \in Nat
      /\ Over = 1..(Len(uploads) - 1)
      /\ Chunks[uploads[Current]] \in Seq(Nat \ {0}) /\ Chunks[uploads[Current]] # <<>>
      /\ upload \in [via : {"blobs", "content"}, refs : Seq(Ref)]
      /\ m \in Nat /\ L \in Nat /\ m <= L /\ m # L
      /\ \A i \in DOMAIN old : old[i].chunk = <<Current, i>>
      /\ Stored(upload.via, old)
    BY UnderWay
<1>2. r \in Ref /\ r.chunk = <<Current, m + 1>> /\ r.node = where
    BY <1>1 DEF Ref, Chunk, NextChunk
<1>3. upload' = [upload EXCEPT !.refs = Append(old, r)]
    OBVIOUS
<1> HIDE DEF r
<1>4. upload'.via = upload.via /\ upload'.refs = Append(old, r)
      /\ upload' \in [via : {"blobs", "content"}, refs : Seq(Ref)]
    <2>1. Append(old, r) \in Seq(Ref)
        BY <1>1, <1>2
    <2> DEFINE x == Append(old, r)
    <2> HIDE DEF x
    <2>2. x \in Seq(Ref) /\ upload' = [upload EXCEPT !.refs = x]
        BY <2>1, <1>3 DEF x
    <2>3. upload'.via = upload.via /\ upload'.refs = x
          /\ upload' \in [via : {"blobs", "content"}, refs : Seq(Ref)]
        BY <2>2, <1>1
    <2> QED
        BY <2>3 DEF x
<1>5. /\ old \in Seq(Ref) /\ Len(Append(old, r)) = m + 1 /\ DOMAIN Append(old, r) = 1..(m + 1)
      /\ DOMAIN old = 1..m
      /\ \A i \in 1..m : Append(old, r)[i] = old[i]
      /\ Append(old, r)[m + 1] = r
    BY <1>1, <1>2
<1>6. Current' = Current
    BY DEF Current
<1> DEFINE new == Append(old, r)
<1>a. \A i \in 1..(m + 1) : (new[i] = r /\ i = m + 1) \/ (i \in DOMAIN old /\ new[i] = old[i])
    BY <1>1, <1>5
<1> HIDE DEF new, m
<1>b. upload'.refs = new /\ DOMAIN new = 1..(m + 1)
    BY <1>4, <1>5 DEF new
<1>7. \A i \in DOMAIN upload'.refs : upload'.refs[i].chunk = <<Current', i>>
    <2>1. \A i \in DOMAIN old : old[i].chunk = <<Current, i>>
        BY <1>1
    <2>2. \A i \in 1..(m + 1) : new[i].chunk = <<Current, i>>
        BY <1>2, <1>a, <2>1
    <2> QED
        BY <1>b, <1>6, <2>2
<1>8. Stored(upload.via, upload.refs)'
    <2>1. upload.via = "content" => \A i \in 1..(m + 1) : new[i].chunk \in pins'
        BY <1>1, <1>2, <1>a DEF Stored, NextChunk, m
    <2>2. upload.via = "blobs" => \A i \in 1..(m + 1) :
            new[i].chunk \in blobs' /\ (respawns = 0 => new[i].node = 1)
        BY <1>1, <1>2, <1>a DEF Stored, NextChunk, m
    <2> QED
        BY <1>4, <1>b, <2>1, <2>2 DEF Stored
<1>9. Grown /\ Over \subseteq Over'
    BY <1>1 DEF Grown, Over, AttachInv, SenderInv
<1>10. ConvInv' /\ CacheInv' /\ FetchInv'
    BY <1>9, Kept
<1>11. SenderInv'
    BY <1>9, ComingStays DEF AttachInv, SenderInv
<1>12. UploadInv'
    <2>1. Len(upload'.refs) <= L
        BY <1>1, <1>4, <1>5 DEF m
    <2> QED
        BY <1>1, <1>4, <1>6, <1>7, <1>8, <2>1 DEF UploadInv
<1> QED
    BY <1>10, <1>11, <1>12 DEF AttachInv

LEMMA AddKeeps ==
    ASSUME AttachInv, add_bytes
    PROVE  AttachInv'
<1>1. PICK where : where = node
    OBVIOUS
<1>2. where \in Int \cup {None} /\ (respawns = 0 => where = 1)
    BY <1>1 DEF add_bytes, AttachInv, SenderInv
<1> QED
    BY <1>1, <1>2, ChunkAdded DEF add_bytes, convs, reader

LEMMA PublishKeeps ==
    ASSUME AttachInv, publish_bytes
    PROVE  AttachInv'
<1>1. pins \subseteq pins' /\ NextChunk \in pins'
    BY DEF publish_bytes, Pinned
<1> QED
    BY <1>1, ChunkAdded DEF publish_bytes, convs, reader

\* An upload starts over at the content provider, with nothing.
LEMMA BlobsFailKeeps ==
    ASSUME AttachInv, try_upload_blobs_fails
    PROVE  AttachInv'
<1>1. /\ upload # None /\ upload' = [via |-> "content", refs |-> <<>>]
      /\ UNCHANGED <<pending, sending, uploads, node, blobs, pins, respawns, conv, deleted, deletion, doomed, inbox, cache, fetches>>
    BY DEF try_upload_blobs_fails, stores, convs, reader
<1>2. Grown /\ Over \subseteq Over' /\ Current' = Current
    BY <1>1, UnderWay DEF Grown, Over, AttachInv, SenderInv, Current
<1>3. ConvInv' /\ CacheInv' /\ FetchInv'
    BY <1>1, <1>2, Kept
<1>4. SenderInv'
    BY <1>1, <1>2, ComingStays DEF AttachInv, SenderInv
<1>5. upload'.via = "content" /\ upload'.refs = <<>> /\ upload' \in [via : {"blobs", "content"}, refs : Seq(Ref)]
    BY <1>1
<1>6. UploadInv'
    BY <1>1, <1>2, <1>5, UnderWay DEF UploadInv, Stored
<1> QED
    BY <1>3, <1>4, <1>6 DEF AttachInv

\* The upload under way is over: the file has its reference, or none.
LEMMA UploadEnds ==
    ASSUME AttachInv, upload # None, upload' = None, NEW atts, Coming(atts)', NextFile(atts),
           UNCHANGED <<pending, uploads, node, blobs, pins, respawns, conv, deleted, deletion, doomed, inbox, cache, fetches>>
    PROVE  AttachInv'
<1>1. /\ sending # None /\ Tail(sending.files) \in Seq(Files) /\ Coming(sending.atts)
      /\ Len(uploads) \in Nat /\ Over = 1..(Len(uploads) - 1) /\ Over' = 1..Len(uploads)
    BY UnderWay DEF Over
<1>2. Grown /\ Over \subseteq Over'
    BY <1>1 DEF Grown, AttachInv, SenderInv
<1>3. ConvInv' /\ CacheInv' /\ FetchInv'
    BY <1>2, Kept
<1>4. PICK before : before = sending.atts
    OBVIOUS
<1>5. Coming(before)'
    BY <1>1, <1>2, <1>4, ComingStays DEF AttachInv, SenderInv
<1>6. Coming(before \o atts)'
    BY <1>5, ComingMore
<1>7. sending'.atts = before \o atts /\ sending'.files = Tail(sending.files)
    BY <1>4 DEF NextFile
<1>8. Coming(sending.atts)'
    BY <1>6, <1>7 DEF Coming
<1>9. SenderInv'
    BY <1>1, <1>7, <1>8 DEF AttachInv, SenderInv
<1>10. UploadInv'
    BY DEF UploadInv
<1> QED
    BY <1>3, <1>9, <1>10 DEF AttachInv

\* The content provider failed: the file is skipped.
LEMMA PublishFailsKeeps ==
    ASSUME AttachInv, publish_bytes_fails
    PROVE  AttachInv'
<1>1. Coming(<<>>)'
    BY DEF Coming, ToSet
<1> QED
    BY <1>1, UploadEnds DEF publish_bytes_fails, convs, reader

\* All chunks are up: the references are those of the whole file, in order.
LEMMA UploadedKeeps ==
    ASSUME AttachInv, Uploaded
    PROVE  AttachInv'
<1>1. /\ upload # None /\ upload' = None /\ AllTickets(upload.refs)
      /\ NextFile(<<Attached(Current, upload.via, upload.refs)>>)
      /\ UNCHANGED <<pending, uploads, node, blobs, pins, respawns, conv, deleted, deletion, doomed, inbox, cache, fetches>>
    BY DEF Uploaded, stores, convs, reader
<1>2. PICK a : a = Attached(Current, upload.via, upload.refs)
    OBVIOUS
<1>3. /\ Current \in 1..Len(uploads) /\ Len(uploads) \in Nat /\ Over = 1..(Len(uploads) - 1)
      /\ Chunks[uploads[Current]] \in Seq(Nat \ {0}) /\ Chunks[uploads[Current]] # <<>>
      /\ upload.via \in {"blobs", "content"} /\ upload.refs \in Seq(Ref)
      /\ Len(upload.refs) = Len(Chunks[uploads[Current]])
      /\ \A i \in DOMAIN upload.refs : upload.refs[i].chunk = <<Current, i>>
      /\ Stored(upload.via, upload.refs)
    BY <1>1, UnderWay
<1>4. a.up = Current /\ a.via = upload.via /\ a.refs = upload.refs /\ a \in Attachment
    BY <1>2, <1>3 DEF Attached, Attachment
<1>5. DOMAIN a.refs = DOMAIN Chunks[uploads[Current]] /\ a.refs # <<>>
    BY <1>3, <1>4
<1>6. Complete(a)'
    <2>1. [i \in DOMAIN a.refs |-> a.refs[i].chunk] = ChunksOf(a.up)
        BY <1>3, <1>4, <1>5 DEF ChunksOf
    <2> QED
        BY <1>1, <1>3, <1>4, <1>5, <2>1 DEF Complete, ChunksOf
<1>7. a.up \in Over' /\ Stored(a.via, a.refs)'
    BY <1>1, <1>3, <1>4 DEF Over, Stored, Current
<1>8. \A b \in conv \cup deleted : b.up # a.up
    BY <1>3, <1>4 DEF AttachInv, ConvInv, Current
<1>9. Coming(<<a>>)'
    BY <1>1, <1>4, <1>6, <1>7, <1>8 DEF Coming, ToSet
<1> QED
    BY <1>1, <1>2, <1>9, UploadEnds

\* The message goes out with what made it.
LEMMA SentKeeps ==
    ASSUME AttachInv, Sent
    PROVE  AttachInv'
<1>1. /\ sending # None /\ upload = None /\ sending' = None
      /\ UNCHANGED <<pending, uploads, upload, node, blobs, pins, respawns, deleted, deletion, doomed, cache, fetches>>
    BY DEF Sent, stores, reader
<1>2. PICK new : new = ToSet(sending.atts)
    OBVIOUS
<1>3. conv' = conv \cup new /\ inbox' = inbox \cup new
    BY <1>2 DEF Sent
<1>4. \A a \in new : /\ Complete(a) /\ a.up \in Over /\ Stored(a.via, a.refs)
                     /\ \A b \in conv \cup deleted : b.up # a.up
    BY <1>1, <1>2 DEF AttachInv, SenderInv, Coming
<1>5. Over' = Over /\ Grown
    BY <1>1 DEF Over, Grown, AttachInv, SenderInv
<1>6. \A a : Complete(a) => Complete(a)'
    BY <1>5, UploadsGrow DEF AttachInv, SenderInv
<1>7. \A via, refs : Stored(via, refs) => Stored(via, refs)'
    BY <1>1, StoredStays
<1>8. SenderInv' /\ UploadInv'
    BY <1>1 DEF AttachInv, SenderInv, UploadInv
<1>9. ConvInv'
  <2>1. /\ conv \cup deleted \subseteq inbox /\ \A a \in inbox : Complete(a) /\ a.up \in Over
        /\ \A a \in conv \ doomed : Stored(a.via, a.refs)
        /\ \A a \in conv \cup deleted : a.via = "blobs" => Stored(a.via, a.refs)
        /\ doomed \subseteq conv \cup deleted /\ (deletion # None => deletion \subseteq doomed)
        /\ \A a \in doomed, b \in conv \ doomed : a.up # b.up
      BY DEF AttachInv, ConvInv
  <2>2. \A a \in inbox' : Complete(a)' /\ a.up \in Over'
      BY <1>3, <1>4, <1>5, <1>6, <2>1
  <2>3. \A a \in conv' \ doomed' : Stored(a.via, a.refs)'
      BY <1>1, <1>3, <1>4, <1>7, <2>1
  <2>4. \A a \in conv' \cup deleted' : a.via = "blobs" => Stored(a.via, a.refs)'
      BY <1>1, <1>3, <1>4, <1>7, <2>1
  <2>5. \A a \in doomed', b \in conv' \ doomed' : a.up # b.up
      BY <1>1, <1>3, <1>4, <2>1
  <2>6. /\ conv' \cup deleted' \subseteq inbox' /\ doomed' \subseteq conv' \cup deleted'
        /\ (deletion' # None => deletion' \subseteq doomed')
      BY <1>1, <1>3, <2>1
  <2> QED
      BY <2>2, <2>3, <2>4, <2>5, <2>6 DEF ConvInv
<1>10. CacheInv' /\ FetchInv'
    BY <1>1, <1>3, <1>5, CacheStays, FetchesStay DEF AttachInv, SenderInv
<1> QED
    BY <1>8, <1>9, <1>10 DEF AttachInv

\* A deletion begins, and later takes the log with it.
LEMMA DeleteKeeps ==
    ASSUME AttachInv, delete_conversation \/ remove_log
    PROVE  AttachInv'
<1>1. UNCHANGED <<pending, sending, uploads, upload, node, blobs, pins, respawns, inbox, cache, fetches>>
    BY DEF delete_conversation, remove_log, sender, stores, reader
<1>2. \/ conv' = conv /\ deleted' = deleted /\ deletion' = conv /\ doomed' = doomed \cup conv
      \/ conv' = {} /\ deleted' = deleted \cup conv /\ deletion' = None /\ doomed' = doomed
    BY DEF delete_conversation, remove_log
<1>3. Over' = Over /\ Current' = Current /\ Grown
    BY <1>1 DEF Over, Current, Grown, AttachInv, SenderInv
<1>4. \A a : Complete(a) => Complete(a)'
    BY <1>3, UploadsGrow DEF AttachInv, SenderInv
<1>5. \A via, refs : Stored(via, refs) => Stored(via, refs)'
    BY <1>1, StoredStays
<1>6. conv' \cup deleted' = conv \cup deleted
    BY <1>2
<1>7. \A atts : Coming(atts) => Coming(atts)'
    BY <1>3, <1>4, <1>5, <1>6 DEF Coming
<1>8. SenderInv'
    BY <1>1, <1>7 DEF AttachInv, SenderInv
<1>9. UploadInv'
    BY <1>1, <1>3, <1>5 DEF AttachInv, UploadInv, Stored
<1>10. ConvInv'
  <2>1. conv \cup deleted \subseteq inbox /\ doomed \subseteq conv \cup deleted
      BY DEF AttachInv, ConvInv
  <2>2. \A a \in inbox' : Complete(a)' /\ a.up \in Over'
      BY <1>1, <1>3, <1>4 DEF AttachInv, ConvInv
  <2>3. \A a \in conv' \cup deleted' : a.via = "blobs" => Stored(a.via, a.refs)'
      BY <1>5, <1>6 DEF AttachInv, ConvInv
  <2>4. conv' \ doomed' = {}
      BY <1>2
  <2>5. doomed' \subseteq conv' \cup deleted' /\ (deletion' # None => deletion' \subseteq doomed')
      BY <1>2, <2>1
  <2> QED
      BY <1>1, <1>6, <2>1, <2>2, <2>3, <2>4, <2>5 DEF ConvInv
<1>11. CacheInv' /\ FetchInv'
    BY <1>1, <1>3, CacheStays, FetchesStay DEF AttachInv, SenderInv
<1> QED
    BY <1>8, <1>9, <1>10, <1>11 DEF AttachInv

\* What is unpinned belongs to the conversation that is deleted, not to the
\* send under way nor to a message that came since.
LEMMA UnpinKeeps ==
    ASSUME AttachInv, NEW d \in doomed, unpin(d)
    PROVE  AttachInv'
<1>1. /\ deletion # None /\ deletion' = deletion \ {d} /\ (pins' = pins \ Cid(d) \/ pins' = pins)
      /\ UNCHANGED <<pending, sending, uploads, upload, node, blobs, respawns, conv, deleted, doomed, inbox,
                     cache, fetches>>
    BY DEF unpin, sender, reader
<1>2. Over' = Over /\ Current' = Current /\ Grown
    BY <1>1 DEF Over, Current, Grown, AttachInv, SenderInv
<1>3. \A a : Complete(a) => Complete(a)'
    BY <1>2, UploadsGrow DEF AttachInv, SenderInv
<1>4. d \in conv \cup deleted /\ Complete(d)
    BY DEF AttachInv, ConvInv
<1>5. ASSUME NEW c \in pins \ pins'
      PROVE  c = <<d.up, 1>>
    <2>1. d.via = "content" /\ c = d.refs[1].chunk
        BY <1>1 DEF Cid
    <2>2. d.refs # <<>> /\ d.refs \in Seq(Ref)
        BY <1>4, <2>1 DEF Complete, Attachment
    <2>3. 1 \in DOMAIN d.refs
        BY <2>2
    <2> QED
        BY <1>4, <2>1, <2>3, CompleteRefs
<1>6. \A via, refs, n :
        (Stored(via, refs) /\ (\A i \in DOMAIN refs : refs[i].chunk = <<n, i>>) /\ d.up # n)
        => Stored(via, refs)'
    <2> SUFFICES ASSUME NEW via, NEW refs, NEW n, Stored(via, refs),
                        \A i \in DOMAIN refs : refs[i].chunk = <<n, i>>,
                        d.up # n
                 PROVE  Stored(via, refs)'
        OBVIOUS
    <2>1. via = "content" => \A i \in DOMAIN refs : refs[i].chunk \in pins'
        BY <1>5 DEF Stored
    <2>2. via = "blobs" => \A i \in DOMAIN refs : refs[i].chunk \in blobs' /\ (respawns' = 0 => refs[i].node = 1)
        BY <1>1 DEF Stored
    <2> QED
        BY <2>1, <2>2 DEF Stored
<1>7. \A atts : Coming(atts) => Coming(atts)'
    <2> SUFFICES ASSUME NEW atts, Coming(atts) PROVE Coming(atts)'
        OBVIOUS
    <2>1. ASSUME NEW a \in ToSet(atts)
          PROVE  Complete(a)' /\ a.up \in Over' /\ Stored(a.via, a.refs)' /\ \A b \in conv' \cup deleted' : b.up # a.up
        <3>1. Complete(a) /\ a.up \in Over /\ Stored(a.via, a.refs) /\ \A b \in conv \cup deleted : b.up # a.up
            BY DEF Coming
        <3>2. \A i \in DOMAIN a.refs : a.refs[i].chunk = <<a.up, i>>
            BY <3>1, CompleteRefs
        <3>3. Stored(a.via, a.refs)'
            BY <1>4, <1>6, <3>1, <3>2
        <3> QED
            BY <1>1, <1>2, <1>3, <3>1, <3>3
    <2> QED
        BY <2>1 DEF Coming
<1>8. SenderInv'
    BY <1>1, <1>7 DEF AttachInv, SenderInv
<1>9. UploadInv'
    <2> SUFFICES ASSUME upload # None PROVE UploadInv'
        BY <1>1 DEF UploadInv
    <2>1. PICK via : via = upload.via
        OBVIOUS
    <2>2. PICK refs : refs = upload.refs
        OBVIOUS
    <2>3. PICK n : n = Current
        OBVIOUS
    <2>4. /\ Stored(via, refs) /\ \A i \in DOMAIN refs : refs[i].chunk = <<n, i>>
          /\ Len(uploads) \in Nat /\ Over = 1..(Len(uploads) - 1) /\ n = Len(uploads)
        BY <2>1, <2>2, <2>3, UnderWay DEF Current
    <2>5. d.up # n
        BY <1>4, <2>4 DEF AttachInv, ConvInv
    <2>6. Stored(via, refs)'
        BY <1>6, <2>4, <2>5
    <2>7. Stored(upload.via, upload.refs)'
        BY <1>1, <2>1, <2>2, <2>6 DEF Stored
    <2> QED
        BY <1>1, <1>2, <2>7 DEF AttachInv, UploadInv
<1>10. \A via, refs : via = "blobs" /\ Stored(via, refs) => Stored(via, refs)'
    BY <1>1 DEF Stored
<1>11. ConvInv'
    <2>1. ASSUME NEW a \in conv \ doomed
          PROVE  Stored(a.via, a.refs)'
        <3>1. Complete(a) /\ Stored(a.via, a.refs) /\ d.up # a.up
            BY DEF AttachInv, ConvInv
        <3>2. \A i \in DOMAIN a.refs : a.refs[i].chunk = <<a.up, i>>
            BY <3>1, CompleteRefs
        <3> QED
            BY <1>6, <3>1, <3>2
    <2>2. \A a \in conv' \cup deleted' : a.via = "blobs" => Stored(a.via, a.refs)'
        BY <1>1, <1>10 DEF AttachInv, ConvInv
    <2>3. deletion' \subseteq doomed'
        BY <1>1 DEF AttachInv, ConvInv
    <2>4. /\ \A a \in inbox' : Complete(a)' /\ a.up \in Over'
          /\ conv' \cup deleted' \subseteq inbox' /\ doomed' \subseteq conv' \cup deleted'
          /\ \A a \in doomed', b \in conv' \ doomed' : a.up # b.up
        BY <1>1, <1>2, <1>3 DEF AttachInv, ConvInv
    <2>5. \A a \in conv' \ doomed' : Stored(a.via, a.refs)'
        BY <1>1, <2>1
    <2> QED
        BY <2>2, <2>3, <2>4, <2>5 DEF ConvInv
<1>12. CacheInv' /\ FetchInv'
    BY <1>1, <1>2, CacheStays, FetchesStay DEF AttachInv, SenderInv
<1> QED
    BY <1>8, <1>9, <1>11, <1>12 DEF AttachInv

\* The sender's page goes: what it had uploaded and unpinned stays as it is.
LEMMA ReloadKeeps ==
    ASSUME AttachInv, PageReload
    PROVE  AttachInv'
<1>1. /\ pending' = <<>> /\ sending' = None /\ upload' = None /\ deletion' = None
      /\ UNCHANGED <<uploads, node, blobs, pins, respawns, conv, deleted, doomed, inbox, cache, fetches>>
    BY DEF PageReload, stores, reader
<1>2. uploads \in Seq(Files) /\ Len(uploads) \in Nat
    BY DEF AttachInv, SenderInv
<1>3. Over \subseteq Over' /\ Grown
    BY <1>1, <1>2 DEF Over, Grown
<1>4. \A a : Complete(a) => Complete(a)'
    BY <1>2, <1>3, UploadsGrow
<1>5. \A via, refs : Stored(via, refs) => Stored(via, refs)'
    BY <1>1, StoredStays
<1>6. SenderInv' /\ UploadInv'
    BY <1>1 DEF AttachInv, SenderInv, UploadInv
<1>7. ConvInv'
    BY <1>1, <1>3, <1>4, <1>5 DEF AttachInv, ConvInv
<1>8. CacheInv' /\ FetchInv'
    BY <1>1, <1>2, <1>3, CacheStays, FetchesStay DEF AttachInv
<1> QED
    BY <1>6, <1>7, <1>8 DEF AttachInv

\* The provider goes down and comes back, the store reaps; or nothing happens.
LEMMA ProvidersKeep ==
    ASSUME AttachInv, UNCHANGED <<sender, convs, reader>>,
           BlobsDown \/ spawn \/ (\E c \in blocks : Reap(c)) \/ UNCHANGED attachVars
    PROVE  AttachInv'
<1>1. UNCHANGED <<pending, sending, uploads, upload, blobs, pins, conv, deleted, deletion, doomed, inbox, cache, fetches>>
    BY DEF sender, convs, reader, BlobsDown, spawn, Reap, attachVars
<1>2. respawns \in Nat /\ node \in Int \cup {None} /\ (respawns = 0 => node \in {1, None})
    BY DEF AttachInv, SenderInv
<1>3. /\ respawns' \in Nat /\ node' \in Int \cup {None}
      /\ (respawns' = 0 => node' \in {1, None}) /\ (respawns' = 0 => respawns = 0)
    BY <1>2 DEF BlobsDown, spawn, Reap, attachVars
<1>4. Over' = Over /\ Current' = Current /\ Grown
    BY <1>1 DEF Over, Current, Grown, AttachInv, SenderInv
<1>5. ConvInv' /\ CacheInv' /\ FetchInv'
    BY <1>1, <1>3, <1>4, Kept
<1>6. \A atts : Coming(atts) => Coming(atts)'
    BY <1>1, <1>3, <1>4, ComingStays DEF AttachInv, SenderInv
<1>7. SenderInv'
    BY <1>1, <1>3, <1>6 DEF AttachInv, SenderInv
<1>8. UploadInv'
    <2> SUFFICES ASSUME upload # None PROVE UploadInv'
        BY <1>1 DEF UploadInv
    <2>1. PICK via : via = upload.via
        OBVIOUS
    <2>2. PICK refs : refs = upload.refs
        OBVIOUS
    <2>3. Stored(via, refs)'
        BY <1>1, <1>3, <2>1, <2>2, StoredStays DEF AttachInv, UploadInv
    <2>4. Stored(upload.via, upload.refs)'
        BY <1>1, <2>1, <2>2, <2>3 DEF Stored
    <2> QED
        BY <1>1, <1>4, <2>4 DEF AttachInv, UploadInv
<1> QED
    BY <1>5, <1>7, <1>8 DEF AttachInv

-----------------------------------------------------------------------------
(* The attachments, whatever happens.                                      *)

LEMMA AttachStarts ==
    ASSUME AttachInit
    PROVE  AttachInv
<1>1. Coming(<<>>) /\ Total(<<>>) = 0
    <2>1. <<>> \in Seq(Nat) /\ Len(<<>>) = 0
        OBVIOUS
    <2>2. SumOf(<<>>) = 0
        BY <2>1, SumsSoFar
    <2>3. [i \in DOMAIN <<>> |-> SizeOf(<<>>[i])] = <<>>
        OBVIOUS
    <2> QED
        BY <2>2, <2>3 DEF Coming, ToSet, Total
<1>2. SenderInv /\ UploadInv /\ ConvInv /\ FetchInv
    BY <1>1 DEF AttachInit, SenderInv, UploadInv, ConvInv, FetchInv
<1>3. cache.order = <<>> /\ cache.total = 0
    BY DEF AttachInit
<1>4. MaxEntries \in Nat /\ MaxBytes \in Nat
    BY AttachConstants DEF AttachConstants
<1>5. CacheInv
    BY <1>1, <1>3, <1>4 DEF CacheInv, CacheSound, IsInjective
<1> QED
    BY <1>2, <1>5 DEF AttachInv

LEMMA AttachStep ==
    ASSUME AttachInv, [AttachNext]_attachVars
    PROVE  AttachInv'
<1>1. CASE send \/ (\E f \in Files : on_file(f)) \/ (\E i \in Ups : Unpick(i))
    BY <1>1, ComposerKeeps DEF send, on_file, Unpick
<1>2. CASE upload_attachment
    BY <1>2, UploadBegins
<1>3. CASE add_bytes \/ publish_bytes
    BY <1>3, AddKeeps, PublishKeeps
<1>4. CASE try_upload_blobs_fails \/ publish_bytes_fails
    BY <1>4, BlobsFailKeeps, PublishFailsKeeps
<1>5. CASE Uploaded \/ Sent
    BY <1>5, UploadedKeeps, SentKeeps
<1>6. CASE delete_conversation \/ remove_log \/ PageReload \/ \E a \in doomed : unpin(a)
    BY <1>6, DeleteKeeps, UnpinKeeps, ReloadKeeps
<1>7. CASE BlobsDown \/ spawn \/ (\E c \in blocks : Reap(c)) \/ UNCHANGED attachVars
    <2>1. UNCHANGED <<sender, convs, reader>>
        BY <1>7 DEF BlobsDown, spawn, Reap, attachVars, sender, convs, reader
    <2> QED
        BY <1>7, <2>1, ProvidersKeep
<1>8. CASE \/ \E n \in Ups : do_fetch(n)
           \/ \E k \in Tries : Timeout(k) \/ fetch_bytes(k) \/ get_bytes(k) \/ FetchFails(k) \/ Decrypted(k)
    <2>1. UNCHANGED <<sender, stores, convs>>
        BY <1>8 DEF do_fetch, Timeout, fetch_bytes, get_bytes, FetchFails, Decrypted
    <2> QED
        BY <1>8, <2>1, ReaderKeeps
<1> QED
    BY <1>1, <1>2, <1>3, <1>4, <1>5, <1>6, <1>7, <1>8 DEF AttachNext

\* The inductive invariant of the attachments: an upload's references name the
\* chunks of its file in order and where they are, no two messages share an
\* upload, and the cache's books are right.
THEOREM AttachInvariant == AttachSpec => []AttachInv
<1>1. AttachInit => AttachInv
    BY AttachStarts
<1>2. AttachInv /\ [AttachNext]_attachVars => AttachInv'
    BY AttachStep
<1> QED
    BY <1>1, <1>2, PTL DEF AttachSpec

\* What a message refers to is the whole file at one store, and stays there
\* until the deletion of its conversation begins: upload_attachment's all or
\* nothing, and the pins that delete_conversation alone takes away.
THEOREM AttachReachable == AttachSpec => []Reachable
<1>1. ASSUME AttachInv PROVE Reachable
    <2> SUFFICES ASSUME NEW a \in conv \cup deleted, a.via # "inline"
                 PROVE  /\ [i \in DOMAIN a.refs |-> a.refs[i].chunk] = ChunksOf(a.up)
                        /\ a \in conv \ doomed /\ a.via = "content" => ToSet(ChunksOf(a.up)) \subseteq pins
                        /\ a.via = "blobs" =>
                             \A i \in DOMAIN a.refs : /\ a.refs[i].chunk \in blobs
                                                      /\ respawns = 0 => a.refs[i].node = 1
        BY DEF Reachable
    <2>1. Complete(a)
        BY <1>1 DEF AttachInv, ConvInv
    <2>2. [i \in DOMAIN a.refs |-> a.refs[i].chunk] = ChunksOf(a.up)
        BY <2>1 DEF Complete
    <2>3. a \in conv \ doomed /\ a.via = "content" => \A i \in DOMAIN a.refs : a.refs[i].chunk \in pins
        BY <1>1 DEF AttachInv, ConvInv, Stored
    <2>4. ToSet(ChunksOf(a.up)) = {a.refs[i].chunk : i \in DOMAIN a.refs}
        BY <2>2 DEF ToSet, ChunksOf
    <2>5. a.via = "blobs" => Stored(a.via, a.refs)
        BY <1>1 DEF AttachInv, ConvInv
    <2> QED
        BY <2>2, <2>3, <2>4, <2>5 DEF Stored
<1> QED
    BY <1>1, AttachInvariant, PTL

\* CidCache keeps its bounds and its books, whatever is fetched when.
THEOREM AttachCacheSound == AttachSpec => []CacheSound
<1>1. AttachInv => CacheSound
    BY DEF AttachInv, CacheInv
<1> QED
    BY <1>1, AttachInvariant, PTL
=============================================================================
