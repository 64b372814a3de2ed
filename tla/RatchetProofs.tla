--------------------------- MODULE RatchetProofs ---------------------------
(***************************************************************************)
(* Theorems of Ratchet, for any number of messages, turns, crashes and     *)
(* failing calls and any bound on the stash.  Some hold when sends and     *)
(* receives of one peer do not overlap, and say so; the others always.     *)
(*                                                                         *)
(* A message key is a chain and an index.  That none seals two messages    *)
(* takes three arguments: the two peers never send on one chain (the       *)
(* number of inputs in a root key is odd for the accepter's and even for   *)
(* the inviter's); one peer never comes back to a chain it left (a turn    *)
(* mixes in a key pair drawn for it); and on one chain the index on disk   *)
(* is past every one that was used, the one of a message on its way to     *)
(* the network included.                                                   *)
(*                                                                         *)
(* That the peers stay in step, the last and longest part, is shown with   *)
(* the history of their turns, which no state holds: see there.            *)
(***************************************************************************)
EXTENDS Ratchet, ListsProofs, SequenceTheorems

Fields == {"rk", "cks", "ckr", "dhs", "dhr", "ns", "nr", "pn", "skipped",
           "kem", "peerKem", "sendCt", "lost"}

\* The inputs in the root keys of p's sending chains: odd or even in number.
Parity(p) == IF p = Accepter THEN 1 ELSE 0

\* A root key p sends under, when p drew f key pairs: the last turn mixed in
\* one of these, and an ML-KEM secret unless it is the very first.
Sending(p, rk, f) ==
    /\ rk \in Seq(Inputs) /\ rk # <<>>
    /\ Len(rk) % 2 = Parity(p)
    /\ \E a \in 0..f, b \in Nat : rk[Len(rk)].dh = {<<p, a>>, <<Other(p), b>>}
    /\ Len(rk) > 1 => rk[Len(rk)].kem \in KeyPairs

\* The key pairs of the last turn.
Ends(rk, k, dh) == rk[Len(rk)].dh = {k, dh}

\* A state of p.
Sound(p, st, f) ==
    /\ DOMAIN st = Fields
    /\ Sending(p, st.rk, f)
    /\ st.cks = [root |-> st.rk, i |-> st.cks.i] /\ st.cks.i \in Nat
    /\ st.dhs \in {p} \X Nat
    /\ st.kem \in KeyPairs
    /\ st.peerKem \in KeyPairs \cup {None}
    /\ st.sendCt \in Ciphertexts \cup {None}

\* A wire to p.
Wire(p, m, f) ==
    /\ m.id \in KeyPairs
    /\ m.rh.dh \in {Other(p)} \X Nat
    /\ m.rh.kem_pub \in KeyPairs
    /\ m.rh.kem_ct \in Ciphertexts \cup {None}
    /\ m.mk = [root |-> m.mk.root, i |-> m.mk.i] /\ m.mk.i \in Nat
    /\ Sending(Other(p), m.mk.root, f)

\* A send of p under way, st being the state on disk.
SendSound(p, st, f, task) ==
    task # None =>
        /\ task = [stage |-> task.stage, st |-> task.st]
        /\ task.stage \in {"read", "persisted"}
        /\ Sound(p, task.st, f)
        /\ task.stage = "read" => task.st = st
        /\ task.stage = "persisted" =>
             st.cks = [root |-> task.st.cks.root, i |-> task.st.cks.i + 1]

\* A receive of p under way, wires being the network: the chain of the state
\* it will write is the one on disk, or one nothing was sent on.
RecvSound(p, st, f, rtask, wires) ==
    rtask # None =>
        /\ rtask = [stage |-> rtask.stage, m |-> rtask.m, st |-> rtask.st]
        /\ rtask.stage \in {"opened", "stored"}
        /\ rtask.m.id \in KeyPairs
        /\ Sound(p, rtask.st, f)
        /\ \/ rtask.st.cks = st.cks
           \/ \A m \in wires : m.to = Other(p) => m.mk.root # rtask.st.cks.root

\* The index the next wire of p may have.
Index(st, task) == IF task # None /\ task.stage = "persisted" THEN task.st.cks.i ELSE st.cks.i

\* What p sent on the chain root it sent below index i.
Below(p, root, i, wires) ==
    \A m \in wires : m.to = Other(p) /\ m.mk.root = root => m.mk.i \in 0..i - 1

PeerInv(p, st, f, task, rtask, wires) ==
    /\ Sound(p, st, f)
    /\ SendSound(p, st, f, task)
    /\ RecvSound(p, st, f, rtask, wires)
    /\ task = None \/ rtask = None
    /\ Below(p, st.cks.root, Index(st, task), wires)

WiresInv == \A m \in net : m.to \in Peers /\ Wire(m.to, m, fresh[Other(m.to)])

KeysInv ==
    /\ ratchet = [p \in Peers |-> ratchet[p]]
    /\ sendTask = [p \in Peers |-> sendTask[p]] /\ recvTask = [p \in Peers |-> recvTask[p]]
    /\ fresh \in [Peers -> Nat] /\ sent \in [Peers -> Nat]
    /\ \A p \in Peers : PeerInv(p, ratchet[p], fresh[p], sendTask[p], recvTask[p], net)
    /\ WiresInv
    /\ NoKeyReuse

-----------------------------------------------------------------------------
(* The ratchet's steps on a state.                                         *)

LEMMA PeersDiffer ==
    /\ Inviter # Accepter
    /\ \A p \in Peers : Other(p) \in Peers /\ Other(p) # p /\ Other(Other(p)) = p
    /\ \A p, q \in Peers : p = q \/ p = Other(q)
    BY RatchetConstants DEF Peers, Other

\* The fields of the state t that follows a turn of st.
TurnOf(st, dh, ss, k, t) ==
    /\ DOMAIN t = Fields
    /\ t.rk = KdfRk(KdfRk(st.rk, {st.dhs, dh}, ss), {k, dh}, IF st.peerKem # None THEN k ELSE None)
    /\ t.cks = Chain(t.rk)
    /\ t.dhs = k
    /\ t.kem = IF st.peerKem # None THEN k ELSE st.kem
    /\ t.peerKem = st.peerKem
    /\ t.sendCt = IF st.peerKem # None THEN [to |-> st.peerKem, ss |-> k] ELSE None

LEMMA DhRatchetFields ==
    ASSUME NEW st, DOMAIN st = Fields, NEW dh, NEW ss, NEW k
    PROVE  TurnOf(st, dh, ss, k, DhRatchet(st, dh, ss, k))
<1> DEFINE t == DhRatchet(st, dh, ss, k)
<1>1. DOMAIN t = Fields
    BY Zenon DEF DhRatchet
<1>2. t.rk = KdfRk(KdfRk(st.rk, {st.dhs, dh}, ss), {k, dh}, IF st.peerKem # None THEN k ELSE None)
    BY Zenon DEF DhRatchet, Fields
<1>3. t.cks = Chain(t.rk)
    BY Zenon DEF DhRatchet, Fields
<1>4. t.dhs = k
    BY Zenon DEF DhRatchet, Fields
<1>5. t.kem = IF st.peerKem # None THEN k ELSE st.kem
    BY Zenon DEF DhRatchet, Fields
<1>6. t.peerKem = st.peerKem
    BY Zenon DEF DhRatchet, Fields
<1>7. t.sendCt = IF st.peerKem # None THEN [to |-> st.peerKem, ss |-> k] ELSE None
    BY Zenon DEF DhRatchet, Fields
<1> QED
    BY <1>1, <1>2, <1>3, <1>4, <1>5, <1>6, <1>7, Zenon DEF TurnOf

\* Stashing keys leaves everything a send uses alone.
LEMMA SkipFields ==
    ASSUME NEW st, DOMAIN st = Fields, NEW n, NEW t, t = SkipMessageKeys(st, n)
    PROVE  /\ DOMAIN t = Fields /\ t.rk = st.rk /\ t.cks = st.cks /\ t.dhs = st.dhs
           /\ t.kem = st.kem /\ t.peerKem = st.peerKem /\ t.sendCt = st.sendCt
<1>1. DOMAIN t = Fields
    BY Zenon DEF SkipMessageKeys
<1>2. t.rk = st.rk
    BY Zenon DEF SkipMessageKeys, Fields
<1>3. t.cks = st.cks
    BY Zenon DEF SkipMessageKeys, Fields
<1>4. t.dhs = st.dhs
    BY Zenon DEF SkipMessageKeys, Fields
<1>5. t.kem = st.kem
    BY Zenon DEF SkipMessageKeys, Fields
<1>6. t.peerKem = st.peerKem
    BY Zenon DEF SkipMessageKeys, Fields
<1>7. t.sendCt = st.sendCt
    BY Zenon DEF SkipMessageKeys, Fields
<1> QED
    BY <1>1, <1>2, <1>3, <1>4, <1>5, <1>6, <1>7


\* The fields a send uses, after a receive: the ones before it, or those of a
\* turn on the header's key.
SameSending(st, t) ==
    /\ t.rk = st.rk /\ t.cks = st.cks /\ t.dhs = st.dhs
    /\ t.kem = st.kem /\ t.peerKem = st.peerKem /\ t.sendCt = st.sendCt

Turned(st, h, k, t) ==
    LET pk == IF h.kem_pub # None THEN h.kem_pub ELSE st.peerKem
        ss == IF h.kem_ct # None THEN Decapsulate(st.kem, h.kem_ct) ELSE None
    IN  /\ t.rk = KdfRk(KdfRk(st.rk, {st.dhs, h.dh}, ss), {k, h.dh}, IF pk # None THEN k ELSE None)
        /\ t.cks = Chain(t.rk)
        /\ t.dhs = k
        /\ t.kem = IF pk # None THEN k ELSE st.kem
        /\ t.peerKem = pk
        /\ t.sendCt = IF pk # None THEN [to |-> pk, ss |-> k] ELSE None

LEMMA StepRecvFields ==
    ASSUME NEW st, DOMAIN st = Fields, NEW h, NEW k, NEW r, r = StepRecv(st, h, k), r.ok
    PROVE  /\ DOMAIN r.st = Fields
           /\ (~r.turned /\ SameSending(st, r.st)) \/ (r.turned /\ Turned(st, h, k, r.st))
<1> DEFINE stashed  == {j \in 1..Len(st.skipped) :
                          st.skipped[j].dh = h.dh /\ st.skipped[j].n = h.n}
           newEpoch == st.dhr # h.dh
           oldSkip  == IF newEpoch /\ h.pn > st.nr THEN h.pn - st.nr ELSE 0
           newStart == IF newEpoch THEN 0 ELSE st.nr
           newSkip  == IF h.n > newStart THEN h.n - newStart ELSE 0
           kemSs    == IF h.kem_ct # None THEN Decapsulate(st.kem, h.kem_ct) ELSE None
           adopted  == [st EXCEPT !.peerKem = IF h.kem_pub # None THEN h.kem_pub ELSE @]
           closed   == SkipMessageKeys(adopted, h.pn)
           turned   == IF newEpoch THEN DhRatchet(closed, h.dh, kemSs, k) ELSE st
           skipped  == SkipMessageKeys(turned, h.n)
           first    == CHOOSE x \in stashed : \A y \in stashed : x <= y
           fromStash == [ok |-> TRUE, mk |-> st.skipped[first].mk, turned |-> FALSE,
                         st |-> [st EXCEPT !.skipped = RemoveAt(@, first)]]
           fromChain == [ok |-> TRUE, mk |-> skipped.ckr, turned |-> newEpoch,
                         st |-> [skipped EXCEPT !.ckr = NextKey(@), !.nr = @ + 1]]
<1>1. r = IF stashed # {} THEN fromStash
          ELSE IF oldSkip + newSkip > MAX_SKIP THEN Failed("max skip")
          ELSE IF newEpoch /\ h.kem_ct = None /\ st.peerKem # None THEN Failed("downgrade")
          ELSE IF skipped.ckr = None THEN Failed("no receiving chain")
          ELSE fromChain
    BY Zenon DEF StepRecv
<1>2. /\ DOMAIN adopted = Fields /\ adopted.rk = st.rk /\ adopted.dhs = st.dhs /\ adopted.kem = st.kem
      /\ adopted.peerKem = IF h.kem_pub # None THEN h.kem_pub ELSE st.peerKem
    BY Zenon DEF Fields
<1>3. CASE r = fromStash
    <2>1. r.st = [st EXCEPT !.skipped = RemoveAt(@, first)] /\ ~r.turned
        BY <1>3
    <2> HIDE DEF first, stashed
    <2>2. DOMAIN r.st = Fields
        BY <2>1, Zenon
    <2>3. r.st.rk = st.rk
        BY <2>1, Zenon DEF Fields
    <2>4. r.st.cks = st.cks
        BY <2>1, Zenon DEF Fields
    <2>5. r.st.dhs = st.dhs
        BY <2>1, Zenon DEF Fields
    <2>6. r.st.kem = st.kem
        BY <2>1, Zenon DEF Fields
    <2>7. r.st.peerKem = st.peerKem
        BY <2>1, Zenon DEF Fields
    <2>8. r.st.sendCt = st.sendCt
        BY <2>1, Zenon DEF Fields
    <2> QED
        BY <2>1, <2>2, <2>3, <2>4, <2>5, <2>6, <2>7, <2>8 DEF SameSending
<1>4. CASE r = fromChain
    <2>1. r.st = [skipped EXCEPT !.ckr = NextKey(@), !.nr = @ + 1] /\ r.turned = newEpoch
        BY <1>4
    <2>2. DOMAIN closed = Fields
        BY <1>2, SkipFields
    <2>3. /\ closed.rk = st.rk /\ closed.dhs = st.dhs /\ closed.kem = st.kem
          /\ closed.peerKem = IF h.kem_pub # None THEN h.kem_pub ELSE st.peerKem
        <3> HIDE DEF adopted
        <3>1. SameSending(adopted, closed)
            BY <1>2, SkipFields DEF SameSending
        <3> HIDE DEF closed
        <3> QED
            BY <1>2, <3>1 DEF SameSending
    <2> HIDE DEF closed, kemSs
    <2>4. newEpoch => DOMAIN turned = Fields /\ Turned(st, h, k, turned)
        <3> SUFFICES ASSUME newEpoch PROVE DOMAIN turned = Fields /\ Turned(st, h, k, turned)
            OBVIOUS
        <3>1. turned = DhRatchet(closed, h.dh, kemSs, k)
            OBVIOUS
        <3> HIDE DEF turned
        <3>2. TurnOf(closed, h.dh, kemSs, k, turned)
            BY <2>2, <3>1, DhRatchetFields
        <3> QED
            BY <2>3, <3>2, Zenon DEF TurnOf, Turned, kemSs
    <2>5. ~newEpoch => turned = st
        OBVIOUS
    <2>6. DOMAIN turned = Fields
        BY <2>4, <2>5
    <2> HIDE DEF turned, newEpoch
    <2>7. DOMAIN skipped = Fields /\ SameSending(turned, skipped)
        BY <2>6, SkipFields DEF SameSending
    <2> HIDE DEF skipped
    <2>8. DOMAIN r.st = Fields
        BY <2>1, <2>7, Zenon
    <2>9. r.st.rk = skipped.rk
        BY <2>1, <2>7 DEF Fields
    <2>10. r.st.cks = skipped.cks
        BY <2>1, <2>7 DEF Fields
    <2>11. r.st.dhs = skipped.dhs
        BY <2>1, <2>7 DEF Fields
    <2>12. r.st.kem = skipped.kem
        BY <2>1, <2>7, Zenon DEF Fields
    <2>13. r.st.peerKem = skipped.peerKem
        BY <2>1, <2>7, Zenon DEF Fields
    <2>14. r.st.sendCt = skipped.sendCt
        BY <2>1, <2>7, Zenon DEF Fields
    <2>15. SameSending(turned, r.st)
        BY <2>7, <2>9, <2>10, <2>11, <2>12, <2>13, <2>14 DEF SameSending
    <2>16. newEpoch => Turned(st, h, k, r.st)
        BY <2>4, <2>15, Zenon DEF SameSending, Turned
    <2>17. ~newEpoch => SameSending(st, r.st)
        BY <2>5, <2>15
    <2> QED
        BY <2>1, <2>8, <2>16, <2>17
<1>5. \A w : Failed(w).ok = FALSE
    BY DEF Failed
<1> QED
    BY <1>1, <1>3, <1>4, <1>5

\* A state stays sound as more key pairs are drawn.
LEMMA SendingGrows ==
    ASSUME NEW p, NEW rk, NEW f \in Nat, NEW g \in Nat, f <= g, Sending(p, rk, f)
    PROVE  Sending(p, rk, g)
<1>1. 0..f \subseteq 0..g
    OBVIOUS
<1> QED
    BY <1>1, Zenon DEF Sending

LEMMA SoundGrows ==
    ASSUME NEW p, NEW st, NEW f \in Nat, NEW g \in Nat, f <= g, Sound(p, st, f)
    PROVE  Sound(p, st, g)
    BY SendingGrows DEF Sound

LEMMA SameSendingSound ==
    ASSUME NEW p, NEW st, NEW f, Sound(p, st, f), NEW t, DOMAIN t = Fields, SameSending(st, t)
    PROVE  Sound(p, t, f)
    BY DEF Sound, SameSending

\* A send moves one index up its chain.
LEMMA StepSendSound ==
    ASSUME NEW p, NEW st, NEW f, Sound(p, st, f)
    PROVE  /\ Sound(p, StepSend(st), f)
           /\ StepSend(st).cks = [root |-> st.cks.root, i |-> st.cks.i + 1]
<1> DEFINE t == StepSend(st)
<1>1. DOMAIN st = Fields /\ st.cks = [root |-> st.rk, i |-> st.cks.i] /\ st.cks.i \in Nat
    BY DEF Sound
<1>2. DOMAIN t = Fields
    BY <1>1, Zenon DEF StepSend
<1>3. t.cks = NextKey(st.cks)
    BY <1>1, Zenon DEF StepSend, Fields
<1>4. NextKey(st.cks) = [root |-> st.rk, i |-> st.cks.i + 1]
    BY <1>1 DEF NextKey
<1>5. t.rk = st.rk
    BY <1>1, Zenon DEF StepSend, Fields
<1>6. t.dhs = st.dhs
    BY <1>1, Zenon DEF StepSend, Fields
<1>7. t.kem = st.kem
    BY <1>1, Zenon DEF StepSend, Fields
<1>8. t.peerKem = st.peerKem
    BY <1>1, Zenon DEF StepSend, Fields
<1>9. t.sendCt = st.sendCt
    BY <1>1, Zenon DEF StepSend, Fields
<1> HIDE DEF t
<1>10. Sound(p, t, f) /\ t.cks = [root |-> st.cks.root, i |-> st.cks.i + 1]
    BY <1>1, <1>2, <1>3, <1>4, <1>5, <1>6, <1>7, <1>8, <1>9 DEF Sound
<1> QED
    BY <1>10 DEF t

LEMMA AppendTwo ==
    ASSUME NEW S, NEW s \in Seq(S), NEW x \in S, NEW y \in S, NEW t, t = Append(Append(s, x), y)
    PROVE  t \in Seq(S) /\ Len(t) = Len(s) + 2 /\ t[Len(t)] = y /\ t # <<>>
<1> DEFINE u == Append(s, x)
<1>1. u \in Seq(S) /\ Len(u) = Len(s) + 1
    OBVIOUS
<1> HIDE DEF u
<1>2. t = Append(u, y)
    BY DEF u
<1>3. Append(u, y) \in Seq(S)
    BY <1>1
<1>4. Len(Append(u, y)) = Len(u) + 1
    BY <1>1
<1>5. Append(u, y)[Len(u) + 1] = y
    BY <1>1
<1> QED
    BY <1>1, <1>2, <1>3, <1>4, <1>5

\* Two more inputs: the parity stays, the last one has the key pair drawn.
LEMMA TurnSending ==
    ASSUME NEW p \in Peers, NEW rk, NEW f \in Nat, Sending(p, rk, f),
           NEW own \in {p} \X Nat, NEW dh \in {Other(p)} \X Nat, NEW ss \in Secrets,
           NEW k, k = <<p, f + 1>>,
           NEW rk2, rk2 = KdfRk(KdfRk(rk, {own, dh}, ss), {k, dh}, k)
    PROVE  Sending(p, rk2, f + 1) /\ Ends(rk2, k, dh)
<1> DEFINE x == [dh |-> {own, dh}, kem |-> ss]
           y == [dh |-> {k, dh}, kem |-> k]
<1>1. Other(p) \in Peers
    BY PeersDiffer
<1>2. x \in Inputs /\ y \in Inputs
    BY <1>1 DEF Inputs, KeyPairs, Secrets
<1>3. rk \in Seq(Inputs) /\ Len(rk) % 2 = Parity(p) /\ Len(rk) \in Nat
    BY DEF Sending
<1>4. rk2 = Append(Append(rk, x), y)
    BY DEF KdfRk
<1>5. y.dh = {k, dh} /\ y.kem \in KeyPairs
    BY DEF KeyPairs
<1> HIDE DEF x, y
<1>6. rk2 \in Seq(Inputs) /\ Len(rk2) = Len(rk) + 2 /\ rk2[Len(rk2)] = y /\ rk2 # <<>>
    <2>1. rk \in Seq(Inputs) /\ x \in Inputs /\ y \in Inputs
        BY <1>2, <1>3
    <2>2. rk2 \in Seq(Inputs)
        <3>1. Append(Append(rk, x), y) \in Seq(Inputs)
            BY <2>1
        <3> QED
            BY <1>4, <3>1
    <2>3. Len(rk2) = Len(rk) + 2
        BY <1>4, <2>1, AppendTwo
    <2>4. rk2[Len(rk2)] = y
        <3>1. Append(Append(rk, x), y)[Len(Append(Append(rk, x), y))] = y
            BY <2>1, AppendTwo
        <3> QED
            BY <1>4, <3>1
    <2>5. rk2 # <<>>
        BY <1>4, <2>1, AppendTwo
    <2> QED
        BY <2>2, <2>3, <2>4, <2>5
<1>7. Len(rk2) % 2 = Parity(p)
    <2>1. \A n \in Nat : (n + 2) % 2 = n % 2
        OBVIOUS
    <2> QED
        BY <1>3, <1>6, <2>1
<1>8. \E a \in 0..(f + 1), b \in Nat : y.dh = {<<p, a>>, <<Other(p), b>>}
    <2>1. f + 1 \in 0..(f + 1) /\ y.dh = {<<p, f + 1>>, dh}
        BY <1>5
    <2>2. PICK b \in Nat : dh = <<Other(p), b>>
        OBVIOUS
    <2> QED
        BY <2>1, <2>2, Zenon
<1> QED
    BY <1>5, <1>6, <1>7, <1>8, Zenon DEF Sending, Ends

\* A chain that starts with a key pair just drawn was never sent on.
LEMMA NewChain ==
    ASSUME NEW p \in Peers, NEW f \in Nat, NEW rk, Sending(p, rk, f),
           NEW b \in Nat, NEW rk2, Ends(rk2, <<p, f + 1>>, <<Other(p), b>>)
    PROVE  rk # rk2
<1>1. SUFFICES ASSUME rk = rk2 PROVE FALSE
    OBVIOUS
<1>2. PICK a \in 0..f, c \in Nat : rk[Len(rk)].dh = {<<p, a>>, <<Other(p), c>>}
    BY DEF Sending
<1>3. <<p, f + 1>> \in {<<p, a>>, <<Other(p), c>>}
    BY <1>1, <1>2 DEF Ends
<1> QED
    BY <1>3, PeersDiffer

\* Who sends on a chain shows in the number of its inputs.
LEMMA ChainsDiffer ==
    ASSUME NEW p \in Peers, NEW f, NEW g, NEW rk, NEW rk2,
           Sending(p, rk, f), Sending(Other(p), rk2, g)
    PROVE  rk # rk2
    BY PeersDiffer DEF Sending, Parity, Other, Peers

\* A receive that opens: the chain p sends on is the one before, or a new one.
LEMMA StepRecvSound ==
    ASSUME NEW p \in Peers, NEW st, NEW f \in Nat, Sound(p, st, f), NEW m, NEW g, Wire(p, m, g),
           NEW r, r = StepRecv(st, m.rh, <<p, f + 1>>), r.ok
    PROVE  \/ ~r.turned /\ Sound(p, r.st, f) /\ r.st.cks = st.cks
           \/ /\ r.turned /\ Sound(p, r.st, f + 1)
              /\ \E b \in Nat : Ends(r.st.rk, <<p, f + 1>>, <<Other(p), b>>)
<1> DEFINE h == m.rh
           k == <<p, f + 1>>
           t == r.st
<1>1. DOMAIN st = Fields
    BY DEF Sound
<1>2. /\ DOMAIN t = Fields
      /\ (~r.turned /\ SameSending(st, t)) \/ (r.turned /\ Turned(st, h, k, t))
    BY <1>1, StepRecvFields
<1>3. CASE ~r.turned /\ SameSending(st, t)
    BY <1>2, <1>3, SameSendingSound DEF SameSending
<1>4. CASE r.turned /\ Turned(st, h, k, t)
    <2> DEFINE ss == IF h.kem_ct # None THEN Decapsulate(st.kem, h.kem_ct) ELSE None
               pk == h.kem_pub
    <2>1. PICK b \in Nat : h.dh = <<Other(p), b>>
        BY DEF Wire
    <2>2. pk \in KeyPairs /\ pk # None /\ h.kem_ct \in Ciphertexts \cup {None}
        BY RatchetConstants DEF Wire
    <2>3. st.dhs \in {p} \X Nat /\ st.kem \in KeyPairs /\ Sending(p, st.rk, f)
        BY DEF Sound
    <2>4. ss \in Secrets
        BY <2>2, <2>3 DEF Decapsulate, Secrets, Ciphertexts
    <2>5. k \in KeyPairs /\ k \in {p} \X Nat
        BY DEF KeyPairs
    <2> HIDE DEF k
    <2>6. /\ t.rk = KdfRk(KdfRk(st.rk, {st.dhs, h.dh}, ss), {k, h.dh}, k)
          /\ t.cks = Chain(t.rk) /\ t.dhs = k /\ t.kem = k /\ t.peerKem = pk
          /\ t.sendCt = [to |-> pk, ss |-> k]
        BY <1>4, <2>2 DEF Turned
    <2> HIDE DEF h, ss, pk, t
    <2>7. Sending(p, t.rk, f + 1) /\ Ends(t.rk, k, h.dh)
        <3> DEFINE own == st.dhs
                   dh == h.dh
                   rk == st.rk
                   rk2 == t.rk
        <3>1. own \in {p} \X Nat /\ dh \in {Other(p)} \X Nat /\ Sending(p, rk, f)
            BY <2>1, <2>3
        <3>2. rk2 = KdfRk(KdfRk(rk, {own, dh}, ss), {k, dh}, k)
            BY <2>6
        <3>3. k = <<p, f + 1>>
            BY DEF k
        <3> HIDE DEF own, dh, rk, rk2
        <3>4. Sending(p, rk2, f + 1)
            BY <2>4, <3>1, <3>2, <3>3, TurnSending
        <3>5. Ends(rk2, k, dh)
            BY <2>4, <3>1, <3>2, <3>3, TurnSending
        <3> QED
            BY <3>4, <3>5 DEF dh, rk2
    <2>8. t.cks = [root |-> t.rk, i |-> t.cks.i] /\ t.cks.i \in Nat
        BY <2>6 DEF Chain
    <2>9. t.sendCt \in Ciphertexts
        BY <2>2, <2>5, <2>6 DEF Ciphertexts
    <2>10. Sound(p, t, f + 1)
        BY <1>2, <2>2, <2>5, <2>6, <2>7, <2>8, <2>9 DEF Sound
    <2> QED
        BY <1>4, <2>1, <2>7, <2>10 DEF t, k
<1> QED
    BY <1>2, <1>3, <1>4

-----------------------------------------------------------------------------
(* KeysInv holds initially.                                                *)

LEMMA InitKeys == Init => KeysInv
<1> SUFFICES ASSUME Init PROVE KeysInv
    OBVIOUS
<1> DEFINE a0 == <<Accepter, 1>>
           i0 == <<Inviter, 0>>
           i1 == <<Inviter, 1>>
           E == [EmptyState EXCEPT !.dhs = i0, !.kem = i0, !.peerKem = a0]
<1>1. /\ Accepter \in Peers /\ Inviter \in Peers /\ Inviter # Accepter
      /\ Other(Inviter) = Accepter /\ Other(Accepter) = Inviter
      /\ a0 \in KeyPairs /\ i0 \in KeyPairs /\ i1 \in KeyPairs
      /\ a0 \in {Accepter} \X Nat /\ i0 \in {Inviter} \X Nat /\ i1 \in {Inviter} \X Nat
    BY PeersDiffer DEF Peers, Other, KeyPairs
<1>2. a0 # None
    BY <1>1, RatchetConstants
<1>3. None \in Secrets /\ i1 \in Secrets
    BY <1>1 DEF Secrets
<1>4. /\ fresh \in [Peers -> Nat] /\ sent \in [Peers -> Nat]
      /\ \A p \in Peers : fresh[p] = 1 /\ sendTask[p] = None /\ recvTask[p] = None
      /\ net = {}
      /\ ratchet = [p \in Peers |-> ratchet[p]]
      /\ sendTask = [p \in Peers |-> sendTask[p]] /\ recvTask = [p \in Peers |-> recvTask[p]]
      /\ ratchet[Accepter] = InitInitiator(a0, i0)
      /\ ratchet[Inviter] = InitResponder(i0, a0, a0, i1)
    BY <1>1 DEF Init
<1>5. Sound(Accepter, InitInitiator(a0, i0), 1)
    <2> DEFINE st == InitInitiator(a0, i0)
               x == [dh |-> {a0, i0}, kem |-> None]
    <2>1. DOMAIN EmptyState = Fields
        BY Zenon DEF EmptyState, Fields
    <2>2. DOMAIN st = Fields
        BY <2>1, Zenon DEF InitInitiator
    <2>3. st.rk = Append(<<>>, x)
        BY <2>1, Zenon DEF InitInitiator, KdfRk, RootInit, Fields
    <2>4. st.cks = Chain(st.rk)
        BY <2>1, Zenon DEF InitInitiator, Fields
    <2>5. st.dhs = a0
        BY <2>1, Zenon DEF InitInitiator, Fields
    <2>6. st.kem = a0
        BY <2>1, Zenon DEF InitInitiator, Fields
    <2>7. st.peerKem = EmptyState.peerKem
        BY <2>1, Zenon DEF InitInitiator, Fields
    <2>8. st.sendCt = EmptyState.sendCt
        BY <2>1, Zenon DEF InitInitiator, Fields
    <2>9. EmptyState.peerKem = None /\ EmptyState.sendCt = None
        BY DEF EmptyState
    <2>10. x \in Inputs
        BY <1>1, <1>3 DEF Inputs
    <2> HIDE DEF st, x
    <2>11. st.rk \in Seq(Inputs) /\ Len(st.rk) = 1 /\ st.rk # <<>> /\ st.rk[1] = x
        BY <2>3, <2>10
    <2>12. \E a \in 0..1, b \in Nat : x.dh = {<<Accepter, a>>, <<Inviter, b>>}
        <3>1. x.dh = {<<Accepter, 1>>, <<Inviter, 0>>} /\ 1 \in 0..1 /\ 0 \in Nat
            BY DEF x
        <3> QED
            BY <3>1, Zenon
    <2>13. Len(st.rk) % 2 = Parity(Accepter)
        BY <2>11 DEF Parity
    <2>14. st.rk[Len(st.rk)] = x /\ ~(Len(st.rk) > 1)
        BY <2>11
    <2>15. Sending(Accepter, st.rk, 1)
        BY <1>1, <2>11, <2>12, <2>13, <2>14, Zenon DEF Sending
    <2>16. st.cks = [root |-> st.rk, i |-> st.cks.i] /\ st.cks.i \in Nat
        BY <2>4 DEF Chain
    <2>17. Sound(Accepter, st, 1)
        BY <1>1, <2>2, <2>5, <2>6, <2>7, <2>8, <2>9, <2>15, <2>16 DEF Sound
    <2> QED
        BY <2>17 DEF st
<1>6. Sound(Inviter, InitResponder(i0, a0, a0, i1), 1)
    <2> DEFINE st == InitResponder(i0, a0, a0, i1)
               x == [dh |-> {i0, a0}, kem |-> None]
               y == [dh |-> {i1, a0}, kem |-> i1]
    <2>1. DOMAIN EmptyState = Fields
        BY Zenon DEF EmptyState, Fields
    <2>2. DOMAIN E = Fields
        BY <2>1, Zenon
    <2>3. E.rk = EmptyState.rk
        BY <2>1, Zenon DEF Fields
    <2>4. E.dhs = i0
        BY <2>1, Zenon DEF Fields
    <2>5. E.peerKem = a0
        BY <2>1, Zenon DEF Fields
    <2>6. EmptyState.rk = <<>>
        BY DEF EmptyState, RootInit
    <2>7. st = DhRatchet(E, a0, None, i1)
        BY DEF InitResponder
    <2> HIDE DEF E, st
    <2>8. TurnOf(E, a0, None, i1, st)
        BY <2>2, <2>7, DhRatchetFields
    <2>9. /\ DOMAIN st = Fields
          /\ st.rk = KdfRk(KdfRk(<<>>, {i0, a0}, None), {i1, a0}, i1)
          /\ st.cks = Chain(st.rk) /\ st.dhs = i1 /\ st.kem = i1 /\ st.peerKem = a0
          /\ st.sendCt = [to |-> a0, ss |-> i1]
        BY <1>2, <2>3, <2>4, <2>5, <2>6, <2>8, Zenon DEF TurnOf
    <2>10. st.rk = Append(Append(<<>>, x), y)
        BY <2>9 DEF KdfRk
    <2>11. x \in Inputs /\ y \in Inputs
        BY <1>1, <1>3 DEF Inputs
    <2>12. y.dh = {<<Inviter, 1>>, <<Accepter, 1>>} /\ y.kem \in KeyPairs
        BY <1>1
    <2> HIDE DEF x, y
    <2>13. st.rk \in Seq(Inputs) /\ Len(st.rk) = 2 /\ st.rk # <<>> /\ st.rk[2] = y
        <3>1. <<>> \in Seq(Inputs) /\ Len(<<>>) = 0
            OBVIOUS
        <3> QED
            BY <2>10, <2>11, <3>1, AppendTwo
    <2>14. \E a \in 0..1, b \in Nat : y.dh = {<<Inviter, a>>, <<Accepter, b>>}
        <3>1. 1 \in 0..1 /\ 1 \in Nat
            OBVIOUS
        <3> QED
            BY <2>12, <3>1, Zenon
    <2>15. Len(st.rk) % 2 = Parity(Inviter) /\ st.rk[Len(st.rk)] = y
        BY <1>1, <2>13 DEF Parity
    <2>16. Sending(Inviter, st.rk, 1)
        BY <1>1, <2>12, <2>13, <2>14, <2>15 DEF Sending
    <2>17. st.cks = [root |-> st.rk, i |-> st.cks.i] /\ st.cks.i \in Nat
        BY <2>9 DEF Chain
    <2>18. st.sendCt \in Ciphertexts
        BY <1>1, <2>9 DEF Ciphertexts
    <2>19. Sound(Inviter, st, 1)
        BY <1>1, <2>9, <2>16, <2>17, <2>18 DEF Sound
    <2> QED
        BY <2>19 DEF st
<1> HIDE DEF a0, i0, i1, E
<1>7. \A p \in Peers : Sound(p, ratchet[p], fresh[p])
    BY <1>1, <1>4, <1>5, <1>6 DEF Peers
<1> QED
    BY <1>4, <1>7, Zenon DEF KeysInv, PeerInv, SendSound, RecvSound, Below, WiresInv, NoKeyReuse

-----------------------------------------------------------------------------
(* What the steps of a task of one peer do to its part of the invariant.   *)

LEMMA ReadPeer ==
    ASSUME NEW p, NEW st, NEW f, NEW N, PeerInv(p, st, f, None, None, N)
    PROVE  PeerInv(p, st, f, [stage |-> "read", st |-> st], None, N)
    BY DEF PeerInv, SendSound, RecvSound, Index

LEMMA PersistPeer ==
    ASSUME NEW p, NEW st, NEW f, NEW task, NEW rtask, NEW N, PeerInv(p, st, f, task, rtask, N),
           task # None, task.stage = "read"
    PROVE  PeerInv(p, StepSend(task.st), f, [task EXCEPT !.stage = "persisted"], rtask, N)
<1> DEFINE t == StepSend(st)
           new == [stage |-> "persisted", st |-> st]
<1>1. task = [stage |-> "read", st |-> st] /\ Sound(p, st, f) /\ rtask = None
    BY DEF PeerInv, SendSound
<1>2. [task EXCEPT !.stage = "persisted"] = new /\ task.st = st
    BY <1>1
<1>3. Sound(p, t, f) /\ t.cks = [root |-> st.cks.root, i |-> st.cks.i + 1]
    BY <1>1, StepSendSound
<1> HIDE DEF t
<1>4. SendSound(p, t, f, new)
    BY <1>1, <1>3 DEF SendSound
<1>5. Below(p, st.cks.root, st.cks.i, N)
    BY <1>1 DEF PeerInv, Index
<1>6. Index(t, new) = st.cks.i \/ Index(t, new) = st.cks.i + 1
    BY <1>3 DEF Index
<1>7. st.cks.i \in Nat /\ t.cks.root = st.cks.root
    BY <1>1, <1>3 DEF Sound
<1>8. Below(p, t.cks.root, Index(t, new), N)
    BY <1>5, <1>6, <1>7 DEF Below
<1>9. RecvSound(p, t, f, rtask, N)
    BY <1>1 DEF RecvSound
<1>10. PeerInv(p, t, f, new, rtask, N)
    BY <1>1, <1>3, <1>4, <1>8, <1>9 DEF PeerInv
<1> QED
    BY <1>2, <1>10 DEF t

\* An error or a crash: the index of a message that was not published is lost.
LEMMA DropPeer ==
    ASSUME NEW p, NEW st, NEW f, NEW task, NEW rtask, NEW N, PeerInv(p, st, f, task, rtask, N)
    PROVE  /\ PeerInv(p, st, f, None, rtask, N)
           /\ PeerInv(p, st, f, task, None, N)
           /\ PeerInv(p, st, f, None, None, N)
<1>1. Sound(p, st, f) /\ st.cks.i \in Nat
    BY DEF PeerInv, Sound
<1>2. Index(st, task) = st.cks.i \/ Index(st, task) + 1 = st.cks.i
    <2>1. CASE task # None /\ task.stage = "persisted"
        <3>1. task.st.cks.i \in Nat /\ st.cks.i = task.st.cks.i + 1
            BY <2>1 DEF PeerInv, SendSound, Sound
        <3> QED
            BY <2>1, <3>1 DEF Index
    <2> QED
        BY <2>1 DEF Index
<1>3. Index(st, None) = st.cks.i
    BY DEF Index
<1>4. Below(p, st.cks.root, Index(st, None), N)
    <2>1. CASE Index(st, task) = st.cks.i
        BY <1>3, <2>1 DEF PeerInv
    <2>2. CASE Index(st, task) + 1 = st.cks.i
        <3> SUFFICES ASSUME NEW m \in N, m.to = Other(p) /\ m.mk.root = st.cks.root
                     PROVE  m.mk.i \in 0..st.cks.i - 1
            BY <1>3 DEF Below
        <3>1. task # None /\ task.stage = "persisted"
            BY <1>1, <2>2 DEF Index
        <3>2. task.st.cks.i \in Nat /\ Index(st, task) = task.st.cks.i
            BY <3>1 DEF PeerInv, SendSound, Sound, Index
        <3>3. m.mk.i \in 0..Index(st, task) - 1
            BY DEF PeerInv, Below
        <3> QED
            BY <1>1, <2>2, <3>2, <3>3
    <2> QED
        BY <1>2, <2>1, <2>2
<1>5. SendSound(p, st, f, None) /\ RecvSound(p, st, f, None, N)
    BY DEF SendSound, RecvSound
<1> QED
    BY <1>1, <1>4, <1>5 DEF PeerInv

\* The wire published has the index that was kept for it.
LEMMA PublishPeer ==
    ASSUME NEW p \in Peers, NEW st, NEW f, NEW task, NEW rtask, NEW N,
           PeerInv(p, st, f, task, rtask, N), task # None, task.stage = "persisted",
           NEW id \in KeyPairs,
           NEW w, w = Sealed(id, Other(p), HeaderOf(task.st), task.st.cks)
    PROVE  /\ PeerInv(p, st, f, None, rtask, N \cup {w})
           /\ w.to = Other(p) /\ Wire(Other(p), w, f)
           /\ \A m \in N : m.to = Other(p) => m.mk # w.mk
<1>1. /\ Sound(p, task.st, f) /\ rtask = None
      /\ st.cks = [root |-> task.st.cks.root, i |-> task.st.cks.i + 1]
    BY DEF PeerInv, SendSound
<1>2. /\ task.st.cks = [root |-> task.st.rk, i |-> task.st.cks.i] /\ task.st.cks.i \in Nat
      /\ task.st.dhs \in {p} \X Nat /\ task.st.kem \in KeyPairs /\ Sending(p, task.st.rk, f)
      /\ task.st.sendCt \in Ciphertexts \cup {None}
    BY <1>1 DEF Sound
<1>3. /\ w.id = id /\ w.to = Other(p) /\ w.mk = task.st.cks
      /\ w.rh.dh = task.st.dhs /\ w.rh.kem_pub = task.st.kem /\ w.rh.kem_ct = task.st.sendCt
    BY DEF Sealed, HeaderOf, RatchetHeader
<1>4. Other(Other(p)) = p
    BY PeersDiffer
<1>5. Wire(Other(p), w, f)
    BY <1>2, <1>3, <1>4 DEF Wire
<1>6. Index(st, task) = task.st.cks.i /\ Below(p, st.cks.root, task.st.cks.i, N)
    BY DEF PeerInv, Index
<1>7. \A m \in N : m.to = Other(p) => m.mk # w.mk
    BY <1>1, <1>2, <1>3, <1>6 DEF Below
<1>8. Below(p, st.cks.root, st.cks.i, N \cup {w})
    <2>1. \A m \in N : m.to = Other(p) /\ m.mk.root = st.cks.root => m.mk.i \in 0..st.cks.i - 1
        BY <1>1, <1>2, <1>6 DEF Below
    <2>2. w.mk.i \in 0..st.cks.i - 1
        BY <1>1, <1>2, <1>3
    <2> QED
        BY <2>1, <2>2 DEF Below
<1>9. PeerInv(p, st, f, None, rtask, N \cup {w})
    BY <1>1, <1>8 DEF PeerInv, SendSound, RecvSound, Index
<1> QED
    BY <1>3, <1>5, <1>7, <1>9

\* A wire the other peer publishes is none of p's.
LEMMA OtherPublishes ==
    ASSUME NEW p \in Peers, NEW st, NEW f, NEW task, NEW rtask, NEW N,
           PeerInv(p, st, f, task, rtask, N), NEW w, w.to = p
    PROVE  PeerInv(p, st, f, task, rtask, N \cup {w})
<1>1. w.to # Other(p)
    BY PeersDiffer
<1>2. Below(p, st.cks.root, Index(st, task), N \cup {w})
    BY <1>1 DEF PeerInv, Below
<1>3. RecvSound(p, st, f, rtask, N \cup {w})
    BY <1>1 DEF PeerInv, RecvSound
<1> QED
    BY <1>2, <1>3 DEF PeerInv

\* The clone a receive holds.
LEMMA AdvancePeer ==
    ASSUME NEW p \in Peers, NEW st, NEW f \in Nat, NEW N, PeerInv(p, st, f, None, None, N),
           \A w \in N : w.to = Other(p) => Sending(p, w.mk.root, f),
           NEW m, NEW g, Wire(p, m, g),
           NEW r, r = StepRecv(st, m.rh, <<p, f + 1>>), r.ok
    PROVE  PeerInv(p, st, IF r.turned THEN f + 1 ELSE f, None,
                   [stage |-> "opened", m |-> m, st |-> r.st], N)
<1> DEFINE new == [stage |-> "opened", m |-> m, st |-> r.st]
<1>1. Sound(p, st, f) /\ Below(p, st.cks.root, Index(st, None), N) /\ m.id \in KeyPairs
    BY DEF PeerInv, Wire
<1>2. \/ ~r.turned /\ Sound(p, r.st, f) /\ r.st.cks = st.cks
      \/ /\ r.turned /\ Sound(p, r.st, f + 1)
         /\ \E b \in Nat : Ends(r.st.rk, <<p, f + 1>>, <<Other(p), b>>)
    BY <1>1, StepRecvSound
<1>3. CASE ~r.turned /\ Sound(p, r.st, f) /\ r.st.cks = st.cks
    <2>1. RecvSound(p, st, f, new, N)
        BY <1>1, <1>3 DEF RecvSound
    <2>2. PeerInv(p, st, f, None, new, N)
        BY <1>1, <2>1 DEF PeerInv, SendSound
    <2> QED
        BY <1>3, <2>2
<1>4. CASE /\ r.turned /\ Sound(p, r.st, f + 1)
           /\ \E b \in Nat : Ends(r.st.rk, <<p, f + 1>>, <<Other(p), b>>)
    <2>1. r.st.cks.root = r.st.rk
        BY <1>4 DEF Sound
    <2>2. \A w \in N : w.to = Other(p) => w.mk.root # r.st.cks.root
        BY <1>4, <2>1, NewChain
    <2>3. RecvSound(p, st, f + 1, new, N)
        BY <1>1, <1>4, <2>2 DEF RecvSound
    <2>4. Sound(p, st, f + 1)
        BY <1>1, SoundGrows
    <2>5. PeerInv(p, st, f + 1, None, new, N)
        BY <1>1, <2>3, <2>4 DEF PeerInv, SendSound
    <2> QED
        BY <1>4, <2>5
<1> QED
    BY <1>2, <1>3, <1>4

LEMMA StorePeer ==
    ASSUME NEW p, NEW st, NEW f, NEW task, NEW rtask, NEW N, PeerInv(p, st, f, task, rtask, N),
           rtask # None
    PROVE  PeerInv(p, st, f, task, [rtask EXCEPT !.stage = "stored"], N)
<1>1. rtask = [stage |-> rtask.stage, m |-> rtask.m, st |-> rtask.st] /\ task = None
    BY DEF PeerInv, RecvSound
<1>2. [rtask EXCEPT !.stage = "stored"] = [stage |-> "stored", m |-> rtask.m, st |-> rtask.st]
    BY <1>1
<1>3. RecvSound(p, st, f, [stage |-> "stored", m |-> rtask.m, st |-> rtask.st], N)
    BY DEF PeerInv, RecvSound
<1> QED
    BY <1>1, <1>2, <1>3 DEF PeerInv

\* The state a receive writes: nothing was sent past it.
LEMMA CommitPeer ==
    ASSUME NEW p, NEW st, NEW f, NEW task, NEW rtask, NEW N, PeerInv(p, st, f, task, rtask, N),
           rtask # None
    PROVE  PeerInv(p, rtask.st, f, task, None, N)
<1> DEFINE t == rtask.st
<1>1. /\ task = None /\ Sound(p, t, f) /\ Below(p, st.cks.root, st.cks.i, N)
      /\ \/ t.cks = st.cks
         \/ \A m \in N : m.to = Other(p) => m.mk.root # t.cks.root
    BY DEF PeerInv, RecvSound, Index
<1> HIDE DEF t
<1>2. Below(p, t.cks.root, t.cks.i, N)
    BY <1>1 DEF Below
<1>3. PeerInv(p, t, f, None, None, N)
    BY <1>1, <1>2 DEF PeerInv, SendSound, RecvSound, Index
<1> QED
    BY <1>1, <1>3 DEF t

LEMMA SamePeer ==
    ASSUME NEW p, NEW st, NEW f, NEW N, PeerInv(p, st, f, None, None, N),
           NEW t, DOMAIN t = Fields, SameSending(st, t)
    PROVE  PeerInv(p, t, f, None, None, N)
<1>1. Sound(p, t, f) /\ t.cks = st.cks
    BY SameSendingSound DEF PeerInv, SameSending
<1> QED
    BY <1>1 DEF PeerInv, SendSound, RecvSound, Index

-----------------------------------------------------------------------------
(* KeysInv is inductive when sends and receives do not overlap.            *)

\* A step of p that publishes nothing and draws at most one key pair.
LEMMA PeerStep ==
    ASSUME KeysInv, NEW p \in Peers, net' = net,
           ratchet' = [ratchet EXCEPT ![p] = ratchet'[p]],
           sendTask' = [sendTask EXCEPT ![p] = sendTask'[p]],
           recvTask' = [recvTask EXCEPT ![p] = recvTask'[p]],
           fresh' = [fresh EXCEPT ![p] = fresh'[p]], fresh'[p] \in Nat, fresh[p] <= fresh'[p],
           sent' \in [Peers -> Nat],
           PeerInv(p, ratchet'[p], fresh'[p], sendTask'[p], recvTask'[p], net)
    PROVE  KeysInv'
<1>1. /\ ratchet = [q \in Peers |-> ratchet[q]] /\ fresh \in [Peers -> Nat]
      /\ sendTask = [q \in Peers |-> sendTask[q]] /\ recvTask = [q \in Peers |-> recvTask[q]]
    BY DEF KeysInv
<1>2. /\ ratchet' = [q \in Peers |-> ratchet'[q]] /\ fresh' \in [Peers -> Nat]
      /\ sendTask' = [q \in Peers |-> sendTask'[q]] /\ recvTask' = [q \in Peers |-> recvTask'[q]]
    BY <1>1
<1>3. \A q \in Peers \ {p} : /\ ratchet'[q] = ratchet[q] /\ sendTask'[q] = sendTask[q]
                             /\ recvTask'[q] = recvTask[q] /\ fresh'[q] = fresh[q]
    BY <1>1
<1>4. \A q \in Peers : PeerInv(q, ratchet'[q], fresh'[q], sendTask'[q], recvTask'[q], net')
    BY <1>3 DEF KeysInv
<1>5. \A q \in Peers : fresh[q] \in Nat /\ fresh'[q] \in Nat /\ fresh[q] <= fresh'[q]
    BY <1>1, <1>2, <1>3
<1>6. WiresInv'
    <2> SUFFICES ASSUME NEW m \in net
                 PROVE  m.to \in Peers /\ Wire(m.to, m, fresh'[Other(m.to)])
        BY DEF WiresInv
    <2>1. m.to \in Peers /\ Other(m.to) \in Peers /\ Wire(m.to, m, fresh[Other(m.to)])
        BY PeersDiffer DEF KeysInv, WiresInv
    <2> QED
        BY <1>5, <2>1, SendingGrows DEF Wire
<1>7. NoKeyReuse'
    BY DEF KeysInv, NoKeyReuse
<1> QED
    BY <1>2, <1>4, <1>6, <1>7 DEF KeysInv

LEMMA SendPublishesKeys ==
    ASSUME KeysInv, NEW p \in Peers, SendPublishes(p)
    PROVE  KeysInv'
<1> DEFINE w == Sealed(<<p, sent[p]>>, Other(p), HeaderOf(sendTask[p].st), sendTask[p].st.cks)
<1>1. /\ sendTask[p] # None /\ sendTask[p].stage = "persisted"
      /\ net' = net \cup {w} /\ sendTask' = [sendTask EXCEPT ![p] = None]
      /\ UNCHANGED <<ratchet, recvTask, fresh, sent>>
    BY DEF SendPublishes
<1>2. /\ PeerInv(p, ratchet[p], fresh[p], sendTask[p], recvTask[p], net)
      /\ <<p, sent[p]>> \in KeyPairs /\ sendTask = [q \in Peers |-> sendTask[q]]
    BY DEF KeysInv, KeyPairs
<1>3. /\ PeerInv(p, ratchet[p], fresh[p], None, recvTask[p], net')
      /\ w.to = Other(p) /\ Wire(Other(p), w, fresh[p])
      /\ \A m \in net : m.to = Other(p) => m.mk # w.mk
    <2> DEFINE id == <<p, sent[p]>>
               task == sendTask[p]
               st == ratchet[p]
               f == fresh[p]
               rtask == recvTask[p]
               N == net
    <2>1. w = Sealed(id, Other(p), HeaderOf(task.st), task.st.cks) /\ id \in KeyPairs
        BY <1>2
    <2>2. PeerInv(p, st, f, task, rtask, N) /\ task # None /\ task.stage = "persisted"
        BY <1>1, <1>2
    <2> HIDE DEF w, id, task, st, f, rtask, N
    <2>3. /\ PeerInv(p, st, f, None, rtask, N \cup {w})
          /\ w.to = Other(p) /\ Wire(Other(p), w, f)
          /\ \A m \in N : m.to = Other(p) => m.mk # w.mk
        BY <2>1, <2>2, PublishPeer
    <2> QED
        BY <1>1, <2>3 DEF st, f, rtask, N
<1> HIDE DEF w
<1>4. Other(p) \in Peers /\ Other(p) # p /\ Other(Other(p)) = p /\ \A q \in Peers : q = p \/ q = Other(p)
    BY PeersDiffer
<1>5. \A q \in Peers : PeerInv(q, ratchet'[q], fresh'[q], sendTask'[q], recvTask'[q], net')
    <2>1. PeerInv(p, ratchet'[p], fresh'[p], sendTask'[p], recvTask'[p], net')
        BY <1>1, <1>2, <1>3
    <2> DEFINE q == Other(p)
    <2>2. PeerInv(q, ratchet[q], fresh[q], sendTask[q], recvTask[q], net)
        BY <1>4 DEF KeysInv
    <2>3. PeerInv(q, ratchet[q], fresh[q], sendTask[q], recvTask[q], net \cup {w})
        BY <1>3, <1>4, <2>2, OtherPublishes
    <2>4. PeerInv(q, ratchet'[q], fresh'[q], sendTask'[q], recvTask'[q], net')
        BY <1>1, <1>2, <1>4, <2>3
    <2> QED
        BY <1>4, <2>1, <2>4
<1>6. WiresInv'
    BY <1>1, <1>3, <1>4 DEF KeysInv, WiresInv
<1>7. \A m \in net : m.mk # w.mk
    <2> SUFFICES ASSUME NEW m \in net, m.to = p PROVE m.mk # w.mk
        BY <1>3, <1>4 DEF KeysInv, WiresInv
    <2>1. Sending(Other(p), m.mk.root, fresh[Other(p)])
        BY DEF KeysInv, WiresInv, Wire
    <2>2. Sending(p, w.mk.root, fresh[p])
        BY <1>3, <1>4 DEF Wire
    <2> QED
        BY <2>1, <2>2, ChainsDiffer
<1>8. NoKeyReuse'
    BY <1>1, <1>7 DEF KeysInv, NoKeyReuse
<1> QED
    BY <1>1, <1>2, <1>5, <1>6, <1>8 DEF KeysInv

LEMMA RecvAdvancesKeys ==
    ASSUME KeysInv, ~Overlap, NEW p \in Peers, NEW m \in net, RecvAdvances(p, m)
    PROVE  KeysInv'
<1> DEFINE r == StepRecv(ratchet[p], m.rh, <<p, fresh[p] + 1>>)
           f == IF r.turned THEN fresh[p] + 1 ELSE fresh[p]
           new == [stage |-> "opened", m |-> m, st |-> r.st]
<1>1. /\ recvTask[p] = None /\ sendTask[p] = None /\ m.to = p /\ r.ok
      /\ recvTask' = [recvTask EXCEPT ![p] = new] /\ fresh' = [fresh EXCEPT ![p] = f]
      /\ UNCHANGED <<ratchet, sendTask, sent, net>>
    BY DEF RecvAdvances, MayStart, Clone, Opens
<1>2. /\ PeerInv(p, ratchet[p], fresh[p], None, None, net) /\ fresh \in [Peers -> Nat]
      /\ ratchet = [q \in Peers |-> ratchet[q]] /\ sent \in [Peers -> Nat]
      /\ sendTask = [q \in Peers |-> sendTask[q]] /\ recvTask = [q \in Peers |-> recvTask[q]]
    BY <1>1 DEF KeysInv
<1>3. \A w \in net : w.to = Other(p) => Sending(p, w.mk.root, fresh[p])
    BY PeersDiffer DEF KeysInv, WiresInv, Wire
<1>4. Wire(p, m, fresh[Other(p)])
    BY <1>1 DEF KeysInv, WiresInv
<1>5. PeerInv(p, ratchet[p], f, None, new, net)
    BY <1>1, <1>2, <1>3, <1>4, AdvancePeer
<1>6. f \in Nat /\ fresh[p] <= f
    BY <1>2
<1> HIDE DEF r, f, new
<1>7. /\ ratchet' = [ratchet EXCEPT ![p] = ratchet'[p]]
      /\ sendTask' = [sendTask EXCEPT ![p] = sendTask'[p]]
      /\ recvTask' = [recvTask EXCEPT ![p] = recvTask'[p]] /\ recvTask'[p] = new
      /\ fresh' = [fresh EXCEPT ![p] = fresh'[p]] /\ fresh'[p] = f
    BY <1>1, <1>2
<1> QED
    <2>1. PeerInv(p, ratchet'[p], fresh'[p], sendTask'[p], recvTask'[p], net)
        BY <1>1, <1>5, <1>7
    <2> QED
        BY <1>1, <1>2, <1>6, <1>7, <2>1, PeerStep

\* The steps of a task of p that only touch p's tasks and p's state on disk.
LEMMA TaskKeys ==
    ASSUME KeysInv, NEW p \in Peers, net' = net, fresh' = fresh, sent' \in [Peers -> Nat],
           NEW st, ratchet' = [ratchet EXCEPT ![p] = st],
           NEW task, sendTask' = [sendTask EXCEPT ![p] = task],
           NEW rtask, recvTask' = [recvTask EXCEPT ![p] = rtask],
           PeerInv(p, st, fresh[p], task, rtask, net)
    PROVE  KeysInv'
<1>1. /\ ratchet = [q \in Peers |-> ratchet[q]] /\ fresh \in [Peers -> Nat]
      /\ sendTask = [q \in Peers |-> sendTask[q]] /\ recvTask = [q \in Peers |-> recvTask[q]]
    BY DEF KeysInv
<1>2. /\ ratchet' = [ratchet EXCEPT ![p] = ratchet'[p]] /\ ratchet'[p] = st
      /\ sendTask' = [sendTask EXCEPT ![p] = sendTask'[p]] /\ sendTask'[p] = task
      /\ recvTask' = [recvTask EXCEPT ![p] = recvTask'[p]] /\ recvTask'[p] = rtask
      /\ fresh' = [fresh EXCEPT ![p] = fresh'[p]] /\ fresh'[p] \in Nat /\ fresh[p] <= fresh'[p]
    BY <1>1
<1> QED
    BY <1>2, PeerStep

LEMMA NextKeys == ~Overlap /\ KeysInv /\ [Next]_vars => KeysInv'
<1> SUFFICES ASSUME ~Overlap, KeysInv, [Next]_vars PROVE KeysInv'
    OBVIOUS
<1>1. /\ ratchet = [q \in Peers |-> ratchet[q]] /\ fresh \in [Peers -> Nat] /\ sent \in [Peers -> Nat]
      /\ sendTask = [q \in Peers |-> sendTask[q]] /\ recvTask = [q \in Peers |-> recvTask[q]]
      /\ \A p \in Peers : PeerInv(p, ratchet[p], fresh[p], sendTask[p], recvTask[p], net)
    BY DEF KeysInv
<1>2. \A p \in Peers : /\ ratchet = [ratchet EXCEPT ![p] = ratchet[p]]
                       /\ sendTask = [sendTask EXCEPT ![p] = sendTask[p]]
                       /\ recvTask = [recvTask EXCEPT ![p] = recvTask[p]]
    BY <1>1
<1>3. ASSUME NEW p \in Peers, SendReads(p) PROVE KeysInv'
    <2> DEFINE new == [stage |-> "read", st |-> ratchet[p]]
    <2>1. /\ sendTask[p] = None /\ recvTask[p] = None /\ sendTask' = [sendTask EXCEPT ![p] = new]
          /\ UNCHANGED <<ratchet, recvTask, fresh, net>> /\ sent' \in [Peers -> Nat]
        BY <1>1, <1>3 DEF SendReads, MayStart
    <2>2. PeerInv(p, ratchet[p], fresh[p], None, None, net)
        BY <1>1, <2>1
    <2>3. PeerInv(p, ratchet[p], fresh[p], new, None, net)
        BY <2>2, ReadPeer
    <2> HIDE DEF new
    <2> QED
        <3>1. recvTask' = [recvTask EXCEPT ![p] = None] /\ ratchet' = [ratchet EXCEPT ![p] = ratchet[p]]
            BY <1>2, <2>1
        <3> QED
            BY <2>1, <2>3, <3>1, TaskKeys
<1>4. ASSUME NEW p \in Peers, SendPersists(p) PROVE KeysInv'
    <2> DEFINE new == [sendTask[p] EXCEPT !.stage = "persisted"]
               st == StepSend(sendTask[p].st)
    <2>1. /\ sendTask[p] # None /\ sendTask[p].stage = "read"
          /\ sendTask' = [sendTask EXCEPT ![p] = new] /\ ratchet' = [ratchet EXCEPT ![p] = st]
          /\ UNCHANGED <<recvTask, fresh, net, sent>>
        BY <1>4 DEF SendPersists
    <2>2. PeerInv(p, st, fresh[p], new, recvTask[p], net)
        BY <1>1, <2>1, PersistPeer
    <2> HIDE DEF new, st
    <2> QED
        BY <1>1, <1>2, <2>1, <2>2, TaskKeys
<1>5. ASSUME NEW p \in Peers, SendErrs(p) \/ RecvErrs(p) \/ Crash(p) PROVE KeysInv'
    <2>1. /\ sendTask' = [sendTask EXCEPT ![p] = None] \/ sendTask' = [sendTask EXCEPT ![p] = sendTask[p]]
          /\ recvTask' = [recvTask EXCEPT ![p] = None] \/ recvTask' = [recvTask EXCEPT ![p] = recvTask[p]]
          /\ ratchet' = [ratchet EXCEPT ![p] = ratchet[p]] /\ UNCHANGED <<fresh, net, sent>>
        BY <1>2, <1>5 DEF SendErrs, RecvErrs, Crash
    <2>2. /\ PeerInv(p, ratchet[p], fresh[p], None, recvTask[p], net)
          /\ PeerInv(p, ratchet[p], fresh[p], sendTask[p], None, net)
          /\ PeerInv(p, ratchet[p], fresh[p], None, None, net)
          /\ PeerInv(p, ratchet[p], fresh[p], sendTask[p], recvTask[p], net)
        BY <1>1, DropPeer
    <2> QED
        BY <1>1, <2>1, <2>2, TaskKeys
<1>6. ASSUME NEW p \in Peers, NEW m \in net, RecvRejects(p, m) PROVE KeysInv'
    <2>1. /\ ratchet' = [ratchet EXCEPT ![p] = ratchet[p]]
          /\ UNCHANGED <<sendTask, recvTask, fresh, net, sent>>
        BY <1>6 DEF RecvRejects, AfterReject
    <2> QED
        BY <1>1, <1>2, <2>1, TaskKeys
<1>7. ASSUME NEW p \in Peers, RecvStores(p) PROVE KeysInv'
    <2> DEFINE new == [recvTask[p] EXCEPT !.stage = "stored"]
    <2>1. /\ recvTask[p] # None /\ recvTask' = [recvTask EXCEPT ![p] = new]
          /\ UNCHANGED <<ratchet, sendTask, fresh, net, sent>>
        BY <1>7 DEF RecvStores
    <2>2. PeerInv(p, ratchet[p], fresh[p], sendTask[p], new, net)
        BY <1>1, <2>1, StorePeer
    <2> HIDE DEF new
    <2> QED
        BY <1>1, <1>2, <2>1, <2>2, TaskKeys
<1>8. ASSUME NEW p \in Peers, RecvCommits(p) PROVE KeysInv'
    <2> DEFINE st == recvTask[p].st
    <2>1. /\ recvTask[p] # None /\ recvTask' = [recvTask EXCEPT ![p] = None]
          /\ ratchet' = [ratchet EXCEPT ![p] = st]
          /\ UNCHANGED <<sendTask, fresh, net, sent>>
        BY <1>8 DEF RecvCommits
    <2>2. PeerInv(p, st, fresh[p], sendTask[p], None, net)
        BY <1>1, <2>1, CommitPeer
    <2> HIDE DEF st
    <2> QED
        BY <1>1, <1>2, <2>1, <2>2, TaskKeys
<1>9. ASSUME WeekPasses PROVE KeysInv'
    <2>1. /\ UNCHANGED <<sendTask, recvTask, fresh, net, sent>>
          /\ \A p \in Peers : sendTask[p] = None /\ recvTask[p] = None
          /\ ratchet' = [p \in Peers |-> ratchet'[p]]
        BY <1>9 DEF WeekPasses
    <2>2. ASSUME NEW p \in Peers
          PROVE  PeerInv(p, ratchet'[p], fresh'[p], sendTask'[p], recvTask'[p], net')
        <3> DEFINE st == ratchet[p]
                   aged == [j \in DOMAIN st.skipped |-> [st.skipped[j] EXCEPT !.aged = TRUE]]
                   t == [st EXCEPT !.skipped = aged]
        <3>1. ratchet'[p] = t
            BY <1>9 DEF WeekPasses
        <3>2. PeerInv(p, st, fresh[p], None, None, net) /\ DOMAIN st = Fields
            BY <1>1, <2>1 DEF PeerInv, Sound
        <3> HIDE DEF st, aged
        <3>3. DOMAIN t = Fields
            BY <3>2, Zenon
        <3>4. SameSending(st, t)
            BY <3>2 DEF SameSending, Fields
        <3> HIDE DEF t
        <3> QED
            BY <2>1, <3>1, <3>2, <3>3, <3>4, SamePeer
    <2>3. WiresInv' /\ NoKeyReuse'
        BY <2>1 DEF KeysInv, WiresInv, NoKeyReuse
    <2> QED
        BY <1>1, <2>1, <2>2, <2>3 DEF KeysInv
<1>10. CASE UNCHANGED vars
    BY <1>10 DEF vars, KeysInv, WiresInv, NoKeyReuse
<1> QED
    BY <1>3, <1>4, <1>5, <1>6, <1>7, <1>8, <1>9, <1>10, SendPublishesKeys, RecvAdvancesKeys DEF Next

\* No message key seals two messages, whatever crashes between the write of
\* the state and the publishing, whatever send fails and however often the
\* ratchet turns: build_ratchet_wire persists the advance before it uses the
\* key, and a turn always draws a key pair.
THEOREM RatchetNoKeyReuse == ASSUME ~Overlap PROVE Spec => []NoKeyReuse
<1>1. KeysInv => NoKeyReuse
    BY DEF KeysInv
<1>2. KeysInv /\ [Next]_vars => KeysInv'
    BY NextKeys
<1> QED
    BY <1>1, <1>2, InitKeys, PTL DEF Spec

\* Every chain but the accepter's first mixes in an ML-KEM secret: the KEM key
\* of the peer is on every header, so a turn in ratchet_step_recv never finds
\* it missing.
THEOREM RatchetHybridTurns == ASSUME ~Overlap PROVE Spec => []HybridTurns
<1>1. KeysInv => HybridTurns
    <2> SUFFICES ASSUME KeysInv, NEW m \in net, Len(m.mk.root) > 1
                 PROVE  Last(m.mk.root).kem # None
        BY DEF HybridTurns
    <2>1. m.mk.root[Len(m.mk.root)].kem \in KeyPairs
        BY DEF KeysInv, WiresInv, Wire, Sending
    <2> QED
        BY <2>1, RatchetConstants DEF Last
<1>2. KeysInv /\ [Next]_vars => KeysInv'
    BY NextKeys
<1> QED
    BY <1>1, <1>2, InitKeys, PTL DEF Spec

-----------------------------------------------------------------------------
(* The conversation.  This needs none of the above.                        *)

Receiving(task) ==
    task # None => /\ task = [stage |-> task.stage, m |-> task.m, st |-> task.st]
                   /\ task.m.id \in KeyPairs

Once(c) == c \in Seq(KeyPairs) /\ \A i, j \in DOMAIN c : c[i] = c[j] => i = j

LinesInv ==
    /\ sent \in [Peers -> Nat]
    /\ \A m \in net : m.id \in KeyPairs
    /\ recvTask = [p \in Peers |-> recvTask[p]] /\ \A p \in Peers : Receiving(recvTask[p])
    /\ conv = [p \in Peers |-> conv[p]] /\ \A p \in Peers : Once(conv[p])

LEMMA StoredOnce ==
    ASSUME NEW c, Once(c), NEW id \in KeyPairs
    PROVE  Once(Stored(c, id))
<1>1. c \in Seq(KeyPairs) /\ Len(c) \in Nat /\ DOMAIN c = 1..Len(c)
    BY DEF Once
<1>2. CASE Contains(c, id)
    BY <1>2 DEF Stored
<1>3. CASE ~Contains(c, id)
    <2> DEFINE d == Append(c, id)
    <2>1. \A i \in 1..Len(c) : c[i] # id
        BY <1>3 DEF Contains
    <2>2. /\ d \in Seq(KeyPairs) /\ DOMAIN d = 1..(Len(c) + 1)
          /\ d[Len(c) + 1] = id /\ \A i \in 1..Len(c) : d[i] = c[i]
        BY <1>1
    <2> HIDE DEF d
    <2>3. \A i, j \in DOMAIN d : d[i] = d[j] => i = j
        <3> SUFFICES ASSUME NEW i \in DOMAIN d, NEW j \in DOMAIN d, d[i] = d[j] PROVE i = j
            OBVIOUS
        <3>1. i \in 1..Len(c) \/ i = Len(c) + 1
            BY <1>1, <2>2
        <3>2. j \in 1..Len(c) \/ j = Len(c) + 1
            BY <1>1, <2>2
        <3> QED
            BY <1>1, <2>1, <2>2, <3>1, <3>2 DEF Once
    <2> QED
        BY <1>3, <2>2, <2>3 DEF Stored, Once, d
<1> QED
    BY <1>2, <1>3

LEMMA InitLines == Init => LinesInv
<1> SUFFICES ASSUME Init PROVE LinesInv
    OBVIOUS
<1>1. Once(<<>>)
    BY DEF Once
<1> QED
    BY <1>1 DEF Init, LinesInv, Receiving

LEMMA NextLines == LinesInv /\ [Next]_vars => LinesInv'
<1> SUFFICES ASSUME LinesInv, [Next]_vars PROVE LinesInv'
    OBVIOUS
<1>1. /\ sent \in [Peers -> Nat] /\ \A m \in net : m.id \in KeyPairs
      /\ recvTask = [p \in Peers |-> recvTask[p]] /\ \A p \in Peers : Receiving(recvTask[p])
      /\ conv = [p \in Peers |-> conv[p]] /\ \A p \in Peers : Once(conv[p])
    BY DEF LinesInv
<1>2. Receiving(None)
    BY DEF Receiving
<1>3. ASSUME NEW p \in Peers, SendReads(p) PROVE LinesInv'
    <2>1. UNCHANGED <<net, recvTask, conv>> /\ sent' \in [Peers -> Nat]
        BY <1>1, <1>3 DEF SendReads
    <2> QED
        BY <1>1, <2>1 DEF LinesInv
<1>4. ASSUME NEW p \in Peers, SendPersists(p) \/ SendErrs(p) PROVE LinesInv'
    <2>1. UNCHANGED <<net, recvTask, conv, sent>>
        BY <1>4 DEF SendPersists, SendErrs
    <2> QED
        BY <1>1, <2>1 DEF LinesInv
<1>5. ASSUME NEW p \in Peers, SendPublishes(p) PROVE LinesInv'
    <2>1. /\ UNCHANGED <<recvTask, conv, sent>>
          /\ \E h, mk, q : net' = net \cup {Sealed(<<p, sent[p]>>, q, h, mk)}
        BY <1>5 DEF SendPublishes
    <2>2. \A m \in net' : m.id \in KeyPairs
        BY <1>1, <2>1 DEF Sealed, KeyPairs
    <2> QED
        BY <1>1, <2>1, <2>2 DEF LinesInv
<1>6. ASSUME NEW p \in Peers, NEW m \in net, RecvAdvances(p, m) PROVE LinesInv'
    <2>1. PICK st : recvTask' = [recvTask EXCEPT ![p] = [stage |-> "opened", m |-> m, st |-> st]]
        BY <1>6 DEF RecvAdvances
    <2>2. Receiving([stage |-> "opened", m |-> m, st |-> st])
        BY <1>1 DEF Receiving
    <2>3. UNCHANGED <<net, conv, sent>>
        BY <1>6 DEF RecvAdvances
    <2> QED
        BY <1>1, <2>1, <2>2, <2>3 DEF LinesInv
<1>7. ASSUME NEW p \in Peers, NEW m \in net, RecvRejects(p, m) PROVE LinesInv'
    <2>1. UNCHANGED <<net, recvTask, conv, sent>>
        BY <1>7 DEF RecvRejects
    <2> QED
        BY <1>1, <2>1 DEF LinesInv
<1>8. ASSUME NEW p \in Peers, RecvStores(p) PROVE LinesInv'
    <2>1. /\ recvTask[p] # None /\ UNCHANGED <<net, sent>>
          /\ conv' = [conv EXCEPT ![p] = Stored(conv[p], recvTask[p].m.id)]
          /\ recvTask' = [recvTask EXCEPT ![p] = [recvTask[p] EXCEPT !.stage = "stored"]]
        BY <1>8 DEF RecvStores, DedupId
    <2>2. recvTask[p] = [stage |-> recvTask[p].stage, m |-> recvTask[p].m, st |-> recvTask[p].st]
        BY <1>1, <2>1 DEF Receiving
    <2>3. recvTask[p].m.id \in KeyPairs
        BY <1>1, <2>1 DEF Receiving
    <2>4. Receiving([recvTask[p] EXCEPT !.stage = "stored"])
        <3>1. [recvTask[p] EXCEPT !.stage = "stored"] =
                [stage |-> "stored", m |-> recvTask[p].m, st |-> recvTask[p].st]
            BY <2>2
        <3> QED
            BY <2>3, <3>1 DEF Receiving
    <2>5. Once(Stored(conv[p], recvTask[p].m.id))
        BY <1>1, <2>3, StoredOnce
    <2>6. recvTask' = [q \in Peers |-> recvTask'[q]] /\ \A q \in Peers : Receiving(recvTask'[q])
        BY <1>1, <2>1, <2>4
    <2>7. conv' = [q \in Peers |-> conv'[q]] /\ \A q \in Peers : Once(conv'[q])
        BY <1>1, <2>1, <2>5
    <2> QED
        BY <1>1, <2>1, <2>6, <2>7 DEF LinesInv
<1>9. ASSUME NEW p \in Peers, RecvCommits(p) \/ RecvErrs(p) \/ Crash(p) PROVE LinesInv'
    <2>1. recvTask' = [recvTask EXCEPT ![p] = None] /\ UNCHANGED <<net, conv, sent>>
        BY <1>9 DEF RecvCommits, RecvErrs, Crash
    <2> QED
        BY <1>1, <1>2, <2>1 DEF LinesInv
<1>10. ASSUME WeekPasses PROVE LinesInv'
    <2>1. UNCHANGED <<net, recvTask, conv, sent>>
        BY <1>10 DEF WeekPasses
    <2> QED
        BY <1>1, <2>1 DEF LinesInv
<1>11. CASE UNCHANGED vars
    BY <1>1, <1>11 DEF vars, LinesInv
<1> QED
    BY <1>3, <1>4, <1>5, <1>6, <1>7, <1>8, <1>9, <1>10, <1>11 DEF Next

\* A redelivered wire never shows twice, with overlapping tasks or without,
\* and wherever a crash came: store_incoming_message looks for the ciphertext
\* before it appends.
THEOREM RatchetNoDuplicateLine == Spec => []NoDuplicateLine
<1>1. LinesInv => NoDuplicateLine
    BY DEF LinesInv, Once, NoDuplicateLine
<1> QED
    BY <1>1, InitLines, NextLines, PTL DEF Spec

-----------------------------------------------------------------------------
(* The numbers.  This needs no more than the fields of a state: a state    *)
(* that a task holds was right when it was read, and stays so, whatever    *)
(* was written meanwhile.                                                  *)

\* A stash within its cap.
Stash(s) == (\E U : s \in Seq(U)) /\ Len(s) <= MAX_SKIPPED_KEYS

\* A state whose receiving side is counted right.
Counted(st) ==
    /\ DOMAIN st = Fields
    /\ st.ns \in Nat /\ st.nr \in Nat /\ st.pn \in Nat
    /\ st.ckr = None \/ st.ckr = [root |-> st.ckr.root, i |-> st.nr]
    /\ Stash(st.skipped)

\* A state of a peer that started to send n messages.
Numbers(st, n) ==
    /\ Counted(st)
    /\ st.ns <= n /\ st.nr <= MaxSends /\ st.pn <= MaxSends
    /\ st.cks = [root |-> st.rk, i |-> st.ns]

LEMMA EvictStash ==
    ASSUME NEW U, NEW s \in Seq(U)
    PROVE  Stash(EvictSkipped(s))
<1> DEFINE young == Retained(s, {e \in Range(s) : ~e.aged})
           over  == IF Len(young) > MAX_SKIPPED_KEYS
                    THEN Len(young) - MAX_SKIPPED_KEYS ELSE 0
<1>1. young \in Seq(U)
    BY RetainedList
<1>2. EvictSkipped(s) = SubSeq(young, over + 1, Len(young))
    BY Zenon DEF EvictSkipped
<1> HIDE DEF young
<1>3. MAX_SKIPPED_KEYS \in Nat /\ Len(young) \in Nat
    BY <1>1, RatchetConstants
<1>4. over \in 0..Len(young) /\ Len(young) - over <= MAX_SKIPPED_KEYS
    BY <1>3
<1> HIDE DEF over
<1>5. \A i \in (over + 1)..Len(young) : young[i] \in U
    BY <1>1, <1>3, <1>4
<1>6. SubSeq(young, over + 1, Len(young)) \in Seq(U)
    BY <1>1, <1>3, <1>4, <1>5, SubSeqProperties
<1>7. Len(SubSeq(young, over + 1, Len(young))) = Len(young) - over
    BY <1>1, <1>3, <1>4
<1> QED
    BY <1>2, <1>4, <1>6, <1>7 DEF Stash

LEMMA RemovedStash ==
    ASSUME NEW U, NEW s \in Seq(U), NEW j \in 1..Len(s)
    PROVE  RemoveAt(s, j) \in Seq(U) /\ Len(RemoveAt(s, j)) = Len(s) - 1
<1> DEFINE a == SubSeq(s, 1, j - 1)
           b == SubSeq(s, j + 1, Len(s))
<1>1. Len(s) \in Nat /\ \A i \in 1..Len(s) : s[i] \in U
    OBVIOUS
<1>2. a \in Seq(U)
    BY <1>1, SubSeqProperties
<1>3. b \in Seq(U)
    BY <1>1, SubSeqProperties
<1>4. Len(a) = j - 1 /\ Len(b) = Len(s) - j
    BY <1>1
<1>5. RemoveAt(s, j) = a \o b
    BY Zenon DEF RemoveAt
<1> HIDE DEF a, b
<1>6. a \o b \in Seq(U) /\ Len(a \o b) = Len(a) + Len(b)
    BY <1>2, <1>3
<1>7. Len(a) + Len(b) = Len(s) - 1
    BY <1>1, <1>4
<1> QED
    BY <1>5, <1>6, <1>7

LEMMA SkipCounted ==
    ASSUME NEW st, Counted(st), NEW until \in Nat, NEW t, t = SkipMessageKeys(st, until)
    PROVE  Counted(t) /\ t.ns = st.ns /\ t.pn = st.pn
<1> DEFINE count == IF until > st.nr THEN until - st.nr ELSE 0
           keys  == [j \in 1..count |->
                       [dh |-> st.dhr, n |-> st.nr + j - 1, aged |-> FALSE,
                        mk |-> [st.ckr EXCEPT !.i = @ + j - 1]]]
           kept  == EvictSkipped(st.skipped \o keys)
           lost  == st.lost \cup (MksOf(st.skipped \o keys) \ MksOf(kept))
           ckr   == [st.ckr EXCEPT !.i = @ + count]
<1>1. CASE st.ckr = None
    <2>1. t = st
        BY <1>1, Zenon DEF SkipMessageKeys
    <2> QED
        BY <2>1
<1>2. CASE st.ckr # None
    <2>1. t = [st EXCEPT !.skipped = kept, !.lost = lost, !.ckr = ckr, !.nr = @ + count]
        BY <1>2, Zenon DEF SkipMessageKeys
    <2>2. st.nr \in Nat /\ count \in Nat
        BY DEF Counted
    <2>3. Stash(kept)
        <3>1. PICK U : st.skipped \in Seq(U)
            BY DEF Counted, Stash
        <3> DEFINE V == U \cup {keys[j] : j \in 1..count}
        <3>2. st.skipped \in Seq(V)
            BY <3>1
        <3>3. keys \in Seq(V)
            BY <2>2
        <3> HIDE DEF V, keys
        <3>4. st.skipped \o keys \in Seq(V)
            BY <3>2, <3>3
        <3> QED
            BY <3>4, EvictStash
    <2>4. ckr = [root |-> st.ckr.root, i |-> st.nr + count]
        <3>1. st.ckr = [root |-> st.ckr.root, i |-> st.nr]
            BY <1>2 DEF Counted
        <3> HIDE DEF count
        <3> QED
            BY <3>1
    <2> HIDE DEF kept, lost, ckr, count, keys
    <2>5. DOMAIN st = Fields
        BY DEF Counted
    <2>6. DOMAIN t = Fields
        BY <2>1, <2>5, Zenon
    <2>7. t.ns = st.ns
        BY <2>1, <2>5, Zenon DEF Fields
    <2>8. t.pn = st.pn
        BY <2>1, <2>5, Zenon DEF Fields
    <2>9. t.nr = st.nr + count
        BY <2>1, <2>5, Zenon DEF Fields
    <2>10. t.ckr = ckr
        BY <2>1, <2>5, Zenon DEF Fields
    <2>11. t.skipped = kept
        BY <2>1, <2>5, Zenon DEF Fields
    <2>12. t.ckr = [root |-> t.ckr.root, i |-> t.nr]
        BY <2>4, <2>9, <2>10
    <2>13. t.nr \in Nat
        BY <2>2, <2>9
    <2> QED
        BY <2>3, <2>6, <2>7, <2>8, <2>11, <2>12, <2>13 DEF Counted
<1> QED
    BY <1>1, <1>2

LEMMA TurnCounted ==
    ASSUME NEW st, DOMAIN st = Fields, st.ns \in Nat, Stash(st.skipped),
           NEW dh, NEW ss, NEW k, NEW t, t = DhRatchet(st, dh, ss, k)
    PROVE  Counted(t) /\ t.ns = 0 /\ t.nr = 0 /\ t.pn = st.ns /\ t.cks = Chain(t.rk)
<1> DEFINE rk1 == KdfRk(st.rk, {st.dhs, dh}, ss)
<1>1. DOMAIN t = Fields /\ t.cks = Chain(t.rk)
    <2>1. TurnOf(st, dh, ss, k, t)
        BY DhRatchetFields
    <2> QED
        BY <2>1, Zenon DEF TurnOf
<1>2. t.ns = 0
    BY Zenon DEF DhRatchet, Fields
<1>3. t.nr = 0
    BY Zenon DEF DhRatchet, Fields
<1>4. t.pn = st.ns
    BY Zenon DEF DhRatchet, Fields
<1>5. t.skipped = st.skipped
    BY Zenon DEF DhRatchet, Fields
<1>6. t.ckr = Chain(rk1)
    BY Zenon DEF DhRatchet, Fields
<1> HIDE DEF rk1
<1>7. t.ckr = [root |-> t.ckr.root, i |-> t.nr]
    BY <1>3, <1>6 DEF Chain
<1> QED
    BY <1>1, <1>2, <1>3, <1>4, <1>5, <1>7 DEF Counted

\* A receive that opened keeps the numbers: the index it opened at is that of a
\* message somebody sent.
LEMMA StepRecvNumbers ==
    ASSUME NEW n \in Nat, n <= MaxSends, NEW st, Numbers(st, n),
           NEW h, h.n \in Nat, h.pn \in Nat, NEW k, NEW r, r = StepRecv(st, h, k), r.ok,
           r.mk.i \in Nat, r.mk.i < MaxSends
    PROVE  Numbers(r.st, n)
<1> DEFINE stashed  == {j \in 1..Len(st.skipped) :
                          st.skipped[j].dh = h.dh /\ st.skipped[j].n = h.n}
           newEpoch == st.dhr # h.dh
           oldSkip  == IF newEpoch /\ h.pn > st.nr THEN h.pn - st.nr ELSE 0
           newStart == IF newEpoch THEN 0 ELSE st.nr
           newSkip  == IF h.n > newStart THEN h.n - newStart ELSE 0
           kemSs    == IF h.kem_ct # None THEN Decapsulate(st.kem, h.kem_ct) ELSE None
           adopted  == [st EXCEPT !.peerKem = IF h.kem_pub # None THEN h.kem_pub ELSE @]
           closed   == SkipMessageKeys(adopted, h.pn)
           turned   == IF newEpoch THEN DhRatchet(closed, h.dh, kemSs, k) ELSE st
           skipped  == SkipMessageKeys(turned, h.n)
           first    == CHOOSE x \in stashed : \A y \in stashed : x <= y
           rest     == RemoveAt(st.skipped, first)
           fromStash == [ok |-> TRUE, mk |-> st.skipped[first].mk, turned |-> FALSE,
                         st |-> [st EXCEPT !.skipped = rest]]
           fromChain == [ok |-> TRUE, mk |-> skipped.ckr, turned |-> newEpoch,
                         st |-> [skipped EXCEPT !.ckr = NextKey(@), !.nr = @ + 1]]
<1>1. r = IF stashed # {} THEN fromStash
          ELSE IF oldSkip + newSkip > MAX_SKIP THEN Failed("max skip")
          ELSE IF newEpoch /\ h.kem_ct = None /\ st.peerKem # None THEN Failed("downgrade")
          ELSE IF skipped.ckr = None THEN Failed("no receiving chain")
          ELSE fromChain
    BY Zenon DEF StepRecv
<1>2. \A w : Failed(w).ok = FALSE
    BY DEF Failed
<1>3. /\ Counted(st) /\ DOMAIN st = Fields /\ Stash(st.skipped)
      /\ st.ns \in Nat /\ st.nr \in Nat /\ st.pn \in Nat /\ MaxSends \in Nat
      /\ st.ns <= n /\ st.nr <= MaxSends /\ st.pn <= MaxSends
      /\ st.cks = [root |-> st.rk, i |-> st.ns]
    BY RatchetConstants DEF Numbers, Counted
<1>4. CASE stashed # {} /\ r = fromStash
    <2> DEFINE left == [st EXCEPT !.skipped = rest]
               key  == st.skipped[first].mk
    <2>0. r = [ok |-> TRUE, mk |-> key, turned |-> FALSE, st |-> left]
        BY <1>4, Zenon
    <2> HIDE DEF left, key
    <2>1. r.st = [st EXCEPT !.skipped = rest]
        BY <2>0 DEF left
    <2>2. PICK U : st.skipped \in Seq(U)
        BY <1>3 DEF Stash
    <2>3. Len(st.skipped) \in Nat /\ stashed \in SUBSET Nat
        BY <2>2
    <2>4. \E x \in stashed : \A y \in stashed : x <= y
        BY <1>4, <2>3, LeastNat
    <2>5. first \in stashed
        BY <2>4
    <2>6. first \in 1..Len(st.skipped)
        BY <2>5
    <2> HIDE DEF first, stashed
    <2>7. rest \in Seq(U) /\ Len(rest) = Len(st.skipped) - 1
        BY <2>2, <2>6, RemovedStash
    <2> HIDE DEF rest
    <2>8. Stash(rest)
        <3>1. Len(rest) <= MAX_SKIPPED_KEYS
            BY <1>3, <2>3, <2>7, RatchetConstants DEF Stash
        <3> QED
            BY <2>7, <3>1, Zenon DEF Stash
    <2>9. DOMAIN r.st = Fields
        BY <1>3, <2>1, Zenon
    <2>10. r.st.ns = st.ns
        BY <1>3, <2>1, Zenon DEF Fields
    <2>11. r.st.nr = st.nr
        BY <1>3, <2>1, Zenon DEF Fields
    <2>12. r.st.pn = st.pn
        BY <1>3, <2>1, Zenon DEF Fields
    <2>13. r.st.ckr = st.ckr
        BY <1>3, <2>1, Zenon DEF Fields
    <2>14. r.st.cks = st.cks
        BY <1>3, <2>1, Zenon DEF Fields
    <2>15. r.st.rk = st.rk
        BY <1>3, <2>1, Zenon DEF Fields
    <2>16. r.st.skipped = rest
        BY <1>3, <2>1, Zenon DEF Fields
    <2>17. Counted(r.st)
        BY <1>3, <2>8, <2>9, <2>10, <2>11, <2>12, <2>13, <2>16, Zenon DEF Counted
    <2> QED
        BY <1>3, <2>10, <2>11, <2>12, <2>14, <2>15, <2>17 DEF Numbers
<1>5. CASE skipped.ckr # None /\ r = fromChain
    <2>1. r.st = [skipped EXCEPT !.ckr = NextKey(@), !.nr = @ + 1] /\ r.mk = skipped.ckr
        BY <1>5
    <2>2. newEpoch => /\ Counted(turned) /\ turned.ns <= n /\ turned.pn <= MaxSends
                      /\ turned.cks = [root |-> turned.rk, i |-> turned.ns]
        <3> SUFFICES ASSUME newEpoch
                     PROVE  /\ Counted(turned) /\ turned.ns <= n /\ turned.pn <= MaxSends
                            /\ turned.cks = [root |-> turned.rk, i |-> turned.ns]
            OBVIOUS
        <3>1. DOMAIN adopted = Fields
            BY <1>3, Zenon
        <3>2. adopted.ns = st.ns
            BY <1>3, Zenon DEF Fields
        <3>3. adopted.nr = st.nr
            BY <1>3, Zenon DEF Fields
        <3>4. adopted.pn = st.pn
            BY <1>3, Zenon DEF Fields
        <3>5. adopted.ckr = st.ckr
            BY <1>3, Zenon DEF Fields
        <3>6. adopted.skipped = st.skipped
            BY <1>3, Zenon DEF Fields
        <3> HIDE DEF adopted
        <3>7. Counted(adopted)
            BY <1>3, <3>1, <3>2, <3>3, <3>4, <3>5, <3>6, Zenon DEF Counted
        <3>8. Counted(closed) /\ closed.ns = st.ns
            BY <3>2, <3>7, SkipCounted
        <3>9. turned = DhRatchet(closed, h.dh, kemSs, k)
            OBVIOUS
        <3> HIDE DEF closed, turned, kemSs
        <3>10. DOMAIN closed = Fields /\ closed.ns \in Nat /\ Stash(closed.skipped)
            BY <3>8 DEF Counted
        <3>11. /\ Counted(turned) /\ turned.ns = 0 /\ turned.pn = closed.ns
               /\ turned.cks = Chain(turned.rk)
            BY <3>9, <3>10, TurnCounted
        <3> QED
            BY <1>3, <3>8, <3>11 DEF Chain
    <2>3. /\ Counted(turned) /\ turned.ns <= n /\ turned.pn <= MaxSends
          /\ turned.cks = [root |-> turned.rk, i |-> turned.ns]
        BY <1>3, <2>2
    <2> HIDE DEF turned, newEpoch
    <2>4. Counted(skipped) /\ skipped.ns = turned.ns /\ skipped.pn = turned.pn
        BY <2>3, SkipCounted
    <2>5. skipped.rk = turned.rk /\ skipped.cks = turned.cks
        BY <2>3, SkipFields DEF Counted
    <2> HIDE DEF skipped
    <2>6. /\ DOMAIN skipped = Fields /\ skipped.nr \in Nat /\ skipped.ns \in Nat
          /\ skipped.pn \in Nat /\ Stash(skipped.skipped)
          /\ skipped.ckr = [root |-> skipped.ckr.root, i |-> skipped.nr]
        BY <1>5, <2>4 DEF Counted
    <2>7. NextKey(skipped.ckr) = [root |-> skipped.ckr.root, i |-> skipped.nr + 1]
        BY <2>6 DEF NextKey
    <2>8. skipped.nr < MaxSends
        BY <2>1, <2>6
    <2>9. DOMAIN r.st = Fields
        BY <2>1, <2>6, Zenon
    <2>10. r.st.ns = skipped.ns
        BY <2>1, <2>6, Zenon DEF Fields
    <2>11. r.st.nr = skipped.nr + 1
        BY <2>1, <2>6, Zenon DEF Fields
    <2>12. r.st.pn = skipped.pn
        BY <2>1, <2>6, Zenon DEF Fields
    <2>13. r.st.ckr = NextKey(skipped.ckr)
        <3> DEFINE new == NextKey(skipped.ckr)
        <3>1. r.st = [skipped EXCEPT !.ckr = new, !.nr = skipped.nr + 1]
            BY <2>1, Zenon
        <3> HIDE DEF new
        <3>2. "ckr" \in DOMAIN skipped /\ "ckr" # "nr"
            BY <2>6, Zenon DEF Fields
        <3>3. r.st.ckr = new
            BY <3>1, <3>2, Zenon
        <3> QED
            BY <3>3 DEF new
    <2>14. r.st.cks = skipped.cks
        BY <2>1, <2>6, Zenon DEF Fields
    <2>15. r.st.rk = skipped.rk
        BY <2>1, <2>6, Zenon DEF Fields
    <2>16. r.st.skipped = skipped.skipped
        BY <2>1, <2>6, Zenon DEF Fields
    <2>17. r.st.ckr = [root |-> r.st.ckr.root, i |-> r.st.nr]
        BY <2>7, <2>11, <2>13
    <2>18. r.st.nr \in Nat /\ r.st.nr <= MaxSends
        BY <1>3, <2>6, <2>8, <2>11
    <2>19. Counted(r.st)
        BY <2>6, <2>9, <2>10, <2>12, <2>16, <2>17, <2>18, Zenon DEF Counted
    <2>20. r.st.ns <= n /\ r.st.pn <= MaxSends
        BY <2>3, <2>4, <2>10, <2>12
    <2>21. r.st.cks = [root |-> r.st.rk, i |-> r.st.ns]
        BY <2>3, <2>4, <2>5, <2>10, <2>14, <2>15
    <2> QED
        BY <2>18, <2>19, <2>20, <2>21 DEF Numbers
<1> QED
    BY <1>1, <1>2, <1>4, <1>5

\* The numbers of one peer: its state on disk, the ones its tasks hold, and how
\* many messages it started to send.
PeerNumbers(st, n, task, rtask) ==
    /\ n \in Nat /\ n <= MaxSends
    /\ Numbers(st, n)
    /\ task # None =>
         /\ task = [stage |-> task.stage, st |-> task.st]
         /\ task.stage \in {"read", "persisted"}
         /\ Numbers(task.st, n) /\ task.st.ns < n
    /\ rtask # None =>
         /\ rtask = [stage |-> rtask.stage, m |-> rtask.m, st |-> rtask.st]
         /\ rtask.stage \in {"opened", "stored"}
         /\ Numbers(rtask.st, n)

NumberedWire(m) ==
    /\ m.to \in Peers /\ m.rh.n = m.mk.i
    /\ m.rh.n \in Nat /\ m.rh.n < MaxSends
    /\ m.rh.pn \in Nat

NumbersInv ==
    /\ ratchet = [p \in Peers |-> ratchet[p]]
    /\ sendTask = [p \in Peers |-> sendTask[p]] /\ recvTask = [p \in Peers |-> recvTask[p]]
    /\ sent = [p \in Peers |-> sent[p]] /\ fresh = [p \in Peers |-> fresh[p]]
    /\ \A p \in Peers : PeerNumbers(ratchet[p], sent[p], sendTask[p], recvTask[p])
    /\ \A p \in Peers : fresh[p] \in 1..MaxTurns
    /\ \A m \in net : NumberedWire(m)

LEMMA MoreNumbers ==
    ASSUME NEW st, NEW n, Numbers(st, n), n \in Nat
    PROVE  Numbers(st, n + 1) /\ st.ns < n + 1
    BY DEF Numbers, Counted

LEMMA StepSendNumbers ==
    ASSUME NEW n \in Nat, NEW st, Numbers(st, n), st.ns < n
    PROVE  Numbers(StepSend(st), n)
<1> DEFINE t == StepSend(st)
<1>1. DOMAIN st = Fields
    BY DEF Numbers, Counted
<1>2. DOMAIN t = Fields
    BY <1>1, Zenon DEF StepSend
<1>3. t.ns = st.ns + 1
    BY <1>1, Zenon DEF StepSend, Fields
<1>4. t.cks = NextKey(st.cks)
    BY <1>1, Zenon DEF StepSend, Fields
<1>5. t.nr = st.nr
    BY <1>1, Zenon DEF StepSend, Fields
<1>6. t.pn = st.pn
    BY <1>1, Zenon DEF StepSend, Fields
<1>7. t.ckr = st.ckr
    BY <1>1, Zenon DEF StepSend, Fields
<1>8. t.skipped = st.skipped
    BY <1>1, Zenon DEF StepSend, Fields
<1>9. t.rk = st.rk
    BY <1>1, Zenon DEF StepSend, Fields
<1> HIDE DEF t
<1>10. /\ st.ns \in Nat /\ st.nr \in Nat /\ st.pn \in Nat /\ Stash(st.skipped)
       /\ st.ckr = None \/ st.ckr = [root |-> st.ckr.root, i |-> st.nr]
       /\ st.nr <= MaxSends /\ st.pn <= MaxSends /\ st.cks = [root |-> st.rk, i |-> st.ns]
    BY DEF Numbers, Counted
<1>11. t.cks = [root |-> t.rk, i |-> t.ns]
    BY <1>3, <1>4, <1>9, <1>10 DEF NextKey
<1>12. t.ns \in Nat /\ t.ns <= n
    BY <1>3, <1>10
<1>13. Counted(t)
    BY <1>2, <1>5, <1>6, <1>7, <1>8, <1>10, <1>12, Zenon DEF Counted
<1> QED
    BY <1>5, <1>6, <1>10, <1>11, <1>12, <1>13, Zenon DEF Numbers, t

\* The week that passes ages the stash and leaves its length.
LEMMA AgedNumbers ==
    ASSUME NEW n, NEW st, Numbers(st, n),
           NEW t, t = [st EXCEPT !.skipped = [j \in DOMAIN @ |-> [@[j] EXCEPT !.aged = TRUE]]]
    PROVE  Numbers(t, n)
<1> DEFINE aged == [j \in DOMAIN st.skipped |-> [st.skipped[j] EXCEPT !.aged = TRUE]]
<1>1. DOMAIN st = Fields /\ Stash(st.skipped)
    BY DEF Numbers, Counted
<1>2. t = [st EXCEPT !.skipped = aged]
    OBVIOUS
<1>3. Stash(aged)
    <2>1. PICK U : st.skipped \in Seq(U)
        BY <1>1 DEF Stash
    <2>2. Len(st.skipped) \in Nat /\ DOMAIN st.skipped = 1..Len(st.skipped)
        BY <2>1
    <2> DEFINE V == {aged[j] : j \in 1..Len(st.skipped)}
    <2>3. aged \in [1..Len(st.skipped) -> V]
        BY <2>2
    <2> HIDE DEF aged, V
    <2>4. aged \in Seq(V) /\ Len(aged) = Len(st.skipped)
        BY <2>2, <2>3
    <2> QED
        BY <1>1, <2>4 DEF Stash
<1> HIDE DEF aged
<1>4. DOMAIN t = Fields
    BY <1>1, <1>2, Zenon
<1>5. t.ns = st.ns
    BY <1>1, <1>2, Zenon DEF Fields
<1>6. t.nr = st.nr
    BY <1>1, <1>2, Zenon DEF Fields
<1>7. t.pn = st.pn
    BY <1>1, <1>2, Zenon DEF Fields
<1>8. t.ckr = st.ckr
    BY <1>1, <1>2, Zenon DEF Fields
<1>9. t.cks = st.cks
    BY <1>1, <1>2, Zenon DEF Fields
<1>10. t.rk = st.rk
    BY <1>1, <1>2, Zenon DEF Fields
<1>11. t.skipped = aged
    BY <1>1, <1>2, Zenon DEF Fields
<1>12. Counted(st)
    BY DEF Numbers
<1>13. Counted(t)
    BY <1>3, <1>4, <1>5, <1>6, <1>7, <1>8, <1>11, <1>12, Zenon DEF Counted
<1> QED
    BY <1>5, <1>6, <1>7, <1>9, <1>10, <1>13, Zenon DEF Numbers

LEMMA InitNumbers == Init => NumbersInv
<1> SUFFICES ASSUME Init PROVE NumbersInv
    OBVIOUS
<1> DEFINE a0 == <<Accepter, 1>>
           i0 == <<Inviter, 0>>
           i1 == <<Inviter, 1>>
           E == [EmptyState EXCEPT !.dhs = i0, !.kem = i0, !.peerKem = a0]
<1>1. /\ Accepter \in Peers /\ Inviter \in Peers /\ Inviter # Accepter
    BY PeersDiffer DEF Peers
<1>2. /\ \A p \in Peers : fresh[p] = 1 /\ sendTask[p] = None /\ recvTask[p] = None /\ sent[p] = 0
      /\ fresh = [p \in Peers |-> fresh[p]] /\ sent = [p \in Peers |-> sent[p]]
      /\ net = {}
      /\ ratchet = [p \in Peers |-> ratchet[p]]
      /\ sendTask = [p \in Peers |-> sendTask[p]] /\ recvTask = [p \in Peers |-> recvTask[p]]
      /\ ratchet[Accepter] = InitInitiator(a0, i0)
      /\ ratchet[Inviter] = InitResponder(i0, a0, a0, i1)
    BY <1>1 DEF Init
<1>3. /\ 0 \in Nat /\ 0 <= MaxSends /\ 1 \in 1..MaxTurns
    BY RatchetConstants
<1>4. Stash(<<>>)
    <2>1. <<>> \in Seq({}) /\ Len(<<>>) = 0
        OBVIOUS
    <2> QED
        BY <2>1, RatchetConstants DEF Stash
<1>5. /\ DOMAIN EmptyState = Fields /\ EmptyState.ns = 0 /\ EmptyState.nr = 0
      /\ EmptyState.pn = 0 /\ EmptyState.ckr = None /\ EmptyState.skipped = <<>>
    <2>1. DOMAIN EmptyState = Fields
        BY Zenon DEF EmptyState, Fields
    <2> QED
        BY <2>1 DEF EmptyState
<1>6. Numbers(InitInitiator(a0, i0), 0)
    <2> DEFINE st == InitInitiator(a0, i0)
    <2>1. DOMAIN st = Fields
        BY <1>5, Zenon DEF InitInitiator
    <2>2. st.cks = Chain(st.rk)
        BY <1>5, Zenon DEF InitInitiator, Fields
    <2>3. st.ns = EmptyState.ns
        BY <1>5, Zenon DEF InitInitiator, Fields
    <2>4. st.nr = EmptyState.nr
        BY <1>5, Zenon DEF InitInitiator, Fields
    <2>5. st.pn = EmptyState.pn
        BY <1>5, Zenon DEF InitInitiator, Fields
    <2>6. st.ckr = EmptyState.ckr
        BY <1>5, Zenon DEF InitInitiator, Fields
    <2>7. st.skipped = EmptyState.skipped
        BY <1>5, Zenon DEF InitInitiator, Fields
    <2> HIDE DEF st
    <2>8. Counted(st)
        BY <1>3, <1>4, <1>5, <2>1, <2>3, <2>4, <2>5, <2>6, <2>7, Zenon DEF Counted
    <2>9. st.cks = [root |-> st.rk, i |-> st.ns]
        BY <1>5, <2>2, <2>3 DEF Chain
    <2>10. st.ns <= 0 /\ st.nr <= MaxSends /\ st.pn <= MaxSends
        BY <1>3, <1>5, <2>3, <2>4, <2>5
    <2> QED
        BY <2>8, <2>9, <2>10, Zenon DEF Numbers, st
<1>7. Numbers(InitResponder(i0, a0, a0, i1), 0)
    <2> DEFINE st == InitResponder(i0, a0, a0, i1)
    <2>1. st = DhRatchet(E, a0, None, i1)
        BY Zenon DEF InitResponder
    <2>2. DOMAIN E = Fields
        BY <1>5, Zenon
    <2>3. E.ns = EmptyState.ns
        BY <1>5, Zenon DEF Fields
    <2>4. E.skipped = EmptyState.skipped
        BY <1>5, Zenon DEF Fields
    <2> HIDE DEF st, E
    <2>5. Counted(st) /\ st.ns = 0 /\ st.nr = 0 /\ st.pn = E.ns /\ st.cks = Chain(st.rk)
        BY <1>3, <1>4, <1>5, <2>1, <2>2, <2>3, <2>4, TurnCounted
    <2>6. st.cks = [root |-> st.rk, i |-> st.ns]
        BY <2>5 DEF Chain
    <2>7. st.ns <= 0 /\ st.nr <= MaxSends /\ st.pn <= MaxSends
        BY <1>3, <1>5, <2>3, <2>5
    <2> QED
        BY <2>5, <2>6, <2>7, Zenon DEF Numbers, st
<1>8. ASSUME NEW p \in Peers PROVE PeerNumbers(ratchet[p], sent[p], sendTask[p], recvTask[p])
    <2>1. p = Accepter \/ p = Inviter
        BY DEF Peers
    <2>2. Numbers(ratchet[p], 0)
        BY <1>2, <1>6, <1>7, <2>1
    <2> QED
        BY <1>2, <1>3, <2>2 DEF PeerNumbers
<1>9. \A p \in Peers : fresh[p] \in 1..MaxTurns
    BY <1>2, <1>3
<1> QED
    BY <1>2, <1>8, <1>9 DEF NumbersInv

\* A step that touches one peer and leaves the network alone.
LEMMA PeerNumbersStep ==
    ASSUME NumbersInv, NEW p \in Peers, net' = net,
           NEW st, ratchet' = [ratchet EXCEPT ![p] = st],
           NEW n, sent' = [sent EXCEPT ![p] = n],
           NEW task, sendTask' = [sendTask EXCEPT ![p] = task],
           NEW rtask, recvTask' = [recvTask EXCEPT ![p] = rtask],
           NEW f \in 1..MaxTurns, fresh' = [fresh EXCEPT ![p] = f],
           PeerNumbers(st, n, task, rtask)
    PROVE  NumbersInv'
<1>1. /\ ratchet = [q \in Peers |-> ratchet[q]] /\ fresh = [q \in Peers |-> fresh[q]]
      /\ sendTask = [q \in Peers |-> sendTask[q]] /\ recvTask = [q \in Peers |-> recvTask[q]]
      /\ sent = [q \in Peers |-> sent[q]]
      /\ \A q \in Peers : PeerNumbers(ratchet[q], sent[q], sendTask[q], recvTask[q])
      /\ \A q \in Peers : fresh[q] \in 1..MaxTurns
      /\ \A m \in net : NumberedWire(m)
    BY DEF NumbersInv
<1>2. /\ ratchet' = [q \in Peers |-> ratchet'[q]] /\ fresh' = [q \in Peers |-> fresh'[q]]
      /\ sendTask' = [q \in Peers |-> sendTask'[q]] /\ recvTask' = [q \in Peers |-> recvTask'[q]]
      /\ sent' = [q \in Peers |-> sent'[q]]
    BY <1>1
<1>3. ASSUME NEW q \in Peers
      PROVE  PeerNumbers(ratchet'[q], sent'[q], sendTask'[q], recvTask'[q])
    <2>1. CASE q = p
        <3>1. ratchet'[q] = st /\ sent'[q] = n /\ sendTask'[q] = task /\ recvTask'[q] = rtask
            BY <1>1, <2>1
        <3> QED
            BY <3>1
    <2>2. CASE q # p
        <3>1. /\ ratchet'[q] = ratchet[q] /\ sent'[q] = sent[q]
              /\ sendTask'[q] = sendTask[q] /\ recvTask'[q] = recvTask[q]
            BY <1>1, <2>2
        <3> QED
            BY <1>1, <3>1
    <2> QED
        BY <2>1, <2>2
<1>4. \A q \in Peers : fresh'[q] \in 1..MaxTurns
    BY <1>1
<1> QED
    BY <1>1, <1>2, <1>3, <1>4 DEF NumbersInv, NumberedWire

LEMMA SendNumbers ==
    ASSUME NumbersInv, NEW p \in Peers,
           SendReads(p) \/ SendPersists(p) \/ SendPublishes(p) \/ SendErrs(p)
    PROVE  NumbersInv'
<1>1. /\ ratchet = [q \in Peers |-> ratchet[q]] /\ fresh = [q \in Peers |-> fresh[q]]
      /\ sendTask = [q \in Peers |-> sendTask[q]] /\ recvTask = [q \in Peers |-> recvTask[q]]
      /\ sent = [q \in Peers |-> sent[q]]
      /\ PeerNumbers(ratchet[p], sent[p], sendTask[p], recvTask[p])
      /\ fresh[p] \in 1..MaxTurns
      /\ \A m \in net : NumberedWire(m)
    BY DEF NumbersInv
<1>2. /\ ratchet = [ratchet EXCEPT ![p] = ratchet[p]] /\ fresh = [fresh EXCEPT ![p] = fresh[p]]
      /\ recvTask = [recvTask EXCEPT ![p] = recvTask[p]] /\ sent = [sent EXCEPT ![p] = sent[p]]
    BY <1>1
<1>3. sent[p] \in Nat /\ sent[p] <= MaxSends /\ MaxSends \in Nat
    BY <1>1, RatchetConstants DEF PeerNumbers
<1>4. CASE SendReads(p)
    <2> DEFINE new == [stage |-> "read", st |-> ratchet[p]]
    <2>1. /\ sent[p] < MaxSends /\ sent' = [sent EXCEPT ![p] = sent[p] + 1]
          /\ sendTask' = [sendTask EXCEPT ![p] = new]
          /\ UNCHANGED <<ratchet, recvTask, fresh, net>>
        BY <1>4 DEF SendReads
    <2>2. Numbers(ratchet[p], sent[p] + 1) /\ ratchet[p].ns < sent[p] + 1
        BY <1>1, <1>3, MoreNumbers DEF PeerNumbers
    <2>3. recvTask[p] # None => Numbers(recvTask[p].st, sent[p] + 1)
        BY <1>1, <1>3, MoreNumbers DEF PeerNumbers
    <2>4. PeerNumbers(ratchet[p], sent[p] + 1, new, recvTask[p])
        BY <1>1, <1>3, <2>1, <2>2, <2>3 DEF PeerNumbers
    <2> HIDE DEF new
    <2> QED
        BY <1>1, <1>2, <2>1, <2>4, PeerNumbersStep
<1>5. CASE SendPersists(p)
    <2> DEFINE new == [sendTask[p] EXCEPT !.stage = "persisted"]
               st == StepSend(sendTask[p].st)
    <2>1. /\ sendTask[p] # None
          /\ sendTask' = [sendTask EXCEPT ![p] = new] /\ ratchet' = [ratchet EXCEPT ![p] = st]
          /\ UNCHANGED <<recvTask, fresh, net, sent>>
        BY <1>5 DEF SendPersists
    <2>2. /\ sendTask[p] = [stage |-> sendTask[p].stage, st |-> sendTask[p].st]
          /\ Numbers(sendTask[p].st, sent[p]) /\ sendTask[p].st.ns < sent[p]
        BY <1>1, <2>1 DEF PeerNumbers
    <2>3. Numbers(st, sent[p])
        BY <1>3, <2>2, StepSendNumbers
    <2>4. new = [stage |-> "persisted", st |-> sendTask[p].st]
        BY <2>2
    <2> HIDE DEF st, new
    <2>5. new.stage = "persisted" /\ new.st = sendTask[p].st /\ new = [stage |-> new.stage, st |-> new.st]
        BY <2>4
    <2>6. PeerNumbers(st, sent[p], new, recvTask[p])
        BY <1>1, <2>2, <2>3, <2>5 DEF PeerNumbers
    <2> QED
        BY <1>1, <1>2, <2>1, <2>6, PeerNumbersStep
<1>6. CASE SendPublishes(p)
    <2> DEFINE s == sendTask[p].st
               w == Sealed(<<p, sent[p]>>, Other(p), HeaderOf(s), s.cks)
    <2>1. /\ sendTask[p] # None /\ net' = net \cup {w} /\ sendTask' = [sendTask EXCEPT ![p] = None]
          /\ UNCHANGED <<ratchet, recvTask, fresh, sent>>
        BY <1>6 DEF SendPublishes
    <2>2. Numbers(s, sent[p]) /\ s.ns < sent[p]
        BY <1>1, <2>1 DEF PeerNumbers
    <2>3. /\ s.ns \in Nat /\ s.pn \in Nat /\ s.cks.i = s.ns
        BY <2>2 DEF Numbers, Counted
    <2>4. w.to = Other(p) /\ w.rh.n = s.ns /\ w.rh.pn = s.pn /\ w.mk.i = s.ns
        BY <2>3 DEF Sealed, HeaderOf, RatchetHeader
    <2> HIDE DEF w, s
    <2>5. NumberedWire(w)
        BY <1>3, <2>2, <2>3, <2>4, PeersDiffer DEF NumberedWire
    <2>6. \A m \in net' : NumberedWire(m)
        BY <1>1, <2>1, <2>5
    <2>7. PeerNumbers(ratchet[p], sent[p], None, recvTask[p])
        BY <1>1 DEF PeerNumbers
    <2>8. /\ sendTask' = [q \in Peers |-> sendTask'[q]]
          /\ \A q \in Peers : sendTask'[q] = IF q = p THEN None ELSE sendTask[q]
        BY <1>1, <2>1
    <2>9. \A q \in Peers : PeerNumbers(ratchet[q], sent[q], sendTask'[q], recvTask[q])
        BY <2>7, <2>8 DEF NumbersInv
    <2>10. \A q \in Peers : fresh[q] \in 1..MaxTurns
        BY DEF NumbersInv
    <2> QED
        BY <1>1, <2>1, <2>6, <2>8, <2>9, <2>10 DEF NumbersInv, NumberedWire
<1>7. CASE SendErrs(p)
    <2>1. /\ sendTask' = [sendTask EXCEPT ![p] = None]
          /\ UNCHANGED <<ratchet, recvTask, fresh, net, sent>>
        BY <1>7 DEF SendErrs
    <2>2. PeerNumbers(ratchet[p], sent[p], None, recvTask[p])
        BY <1>1 DEF PeerNumbers
    <2> QED
        BY <1>1, <1>2, <2>1, <2>2, PeerNumbersStep
<1> QED
    BY <1>4, <1>5, <1>6, <1>7

LEMMA NextNumbers == NumbersInv /\ [Next]_vars => NumbersInv'
<1> SUFFICES ASSUME NumbersInv, [Next]_vars PROVE NumbersInv'
    OBVIOUS
<1>1. /\ ratchet = [q \in Peers |-> ratchet[q]] /\ fresh = [q \in Peers |-> fresh[q]]
      /\ sendTask = [q \in Peers |-> sendTask[q]] /\ recvTask = [q \in Peers |-> recvTask[q]]
      /\ sent = [q \in Peers |-> sent[q]]
      /\ \A p \in Peers : PeerNumbers(ratchet[p], sent[p], sendTask[p], recvTask[p])
      /\ \A p \in Peers : fresh[p] \in 1..MaxTurns
      /\ \A m \in net : NumberedWire(m)
    BY DEF NumbersInv
<1>2. \A p \in Peers :
         /\ ratchet = [ratchet EXCEPT ![p] = ratchet[p]] /\ fresh = [fresh EXCEPT ![p] = fresh[p]]
         /\ recvTask = [recvTask EXCEPT ![p] = recvTask[p]] /\ sent = [sent EXCEPT ![p] = sent[p]]
         /\ sendTask = [sendTask EXCEPT ![p] = sendTask[p]]
    BY <1>1
<1>3. ASSUME NEW p \in Peers, NEW m \in net, RecvAdvances(p, m) PROVE NumbersInv'
    <2> DEFINE r == StepRecv(ratchet[p], m.rh, <<p, fresh[p] + 1>>)
               f == IF r.turned THEN fresh[p] + 1 ELSE fresh[p]
               new == [stage |-> "opened", m |-> m, st |-> r.st]
    <2>1. /\ r.ok /\ r.mk = m.mk /\ recvTask' = [recvTask EXCEPT ![p] = new]
          /\ fresh' = [fresh EXCEPT ![p] = f] /\ (r.turned => fresh[p] < MaxTurns)
          /\ UNCHANGED <<ratchet, sendTask, sent, net>>
        BY <1>3 DEF RecvAdvances, Clone, Opens
    <2>2. f \in 1..MaxTurns
        BY <1>1, <2>1, RatchetConstants
    <2>3. NumberedWire(m) /\ PeerNumbers(ratchet[p], sent[p], sendTask[p], recvTask[p])
        BY <1>1
    <2> HIDE DEF r, f
    <2>4. Numbers(r.st, sent[p])
        <3>1. sent[p] \in Nat /\ sent[p] <= MaxSends /\ Numbers(ratchet[p], sent[p])
            BY <2>3 DEF PeerNumbers
        <3>2. m.rh.n \in Nat /\ m.rh.pn \in Nat /\ m.mk.i \in Nat /\ m.mk.i < MaxSends
            BY <2>3 DEF NumberedWire
        <3> QED
            BY <2>1, <3>1, <3>2, StepRecvNumbers DEF r
    <2>5. PeerNumbers(ratchet[p], sent[p], sendTask[p], new)
        BY <2>3, <2>4 DEF PeerNumbers
    <2> HIDE DEF new
    <2> QED
        BY <1>2, <2>1, <2>2, <2>5, PeerNumbersStep
<1>4. ASSUME NEW p \in Peers, NEW m \in net, RecvRejects(p, m) PROVE NumbersInv'
    <2>1. /\ ratchet' = [ratchet EXCEPT ![p] = ratchet[p]]
          /\ UNCHANGED <<sendTask, recvTask, fresh, net, sent>>
        BY <1>4 DEF RecvRejects, AfterReject
    <2> QED
        BY <1>1, <1>2, <2>1, PeerNumbersStep
<1>5. ASSUME NEW p \in Peers, RecvStores(p) PROVE NumbersInv'
    <2> DEFINE new == [recvTask[p] EXCEPT !.stage = "stored"]
    <2>1. /\ recvTask[p] # None /\ recvTask' = [recvTask EXCEPT ![p] = new]
          /\ UNCHANGED <<ratchet, sendTask, fresh, net, sent>>
        BY <1>5 DEF RecvStores
    <2>2. PeerNumbers(ratchet[p], sent[p], sendTask[p], recvTask[p])
        BY <1>1
    <2>3. recvTask[p] = [stage |-> recvTask[p].stage, m |-> recvTask[p].m, st |-> recvTask[p].st]
        BY <2>1, <2>2 DEF PeerNumbers
    <2>4. new = [stage |-> "stored", m |-> recvTask[p].m, st |-> recvTask[p].st]
        BY <2>3
    <2> HIDE DEF new
    <2>5. /\ new = [stage |-> new.stage, m |-> new.m, st |-> new.st]
          /\ new.stage = "stored" /\ new.st = recvTask[p].st
        BY <2>4
    <2>6. PeerNumbers(ratchet[p], sent[p], sendTask[p], new)
        BY <2>1, <2>2, <2>5 DEF PeerNumbers
    <2> QED
        BY <1>1, <1>2, <2>1, <2>6, PeerNumbersStep
<1>6. ASSUME NEW p \in Peers, RecvCommits(p) PROVE NumbersInv'
    <2> DEFINE st == recvTask[p].st
    <2>1. /\ recvTask[p] # None /\ recvTask' = [recvTask EXCEPT ![p] = None]
          /\ ratchet' = [ratchet EXCEPT ![p] = st]
          /\ UNCHANGED <<sendTask, fresh, net, sent>>
        BY <1>6 DEF RecvCommits
    <2>2. PeerNumbers(ratchet[p], sent[p], sendTask[p], recvTask[p])
        BY <1>1
    <2>3. PeerNumbers(st, sent[p], sendTask[p], None)
        BY <2>1, <2>2 DEF PeerNumbers
    <2> HIDE DEF st
    <2> QED
        BY <1>1, <1>2, <2>1, <2>3, PeerNumbersStep
<1>7. ASSUME NEW p \in Peers, RecvErrs(p) \/ Crash(p) PROVE NumbersInv'
    <2> DEFINE task == IF RecvErrs(p) THEN sendTask[p] ELSE None
    <2>1. /\ sendTask' = [sendTask EXCEPT ![p] = task]
          /\ recvTask' = [recvTask EXCEPT ![p] = None]
          /\ UNCHANGED <<ratchet, fresh, net, sent>>
        BY <1>2, <1>7 DEF RecvErrs, Crash
    <2>2. PeerNumbers(ratchet[p], sent[p], task, None)
        BY <1>1 DEF PeerNumbers
    <2> HIDE DEF task
    <2>3. ratchet' = [ratchet EXCEPT ![p] = ratchet[p]] /\ sent' = [sent EXCEPT ![p] = sent[p]]
        BY <1>2, <2>1
    <2>4. fresh' = [fresh EXCEPT ![p] = fresh[p]] /\ fresh[p] \in 1..MaxTurns
        BY <1>1, <1>2, <2>1
    <2> QED
        BY <2>1, <2>2, <2>3, <2>4, PeerNumbersStep
<1>8. ASSUME WeekPasses PROVE NumbersInv'
    <2>1. /\ UNCHANGED <<sendTask, recvTask, fresh, net, sent>>
          /\ ratchet' = [p \in Peers |-> ratchet'[p]]
          /\ \A p \in Peers : ratchet'[p] = [ratchet[p] EXCEPT !.skipped =
                                [j \in DOMAIN @ |-> [@[j] EXCEPT !.aged = TRUE]]]
        BY <1>8 DEF WeekPasses
    <2>2. ASSUME NEW p \in Peers
          PROVE  PeerNumbers(ratchet'[p], sent[p], sendTask[p], recvTask[p])
        <3>1. PeerNumbers(ratchet[p], sent[p], sendTask[p], recvTask[p])
            BY <1>1
        <3>2. Numbers(ratchet[p], sent[p])
            BY <3>1 DEF PeerNumbers
        <3>3. Numbers(ratchet'[p], sent[p])
            BY <2>1, <3>2, AgedNumbers
        <3> QED
            BY <3>1, <3>3 DEF PeerNumbers
    <2> QED
        BY <1>1, <2>1, <2>2 DEF NumbersInv, NumberedWire
<1>9. CASE UNCHANGED vars
    BY <1>1, <1>9 DEF vars, NumbersInv, NumberedWire
<1> QED
    BY <1>3, <1>4, <1>5, <1>6, <1>7, <1>8, <1>9, SendNumbers DEF Next

\* The counters agree with the chains they count, no message key is looked for
\* beyond what was sent, and the stash keeps to MAX_SKIPPED_KEYS, with tasks
\* overlapping or not: whatever state a task holds was right when it was read.
THEOREM RatchetTypeOK == Spec => []TypeOK
<1>1. NumbersInv => TypeOK
    <2> SUFFICES ASSUME NumbersInv PROVE TypeOK
        OBVIOUS
    <2>1. \A m \in net : m.to \in Peers /\ m.rh.n = m.mk.i
        BY DEF NumbersInv, NumberedWire
    <2>2. ASSUME NEW p \in Peers
          PROVE  /\ ratchet[p].ns \in 0..MaxSends /\ ratchet[p].nr \in 0..MaxSends
                 /\ ratchet[p].pn \in 0..MaxSends
                 /\ ratchet[p].cks = [root |-> ratchet[p].rk, i |-> ratchet[p].ns]
                 /\ ratchet[p].ckr # None => ratchet[p].ckr.i = ratchet[p].nr
                 /\ Len(ratchet[p].skipped) <= MAX_SKIPPED_KEYS
                 /\ fresh[p] \in 1..MaxTurns
                 /\ sendTask[p] # None => sendTask[p].stage \in {"read", "persisted"}
                 /\ recvTask[p] # None => recvTask[p].stage \in {"opened", "stored"}
        <3>1. PeerNumbers(ratchet[p], sent[p], sendTask[p], recvTask[p]) /\ fresh[p] \in 1..MaxTurns
            BY DEF NumbersInv
        <3>2. Numbers(ratchet[p], sent[p]) /\ sent[p] \in Nat /\ sent[p] <= MaxSends
            BY <3>1 DEF PeerNumbers
        <3>3. Counted(ratchet[p])
            BY <3>2 DEF Numbers
        <3>4. ratchet[p].ns \in 0..MaxSends
            BY <3>2, <3>3, RatchetConstants DEF Numbers, Counted
        <3>5. ratchet[p].nr \in 0..MaxSends /\ ratchet[p].pn \in 0..MaxSends
            BY <3>2, <3>3, RatchetConstants DEF Numbers, Counted
        <3>6. ratchet[p].ckr # None => ratchet[p].ckr.i = ratchet[p].nr
            BY <3>3 DEF Counted
        <3>7. ratchet[p].cks = [root |-> ratchet[p].rk, i |-> ratchet[p].ns]
            BY <3>2 DEF Numbers
        <3>8. Len(ratchet[p].skipped) <= MAX_SKIPPED_KEYS
            BY <3>3 DEF Counted, Stash
        <3> QED
            BY <3>1, <3>4, <3>5, <3>6, <3>7, <3>8 DEF PeerNumbers
    <2> QED
        BY <2>1, <2>2, Zenon DEF TypeOK
<1> QED
    BY <1>1, InitNumbers, NextNumbers, PTL DEF Spec

-----------------------------------------------------------------------------
(* The two peers stay in step.                                             *)
(*                                                                         *)
(* The turns of the two peers, in the order they were made, have key pairs *)
(* ka[0], ka[1], ... and root keys ro[1], ro[2], ...: the accepter sends on*)
(* the odd chains, the inviter on the even ones, each key pair is new, and *)
(* each root key mixes its pair and the one before into the root before.   *)
(* The history grows when a receive turns, before that receive is written, *)
(* and a crash takes its last chain back.  What is kept is that each peer  *)
(* sends on a chain next to the other's, receives on the one before its own*)
(* at an index the other has reached, and has stored, stashed or evicted   *)
(* every message before that place; the pn of a chain says how many        *)
(* messages the chain before it has.                                       *)


\* The entries of a stash.
Entries(s) == {s[j] : j \in 1..Len(s)}

\* The keys of a stash are those of its entries.
LEMMA EntriesOf ==
    ASSUME NEW s
    PROVE  MksOf(s) = {e.mk : e \in Entries(s)}
    BY DEF MksOf, Entries

\* Eviction adds nothing.
LEMMA EvictedEntries ==
    ASSUME NEW U, NEW s \in Seq(U)
    PROVE  Entries(EvictSkipped(s)) \subseteq Entries(s)
<1> DEFINE young == Retained(s, {e \in Range(s) : ~e.aged})
           over  == IF Len(young) > MAX_SKIPPED_KEYS
                    THEN Len(young) - MAX_SKIPPED_KEYS ELSE 0
           kept  == SubSeq(young, over + 1, Len(young))
<1>1. young \in Seq(U)
    BY RetainedList
<1>2. \A j \in 1..Len(young) : \E i \in 1..Len(s) :
         s[i] = young[j] /\ s[i] \in {e \in Range(s) : ~e.aged}
    BY RetainedList, Zenon
<1>3. EvictSkipped(s) = kept
    BY Zenon DEF EvictSkipped
<1> HIDE DEF young
<1>4. MAX_SKIPPED_KEYS \in Nat /\ Len(young) \in Nat
    BY <1>1, RatchetConstants
<1>5. over \in 0..Len(young)
    BY <1>4
<1> HIDE DEF over
<1>6. /\ Len(kept) = Len(young) - over
      /\ \A x \in 1..Len(kept) : kept[x] = young[over + x]
    BY <1>1, <1>4, <1>5
<1> HIDE DEF kept
<1>7. SUFFICES ASSUME NEW x \in 1..Len(kept) PROVE kept[x] \in Entries(s)
    BY <1>3 DEF Entries
<1>8. over + x \in 1..Len(young) /\ kept[x] = young[over + x]
    BY <1>4, <1>5, <1>6
<1> QED
    BY <1>2, <1>8 DEF Entries

\* What skip_message_keys stashes of the chain R of the key pair dh.
Early(dh, R, from, count) ==
    {[dh |-> dh, n |-> x, aged |-> FALSE, mk |-> [root |-> R, i |-> x]] : x \in from..from + count - 1}

\* skip_message_keys moves the chain on: the keys it passes are stashed or were evicted,
\* and no key that was known is forgotten otherwise.
LEMMA SkipStash ==
    ASSUME NEW st, Counted(st), NEW R, st.ckr = [root |-> R, i |-> st.nr], st.ckr # None,
           NEW until \in Nat, NEW t, t = SkipMessageKeys(st, until),
           NEW count, count = IF until > st.nr THEN until - st.nr ELSE 0
    PROVE  /\ t.nr = st.nr + count /\ t.ckr = [root |-> R, i |-> t.nr]
           /\ t.dhr = st.dhr
           /\ Entries(t.skipped) \subseteq Entries(st.skipped) \cup Early(st.dhr, R, st.nr, count)
           /\ MksOf(st.skipped) \cup st.lost \subseteq MksOf(t.skipped) \cup t.lost
           /\ \A x \in st.nr..st.nr + count - 1 :
                 [root |-> R, i |-> x] \in MksOf(t.skipped) \cup t.lost
<1> DEFINE keys  == [j \in 1..count |->
                       [dh |-> st.dhr, n |-> st.nr + j - 1, aged |-> FALSE,
                        mk |-> [st.ckr EXCEPT !.i = @ + j - 1]]]
           all   == st.skipped \o keys
           kept  == EvictSkipped(all)
           lost  == st.lost \cup (MksOf(all) \ MksOf(kept))
           ckr   == [st.ckr EXCEPT !.i = @ + count]
<1>1. t = [st EXCEPT !.skipped = kept, !.lost = lost, !.ckr = ckr, !.nr = @ + count]
    BY Zenon DEF SkipMessageKeys
<1>2. st.nr \in Nat /\ count \in Nat /\ DOMAIN st = Fields
    BY DEF Counted
<1>3. ckr = [root |-> R, i |-> st.nr + count]
    <2> HIDE DEF keys, all, kept, lost
    <2> QED
        OBVIOUS
<1>4. keys = [j \in 1..count |-> [dh |-> st.dhr, n |-> st.nr + j - 1, aged |-> FALSE,
                                  mk |-> [root |-> R, i |-> st.nr + j - 1]]]
    <2>1. \A j \in 1..count : [st.ckr EXCEPT !.i = @ + j - 1] = [root |-> R, i |-> st.nr + j - 1]
        OBVIOUS
    <2> QED
        BY <2>1, Zenon
<1> HIDE DEF keys, all, kept, lost, ckr
<1>5. t.nr = st.nr + count
    BY <1>1, <1>2, Zenon DEF Fields
<1>6. t.ckr = ckr
    BY <1>1, <1>2, Zenon DEF Fields
<1>7. t.dhr = st.dhr
    BY <1>1, <1>2, Zenon DEF Fields
<1>8. t.skipped = kept
    BY <1>1, <1>2, Zenon DEF Fields
<1>9. t.lost = lost
    BY <1>1, <1>2, Zenon DEF Fields
<1>10. PICK U : st.skipped \in Seq(U)
    BY DEF Counted, Stash
<1> DEFINE V == U \cup {keys[j] : j \in 1..count}
<1>11. st.skipped \in Seq(V) /\ keys \in Seq(V) /\ Len(keys) = count
    <2>1. keys \in [1..count -> V]
        BY <1>2, <1>4
    <2> HIDE DEF V
    <2>2. keys \in Seq(V) /\ Len(keys) = count
        BY <1>2, <2>1
    <2>3. U \subseteq V
        BY DEF V
    <2> QED
        BY <1>10, <2>2, <2>3
<1> HIDE DEF V
<1>12. /\ all \in Seq(V) /\ Len(all) = Len(st.skipped) + count
       /\ \A x \in 1..Len(st.skipped) : all[x] = st.skipped[x]
       /\ \A x \in 1..count : all[Len(st.skipped) + x] = keys[x]
    BY <1>2, <1>11 DEF all
<1>13. Entries(all) = Entries(st.skipped) \cup Entries(keys)
    <2>1. Len(st.skipped) \in Nat
        BY <1>11
    <2>2. \A x \in 1..Len(all) : \/ x \in 1..Len(st.skipped)
                                 \/ x - Len(st.skipped) \in 1..count /\ x = Len(st.skipped) + (x - Len(st.skipped))
        BY <1>2, <1>12, <2>1
    <2>3. \A x \in 1..Len(st.skipped) : x \in 1..Len(all)
        BY <1>2, <1>12, <2>1
    <2>4. \A x \in 1..count : Len(st.skipped) + x \in 1..Len(all)
        BY <1>2, <1>12, <2>1
    <2>5. Entries(all) \subseteq Entries(st.skipped) \cup Entries(keys)
        <3> SUFFICES ASSUME NEW x \in 1..Len(all)
                     PROVE  all[x] \in Entries(st.skipped) \cup Entries(keys)
            BY Zenon DEF Entries
        <3>1. CASE x \in 1..Len(st.skipped)
            BY <1>12, <3>1 DEF Entries
        <3>2. CASE x - Len(st.skipped) \in 1..count /\ x = Len(st.skipped) + (x - Len(st.skipped))
            <4> DEFINE y == x - Len(st.skipped)
            <4>1. y \in 1..Len(keys) /\ x = Len(st.skipped) + y
                BY <1>11, <3>2
            <4> HIDE DEF y
            <4>2. all[x] = keys[y]
                BY <1>11, <1>12, <4>1
            <4> QED
                BY <4>1, <4>2 DEF Entries
        <3> QED
            BY <2>2, <3>1, <3>2
    <2>6. Entries(st.skipped) \subseteq Entries(all)
        BY <1>12, <2>3, Zenon DEF Entries
    <2>7. Entries(keys) \subseteq Entries(all)
        <3> SUFFICES ASSUME NEW x \in 1..count PROVE keys[x] \in Entries(all)
            BY <1>11 DEF Entries
        <3>1. keys[x] = all[Len(st.skipped) + x] /\ Len(st.skipped) + x \in 1..Len(all)
            BY <1>12, <2>4
        <3> QED
            BY <3>1, Zenon DEF Entries
    <2> QED
        BY <2>5, <2>6, <2>7
<1>14. Entries(keys) = Early(st.dhr, R, st.nr, count)
    <2>1. Entries(keys) \subseteq Early(st.dhr, R, st.nr, count)
        <3> SUFFICES ASSUME NEW j \in 1..count PROVE keys[j] \in Early(st.dhr, R, st.nr, count)
            BY <1>11 DEF Entries
        <3>1. st.nr + j - 1 \in st.nr..st.nr + count - 1
            BY <1>2
        <3>2. keys[j] = [dh |-> st.dhr, n |-> st.nr + j - 1, aged |-> FALSE,
                         mk |-> [root |-> R, i |-> st.nr + j - 1]]
            BY <1>4
        <3> QED
            BY <3>1, <3>2, Zenon DEF Early
    <2>2. Early(st.dhr, R, st.nr, count) \subseteq Entries(keys)
        <3> SUFFICES ASSUME NEW x \in st.nr..st.nr + count - 1
                     PROVE  [dh |-> st.dhr, n |-> x, aged |-> FALSE, mk |-> [root |-> R, i |-> x]]
                               \in Entries(keys)
            BY DEF Early
        <3>1. x - st.nr + 1 \in 1..count /\ st.nr + (x - st.nr + 1) - 1 = x
            BY <1>2
        <3>2. keys[x - st.nr + 1] = [dh |-> st.dhr, n |-> x, aged |-> FALSE, mk |-> [root |-> R, i |-> x]]
            BY <1>4, <3>1
        <3> QED
            BY <1>11, <3>1, <3>2, Zenon DEF Entries
    <2> QED
        BY <2>1, <2>2
<1>15. Entries(kept) \subseteq Entries(all)
    BY <1>12, EvictedEntries DEF kept
<1>16. MksOf(all) \cup st.lost = MksOf(kept) \cup lost
    <2>1. MksOf(kept) \subseteq MksOf(all)
        BY <1>15, EntriesOf
    <2> QED
        BY <2>1 DEF lost
<1>17. MksOf(st.skipped) \subseteq MksOf(all)
    BY <1>13, EntriesOf
<1>18. ASSUME NEW x \in st.nr..st.nr + count - 1
       PROVE  [root |-> R, i |-> x] \in MksOf(all)
    <2> DEFINE e == [dh |-> st.dhr, n |-> x, aged |-> FALSE, mk |-> [root |-> R, i |-> x]]
    <2>1. e \in Entries(all)
        BY <1>13, <1>14, Zenon DEF Early
    <2>2. e.mk = [root |-> R, i |-> x]
        OBVIOUS
    <2> HIDE DEF e
    <2> QED
        BY <2>1, <2>2, EntriesOf
<1>19. t.ckr = [root |-> R, i |-> t.nr]
    BY <1>3, <1>5, <1>6
<1>20. Entries(t.skipped) \subseteq Entries(st.skipped) \cup Early(st.dhr, R, st.nr, count)
    BY <1>8, <1>13, <1>14, <1>15
<1>21. MksOf(st.skipped) \cup st.lost \subseteq MksOf(t.skipped) \cup t.lost
    BY <1>8, <1>9, <1>16, <1>17
<1>22. \A x \in st.nr..st.nr + count - 1 :
                 [root |-> R, i |-> x] \in MksOf(t.skipped) \cup t.lost
    BY <1>8, <1>9, <1>16, <1>18
<1> QED
    BY <1>5, <1>7, <1>19, <1>20, <1>21, <1>22

\* The fields a receive uses, in the state t that follows a turn of st.
FacingTurn(st, dh, ss, t) ==
    /\ t.dhr = dh /\ t.ckr = Chain(KdfRk(st.rk, {st.dhs, dh}, ss))
    /\ t.nr = 0 /\ t.pn = st.ns /\ t.skipped = st.skipped /\ t.lost = st.lost

\* What dh_ratchet does to the receiving side.
LEMMA TurnReceiving ==
    ASSUME NEW st, DOMAIN st = Fields, NEW dh, NEW ss, NEW k
    PROVE  FacingTurn(st, dh, ss, DhRatchet(st, dh, ss, k))
<1> DEFINE t == DhRatchet(st, dh, ss, k)
<1>1. t.dhr = dh
    BY Zenon DEF DhRatchet, Fields
<1>2. t.ckr = Chain(KdfRk(st.rk, {st.dhs, dh}, ss))
    BY Zenon DEF DhRatchet, Fields
<1>3. t.nr = 0
    BY Zenon DEF DhRatchet, Fields
<1>4. t.pn = st.ns
    BY Zenon DEF DhRatchet, Fields
<1>5. t.skipped = st.skipped
    BY Zenon DEF DhRatchet, Fields
<1>6. t.lost = st.lost
    BY Zenon DEF DhRatchet, Fields
<1> QED
    BY <1>1, <1>2, <1>3, <1>4, <1>5, <1>6, Zenon DEF FacingTurn

\* What a receive finds in the stash, and the states it goes through otherwise.
Hits(st, h) == {j \in 1..Len(st.skipped) : st.skipped[j].dh = h.dh /\ st.skipped[j].n = h.n}

Closed(st, h) ==
    SkipMessageKeys([st EXCEPT !.peerKem = IF h.kem_pub # None THEN h.kem_pub ELSE @], h.pn)

Facing(st, h, k) ==
    IF st.dhr # h.dh
    THEN DhRatchet(Closed(st, h), h.dh,
                   IF h.kem_ct # None THEN Decapsulate(st.kem, h.kem_ct) ELSE None, k)
    ELSE st

Reached(st, h, k) == SkipMessageKeys(Facing(st, h, k), h.n)

\* A key is taken out of the stash, or the next key of the chain is used up.
Unstashed(st, x, t) == t = [st EXCEPT !.skipped = RemoveAt(st.skipped, x)]
UsesKey(u, t) == t = [u EXCEPT !.ckr = NextKey(u.ckr), !.nr = u.nr + 1]

\* The outcomes of ratchet_step_recv.
OpensStashed(st, h, r) ==
    \E x \in Hits(st, h) :
        r.ok /\ r.mk = st.skipped[x].mk /\ ~r.turned /\ Unstashed(st, x, r.st)

OpensNext(st, h, k, r) ==
    /\ r.ok /\ Hits(st, h) = {} /\ r.mk = Reached(st, h, k).ckr /\ r.turned = (st.dhr # h.dh)
    /\ Reached(st, h, k).ckr # None
    /\ UsesKey(Reached(st, h, k), r.st)

OpensNot(st, h, k, r) ==
    /\ ~r.ok /\ Hits(st, h) = {}
    /\ \/ r.why = "max skip"
       \/ st.dhr # h.dh /\ h.kem_ct = None
       \/ Reached(st, h, k).ckr = None

\* A receive takes a stashed key, or the next of the chain it reaches, or fails.
LEMMA StepRecvCases ==
    ASSUME NEW st, DOMAIN st = Fields, Len(st.skipped) \in Nat,
           NEW h, NEW k, NEW r, r = StepRecv(st, h, k)
    PROVE  OpensStashed(st, h, r) \/ OpensNext(st, h, k, r) \/ OpensNot(st, h, k, r)
<1> DEFINE stashed  == {j \in 1..Len(st.skipped) :
                          st.skipped[j].dh = h.dh /\ st.skipped[j].n = h.n}
           newEpoch == st.dhr # h.dh
           oldSkip  == IF newEpoch /\ h.pn > st.nr THEN h.pn - st.nr ELSE 0
           newStart == IF newEpoch THEN 0 ELSE st.nr
           newSkip  == IF h.n > newStart THEN h.n - newStart ELSE 0
           kemSs    == IF h.kem_ct # None THEN Decapsulate(st.kem, h.kem_ct) ELSE None
           adopted  == [st EXCEPT !.peerKem = IF h.kem_pub # None THEN h.kem_pub ELSE @]
           closed   == SkipMessageKeys(adopted, h.pn)
           turned   == IF newEpoch THEN DhRatchet(closed, h.dh, kemSs, k) ELSE st
           skipped  == SkipMessageKeys(turned, h.n)
           first    == CHOOSE x \in stashed : \A y \in stashed : x <= y
           left     == [st EXCEPT !.skipped = RemoveAt(st.skipped, first)]
           key      == st.skipped[first].mk
           next     == [skipped EXCEPT !.ckr = NextKey(@), !.nr = @ + 1]
           ckr      == skipped.ckr
           fromStash == [ok |-> TRUE, mk |-> key, turned |-> FALSE, st |-> left]
           fromChain == [ok |-> TRUE, mk |-> ckr, turned |-> newEpoch, st |-> next]
<1>1. r = IF stashed # {} THEN fromStash
          ELSE IF oldSkip + newSkip > MAX_SKIP THEN Failed("max skip")
          ELSE IF newEpoch /\ h.kem_ct = None /\ st.peerKem # None THEN Failed("downgrade")
          ELSE IF ckr = None THEN Failed("no receiving chain")
          ELSE fromChain
    BY Zenon DEF StepRecv
<1>2. \A w : Failed(w).ok = FALSE /\ Failed(w).why = w
    BY DEF Failed
<1>3. stashed = Hits(st, h)
    BY Zenon DEF Hits
<1>4. skipped = Reached(st, h, k)
    BY Zenon DEF Reached, Facing, Closed
<1>5. CASE stashed # {} /\ r = fromStash
    <2>1. stashed \in SUBSET Nat
        OBVIOUS
    <2>2. \E x \in stashed : \A y \in stashed : x <= y
        BY <1>5, <2>1, LeastNat
    <2>3. first \in stashed
        <3> HIDE DEF stashed
        <3> QED
            BY <2>2
    <2>4. left = [st EXCEPT !.skipped = RemoveAt(st.skipped, first)] /\ key = st.skipped[first].mk
        OBVIOUS
    <2> HIDE DEF left, key, first, stashed
    <2>5. r.ok = TRUE /\ r.mk = key /\ r.turned = FALSE /\ r.st = left
        BY <1>5
    <2> QED
        BY <1>3, <2>3, <2>4, <2>5, Zenon DEF OpensStashed, Unstashed
<1>6. CASE stashed = {} /\ ckr # None /\ r = fromChain
    <2>1. next = [Reached(st, h, k) EXCEPT !.ckr = NextKey(@), !.nr = @ + 1] /\ ckr = Reached(st, h, k).ckr
        BY <1>4, Zenon
    <2> HIDE DEF next, ckr, newEpoch, stashed
    <2>2. r.ok = TRUE /\ r.mk = ckr /\ r.turned = newEpoch /\ r.st = next
        BY <1>6 DEF newEpoch
    <2>3. Hits(st, h) = {}
        BY <1>3, <1>6
    <2> QED
        BY <1>6, <2>1, <2>2, <2>3, Zenon DEF newEpoch, OpensNext, UsesKey
<1>7. ckr = Reached(st, h, k).ckr
    BY <1>4, Zenon
<1> HIDE DEF stashed, oldSkip, newSkip, ckr, fromStash, fromChain
<1>8. CASE stashed = {} /\ r = Failed("max skip")
    BY <1>2, <1>3, <1>8, Zenon DEF OpensNot
<1>9. CASE stashed = {} /\ newEpoch /\ h.kem_ct = None /\ r = Failed("downgrade")
    BY <1>2, <1>3, <1>9, Zenon DEF OpensNot
<1>10. CASE stashed = {} /\ ckr = None /\ r = Failed("no receiving chain")
    BY <1>2, <1>3, <1>7, <1>10, Zenon DEF OpensNot
<1> QED
    BY <1>1, <1>5, <1>6, <1>8, <1>9, <1>10, Zenon

-----------------------------------------------------------------------------
(* The history of the turns: the chains of both peers in the order they    *)
(* came into being, each on a key pair drawn for it.                       *)

\* The chain st sends on, and the one w is on, by number.
Epoch(st) == Len(st.rk)
ChainNo(w) == Len(w.mk.root)

\* The ciphertext on the j-th chain: to the key pair it answers.
Encapsulated(ka, j) == IF j = 1 THEN None ELSE [to |-> ka[j - 1], ss |-> ka[j]]

\* The j-th chain is that of the key pair ka[j] and the root key ro[j]; the two
\* peers take turns, and no key pair comes twice.
History(ka, ro, T, drawn) ==
    /\ T \in Nat /\ ka \in [Nat -> KeyPairs] /\ ro \in [Nat -> Seq(Inputs)]
    /\ \A j \in 0..T : ka[j][2] <= drawn[ka[j][1]]
    /\ \A i, j \in 0..T : ka[i] = ka[j] => i = j
    /\ \A j \in 1..T : Len(ro[j]) = j
    /\ \A j \in 2..T : ro[j] = KdfRk(ro[j - 1], {ka[j - 1], ka[j]}, ka[j])

\* The keys in a stash are those of the first c chains.
Entry(e) == e = [dh |-> e.dh, n |-> e.n, aged |-> e.aged, mk |-> e.mk]
EntryOn(ka, ro, e, c) ==
    LET j == ChainNo(e)
    IN  /\ j \in 1..c /\ e.n \in Nat /\ e.dh = ka[j] /\ e.mk = [root |-> ro[j], i |-> e.n]
        /\ Entry(e)
StashOn(ka, ro, s, c) == \A e \in Entries(s) : EntryOn(ka, ro, e, c)

\* A state that sends on one chain of the history and receives on the one before.
On(ka, ro, st) ==
    LET c == Epoch(st)
    IN  /\ c \in Nat \ {0}
        /\ st.rk = ro[c] /\ st.dhs = ka[c] /\ st.kem = ka[c]
        /\ st.sendCt = Encapsulated(ka, c) /\ st.dhr = ka[c - 1]
        /\ IF c = 1 THEN st.ckr = None
                    ELSE st.ckr = [root |-> ro[c - 1], i |-> st.nr] /\ st.ckr # None
        /\ StashOn(ka, ro, st.skipped, c - 1)

\* A wire of one of the first d chains.
WireOn(ka, ro, m, d) ==
    LET j == ChainNo(m)
    IN  /\ j \in 1..d /\ m.rh.n \in Nat /\ m.rh.pn \in Nat
        /\ m.mk = [root |-> ro[j], i |-> m.rh.n]
        /\ m.rh.dh = ka[j] /\ m.rh.kem_pub = ka[j] /\ m.rh.kem_ct = Encapsulated(ka, j)

-----------------------------------------------------------------------------
(* What skip_message_keys and a turn make of a state on that history.      *)

\* Wires on chains before the one st receives on, or before the index it expects.
Behind(w, st) ==
    LET j == ChainNo(w)
    IN  j < Epoch(st) - 1 \/ (j = Epoch(st) - 1 /\ w.rh.n < st.nr)

\* Stashed keys are on the chain they were derived from.
LEMMA EarlyOn ==
    ASSUME NEW ka, NEW ro, NEW T, NEW f, History(ka, ro, T, f), NEW b \in 1..T,
           NEW x \in Nat, b <= x, NEW from \in Nat, NEW count \in Nat
    PROVE  \A e \in Early(ka[b], ro[b], from, count) : EntryOn(ka, ro, e, x)
<1> SUFFICES ASSUME NEW n \in from..from + count - 1, NEW e,
                    e = [dh |-> ka[b], n |-> n, aged |-> FALSE, mk |-> [root |-> ro[b], i |-> n]]
             PROVE  EntryOn(ka, ro, e, x)
    BY DEF Early
<1>1. Len(ro[b]) = b /\ T \in Nat
    BY DEF History
<1>2. e.dh = ka[b] /\ e.n = n /\ e.mk = [root |-> ro[b], i |-> n] /\ ChainNo(e) = b
    BY <1>1 DEF ChainNo
<1>3. n \in Nat /\ b \in 1..x
    BY <1>1
<1>4. Entry(e)
    BY DEF Entry
<1> QED
    BY <1>1, <1>2, <1>3, <1>4 DEF EntryOn

\* A stash stays one when the chains grow.
LEMMA EntriesGrow ==
    ASSUME NEW ka, NEW ro, NEW s, NEW a \in Nat, NEW b \in Nat, a <= b, StashOn(ka, ro, s, a)
    PROVE  StashOn(ka, ro, s, b)
<1> SUFFICES ASSUME NEW e \in Entries(s) PROVE EntryOn(ka, ro, e, b)
    BY DEF StashOn
<1>1. EntryOn(ka, ro, e, a)
    BY DEF StashOn
<1>2. 1..a \subseteq 1..b
    OBVIOUS
<1> QED
    BY <1>1, <1>2 DEF EntryOn

\* u is st after it caught up with chain b.
Caught(ka, ro, b, st, u) ==
    /\ u.nr \in Nat /\ u.ckr = [root |-> ro[b], i |-> u.nr] /\ u.dhr = ka[b]
    /\ StashOn(ka, ro, u.skipped, b)
    /\ MksOf(st.skipped) \cup st.lost \subseteq MksOf(u.skipped) \cup u.lost

\* The keys from x to y of chain b are stashed or lost.
Derived(ro, b, x, y, u) ==
    \A n \in x..y - 1 : [root |-> ro[b], i |-> n] \in MksOf(u.skipped) \cup u.lost

\* Catching up within the chain.
LEMMA CatchUp ==
    ASSUME NEW ka, NEW ro, NEW T, NEW f, History(ka, ro, T, f), NEW b \in 1..T,
           NEW st, Counted(st), st.ckr = [root |-> ro[b], i |-> st.nr], st.ckr # None,
           st.dhr = ka[b], StashOn(ka, ro, st.skipped, b),
           NEW n \in Nat, NEW u, u = SkipMessageKeys(st, n)
    PROVE  /\ Caught(ka, ro, b, st, u)
           /\ u.nr = IF n > st.nr THEN n ELSE st.nr
           /\ Derived(ro, b, st.nr, n, u)
<1> DEFINE count == IF n > st.nr THEN n - st.nr ELSE 0
           R == ro[b]
<1>1. st.nr \in Nat /\ b \in Nat /\ T \in Nat
    BY DEF Counted, History
<1>2. count \in Nat
    BY <1>1
<1>3. /\ u.nr = st.nr + count /\ u.ckr = [root |-> R, i |-> u.nr] /\ u.dhr = st.dhr
      /\ Entries(u.skipped) \subseteq Entries(st.skipped) \cup Early(st.dhr, R, st.nr, count)
      /\ MksOf(st.skipped) \cup st.lost \subseteq MksOf(u.skipped) \cup u.lost
      /\ \A x \in st.nr..st.nr + count - 1 :
            [root |-> R, i |-> x] \in MksOf(u.skipped) \cup u.lost
    <2> HIDE DEF R
    <2>1. st.ckr = [root |-> R, i |-> st.nr]
        BY DEF R
    <2> QED
        BY <2>1, SkipStash
<1>4. StashOn(ka, ro, u.skipped, b)
    <2>1. \A e \in Early(ka[b], R, st.nr, count) : EntryOn(ka, ro, e, b)
        BY <1>1, <1>2, EarlyOn
    <2> HIDE DEF R, count
    <2> QED
        BY <1>3, <2>1 DEF StashOn
<1>5. \A x \in st.nr..n - 1 : x \in st.nr..st.nr + count - 1
    BY <1>1
<1>6. u.nr = IF n > st.nr THEN n ELSE st.nr
    BY <1>1, <1>3
<1>7. Derived(ro, b, st.nr, n, u)
    <2> HIDE DEF count
    <2> QED
        BY <1>3, <1>5 DEF Derived
<1>8. u.nr \in Nat
    BY <1>1, <1>6
<1>9. Caught(ka, ro, b, st, u)
    BY <1>3, <1>4, <1>8 DEF Caught
<1> QED
    BY <1>6, <1>7, <1>9

\* A chain key is something.
LEMMA ChainKeySome ==
    ASSUME NEW R \in Seq(Inputs), NEW n \in Nat
    PROVE  [root |-> R, i |-> n] # None
    BY RatchetConstants DEF ChainKeys

\* Receiving on the chain received on before.
LEMMA Within ==
    ASSUME NEW ka, NEW ro, NEW T, NEW f, History(ka, ro, T, f),
           NEW st, Counted(st), On(ka, ro, st), NEW c \in Nat, c = Epoch(st), 1 < c, c <= T,
           NEW h, h.dh = ka[c - 1], h.n \in Nat, NEW k, NEW u, u = Reached(st, h, k)
    PROVE  /\ Caught(ka, ro, c - 1, st, u)
           /\ u.nr = IF h.n > st.nr THEN h.n ELSE st.nr
           /\ Derived(ro, c - 1, st.nr, h.n, u)
<1>1. /\ c \in Nat /\ st.dhr = ka[c - 1] /\ StashOn(ka, ro, st.skipped, c - 1)
      /\ IF c = 1 THEN st.ckr = None
         ELSE st.ckr = [root |-> ro[c - 1], i |-> st.nr] /\ st.ckr # None
    BY DEF On
<1>2. T \in Nat
    BY DEF History
<1>3. c - 1 \in 1..T /\ c # 1
    BY <1>2
<1>4. st.ckr = [root |-> ro[c - 1], i |-> st.nr] /\ st.ckr # None
    BY <1>1, <1>3
<1>5. u = SkipMessageKeys(st, h.n)
    BY <1>1, Zenon DEF Reached, Facing
<1> DEFINE b == c - 1
<1>6. /\ b \in 1..T /\ st.dhr = ka[b] /\ StashOn(ka, ro, st.skipped, b)
      /\ st.ckr = [root |-> ro[b], i |-> st.nr] /\ st.ckr # None
    BY <1>1, <1>4, <1>3
<1> HIDE DEF b
<1>7. Caught(ka, ro, b, st, u) /\ u.nr = (IF h.n > st.nr THEN h.n ELSE st.nr)
      /\ Derived(ro, b, st.nr, h.n, u)
    BY <1>5, <1>6, CatchUp
<1> QED
    BY <1>7 DEF b

\* The receiving chain is closed up to n.
LEMMA Closing ==
    ASSUME NEW ka, NEW ro, NEW T, NEW f, History(ka, ro, T, f),
           NEW st, Counted(st), On(ka, ro, st), NEW c \in Nat, c = Epoch(st), 1 <= c, c <= T,
           NEW h, h.pn \in Nat, NEW u, u = Closed(st, h)
    PROVE  /\ Counted(u) /\ u.ns = st.ns /\ u.rk = st.rk /\ u.dhs = st.dhs
           /\ StashOn(ka, ro, u.skipped, c - 1)
           /\ MksOf(st.skipped) \cup st.lost \subseteq MksOf(u.skipped) \cup u.lost
           /\ c > 1 => Derived(ro, c - 1, st.nr, h.pn, u)
<1> DEFINE a == [st EXCEPT !.peerKem = IF h.kem_pub # None THEN h.kem_pub ELSE @]
<1>1. DOMAIN st = Fields
    BY DEF Counted
<1>2. u = SkipMessageKeys(a, h.pn)
    BY Zenon DEF Closed
<1>3. /\ DOMAIN a = Fields /\ a.ns = st.ns /\ a.nr = st.nr /\ a.pn = st.pn
      /\ a.ckr = st.ckr /\ a.skipped = st.skipped
    BY <1>1, Zenon DEF Fields
<1>4. a.rk = st.rk /\ a.dhs = st.dhs /\ a.dhr = st.dhr /\ a.lost = st.lost
    BY <1>1, Zenon DEF Fields
<1> HIDE DEF a
<1>5. Counted(a)
    BY <1>3, Zenon DEF Counted
<1>6. Counted(u) /\ u.ns = st.ns
    BY ZenonT(60), <1>2, <1>3, <1>5, SkipCounted
<1>7. u.rk = st.rk /\ u.dhs = st.dhs
    BY <1>2, <1>3, <1>4, SkipFields
<1>8. /\ c \in Nat \ {0} /\ st.dhr = ka[c - 1] /\ StashOn(ka, ro, st.skipped, c - 1)
      /\ IF c = 1 THEN st.ckr = None
         ELSE st.ckr = [root |-> ro[c - 1], i |-> st.nr] /\ st.ckr # None
    BY DEF On
<1>9. c \in Nat \ {0}
    BY <1>8
<1>10. CASE c = 1
    <2>1. u = a
        BY <1>2, <1>3, <1>8, <1>10, Zenon DEF SkipMessageKeys
    <2> QED
        BY <1>3, <1>4, <1>6, <1>7, <1>8, <1>10, <2>1
<1>11. CASE c > 1
    <2> DEFINE b == c - 1
    <2>1. b \in 1..T
        BY <1>8, <1>11 DEF History
    <2>2. c # 1
        BY <1>9, <1>11
    <2>3. st.ckr = [root |-> ro[b], i |-> st.nr] /\ st.ckr # None
        BY <1>8, <2>2
    <2>4. st.dhr = ka[b] /\ StashOn(ka, ro, st.skipped, b)
        BY <1>8
    <2>5. /\ a.dhr = ka[b] /\ StashOn(ka, ro, a.skipped, b)
          /\ a.ckr = [root |-> ro[b], i |-> a.nr] /\ a.ckr # None
        <3> HIDE DEF b
        <3> QED
            BY <1>3, <1>4, <2>3, <2>4
    <2> HIDE DEF b
    <2>6. Caught(ka, ro, b, a, u) /\ Derived(ro, b, a.nr, h.pn, u)
        BY <1>2, <1>5, <2>1, <2>5, CatchUp
    <2>7. StashOn(ka, ro, u.skipped, b)
          /\ MksOf(a.skipped) \cup a.lost \subseteq MksOf(u.skipped) \cup u.lost
        BY <2>6 DEF Caught
    <2> QED
        BY <1>3, <1>4, <1>6, <1>7, <2>6, <2>7 DEF b
<1> QED
    BY <1>9, <1>10, <1>11

\* Receiving on the peer's next chain, turning on its key.
LEMMA Across ==
    ASSUME NEW ka, NEW ro, NEW T, NEW f, History(ka, ro, T, f),
           NEW st, Counted(st), On(ka, ro, st), NEW c \in Nat, c = Epoch(st), 1 <= c, c + 1 <= T,
           NEW h, h.dh = ka[c + 1], h.kem_ct = Encapsulated(ka, c + 1),
           h.n \in Nat, h.pn \in Nat, NEW k, NEW u, u = Reached(st, h, k)
    PROVE  /\ st.dhr # h.dh
           /\ h.kem_ct # None /\ Decapsulate(st.kem, h.kem_ct) = ka[c + 1]
           /\ Caught(ka, ro, c + 1, st, u) /\ u.nr = h.n /\ u.pn = st.ns /\ Counted(u)
           /\ Derived(ro, c + 1, 0, h.n, u)
           /\ c > 1 => Derived(ro, c - 1, st.nr, h.pn, u)
<1>1. /\ c \in Nat \ {0} /\ st.rk = ro[c] /\ st.dhs = ka[c] /\ st.kem = ka[c]
      /\ st.dhr = ka[c - 1]
    BY DEF On
<1>2. T \in Nat /\ c \in 1..T /\ c + 1 \in 1..T /\ c - 1 \in 0..T /\ c + 1 \in 0..T /\ c \in 0..T
    <2>1. T \in Nat
        BY DEF History
    <2> QED
        BY <2>1
<1>3. ka[c - 1] # ka[c + 1]
    <2>1. c - 1 # c + 1
        BY <1>1
    <2> QED
        BY <1>2, <2>1 DEF History
<1>4. h.kem_ct = [to |-> ka[c], ss |-> ka[c + 1]]
    <2>1. c + 1 # 1 /\ (c + 1) - 1 = c
        BY <1>1
    <2> QED
        BY <2>1 DEF Encapsulated
<1>5. ka[c] \in KeyPairs /\ ka[c + 1] \in KeyPairs
    BY <1>2 DEF History
<1>6. h.kem_ct # None
    BY <1>4, <1>5, RatchetConstants DEF Ciphertexts
<1>7. Decapsulate(st.kem, h.kem_ct) = ka[c + 1]
    <2> DEFINE ct == h.kem_ct
    <2>1. ct = [to |-> ka[c], ss |-> ka[c + 1]] /\ st.kem = ka[c]
        BY <1>1, <1>4
    <2> HIDE DEF ct
    <2>2. ct.to = ka[c] /\ ct.ss = ka[c + 1] /\ st.kem = ka[c]
        BY <2>1, Zenon
    <2>3. Decapsulate(st.kem, ct) = ka[c + 1]
        BY <2>2, Zenon DEF Decapsulate
    <2> QED
        BY <2>3 DEF ct
<1> DEFINE v == Closed(st, h)
           ss == ka[c + 1]
           w == DhRatchet(v, h.dh, ss, k)
           b == c + 1
<1>8. Facing(st, h, k) = w
    BY <1>1, <1>3, <1>6, <1>7, Zenon DEF Facing
<1>9. u = SkipMessageKeys(w, h.n)
    BY <1>8, Zenon DEF Reached
<1>10. /\ Counted(v) /\ v.ns = st.ns /\ v.rk = st.rk /\ v.dhs = st.dhs
       /\ StashOn(ka, ro, v.skipped, c - 1)
       /\ MksOf(st.skipped) \cup st.lost \subseteq MksOf(v.skipped) \cup v.lost
       /\ c > 1 => Derived(ro, c - 1, st.nr, h.pn, v)
    BY <1>2, Closing
<1> HIDE DEF v
<1>11. DOMAIN v = Fields /\ v.ns \in Nat /\ Stash(v.skipped)
    BY <1>10 DEF Counted
<1>12. /\ w.dhr = h.dh /\ w.ckr = Chain(KdfRk(v.rk, {v.dhs, h.dh}, ss))
       /\ w.nr = 0 /\ w.pn = v.ns /\ w.skipped = v.skipped /\ w.lost = v.lost
    <2> DEFINE e == h.dh
    <2> HIDE DEF ss, e
    <2>1. FacingTurn(v, e, ss, DhRatchet(v, e, ss, k))
        BY <1>11, TurnReceiving
    <2> QED
        BY <2>1, Zenon DEF FacingTurn, e
<1>13. Counted(w)
    <2> HIDE DEF ss, w
    <2>1. w = DhRatchet(v, h.dh, ss, k)
        BY DEF w
    <2> QED
        BY <1>11, <2>1, TurnCounted
<1> HIDE DEF w
<1>14. KdfRk(v.rk, {v.dhs, h.dh}, ss) = ro[b]
    <2>1. b \in 2..T /\ b - 1 = c
        BY <1>1, <1>2
    <2>2. ro[b] = KdfRk(ro[b - 1], {ka[b - 1], ka[b]}, ka[b])
        BY <2>1 DEF History
    <2> QED
        BY <1>1, <1>10, <2>1, <2>2
<1>15. w.ckr = [root |-> ro[b], i |-> w.nr] /\ w.ckr # None
    <2>1. ro[b] \in Seq(Inputs)
        BY <1>2 DEF History
    <2>2. w.ckr = [root |-> ro[b], i |-> 0]
        BY <1>12, <1>14 DEF Chain
    <2>3. [root |-> ro[b], i |-> 0] # None
        BY <2>1, ChainKeySome
    <2> QED
        BY <1>12, <2>2, <2>3
<1>16. StashOn(ka, ro, w.skipped, b)
    <2>1. c - 1 \in Nat /\ b \in Nat /\ c - 1 <= b
        BY <1>1
    <2> HIDE DEF b
    <2> QED
        BY <1>10, <1>12, <2>1, EntriesGrow
<1>17. b \in 1..T /\ w.dhr = ka[b]
    BY <1>2, <1>12
<1> HIDE DEF b, ss
<1>18. /\ Caught(ka, ro, b, w, u) /\ u.nr = (IF h.n > w.nr THEN h.n ELSE w.nr)
       /\ Derived(ro, b, w.nr, h.n, u)
    BY <1>9, <1>13, <1>15, <1>16, <1>17, CatchUp
<1>19. u.nr = h.n /\ Derived(ro, b, 0, h.n, u)
    BY <1>12, <1>18
<1>20. MksOf(v.skipped) \cup v.lost \subseteq MksOf(u.skipped) \cup u.lost
    BY <1>12, <1>18 DEF Caught
<1>21. Caught(ka, ro, b, st, u)
    BY <1>10, <1>18, <1>20 DEF Caught
<1>22. c > 1 => Derived(ro, c - 1, st.nr, h.pn, u)
    BY <1>10, <1>20 DEF Derived
<1>23. u.pn = st.ns
    BY ZenonT(60), <1>9, <1>10, <1>12, <1>13, SkipCounted
<1>24. Counted(u)
    BY <1>9, <1>13, SkipCounted
<1> QED
    BY <1>1, <1>3, <1>6, <1>7, <1>19, <1>21, <1>22, <1>23, <1>24 DEF b

\* The chains up to n are the same in both histories.
SameUpTo(n, ka, ro, kb, rp) ==
    (\A j \in 0..n : ka[j] = kb[j]) /\ (\A j \in 1..n : ro[j] = rp[j])

\* What holds of the chains up to n holds in any history that agrees up to n.
LEMMA EncapsulatedSame ==
    ASSUME NEW n \in Nat, NEW ka, NEW ro, NEW kb, NEW rp, SameUpTo(n, ka, ro, kb, rp),
           NEW j \in 1..n
    PROVE  Encapsulated(ka, j) = Encapsulated(kb, j)
<1>1. j \in 0..n /\ j - 1 \in 0..n
    OBVIOUS
<1>2. ka[j] = kb[j] /\ ka[j - 1] = kb[j - 1]
    BY <1>1 DEF SameUpTo
<1> QED
    BY <1>2, Zenon DEF Encapsulated

\* The same of a stash ...
LEMMA StashSame ==
    ASSUME NEW n \in Nat, NEW ka, NEW ro, NEW kb, NEW rp, SameUpTo(n, ka, ro, kb, rp),
           NEW s, NEW c \in 0..n, StashOn(ka, ro, s, c)
    PROVE  StashOn(kb, rp, s, c)
<1> SUFFICES ASSUME NEW e \in Entries(s) PROVE EntryOn(kb, rp, e, c)
    BY DEF StashOn
<1> DEFINE j == ChainNo(e)
<1>1. j \in 1..c /\ e.n \in Nat /\ e.dh = ka[j] /\ e.mk = [root |-> ro[j], i |-> e.n]
      /\ Entry(e)
    BY DEF StashOn, EntryOn
<1> HIDE DEF j
<1>2. j \in 0..n /\ j \in 1..n
    BY <1>1
<1>3. ka[j] = kb[j] /\ ro[j] = rp[j]
    BY <1>2 DEF SameUpTo
<1> QED
    BY <1>1, <1>3 DEF EntryOn, j

\* ... of a state ...
LEMMA OnSame ==
    ASSUME NEW n \in Nat, NEW ka, NEW ro, NEW kb, NEW rp, SameUpTo(n, ka, ro, kb, rp),
           NEW st, On(ka, ro, st), Epoch(st) <= n
    PROVE  On(kb, rp, st)
<1> DEFINE c == Epoch(st)
<1>1. /\ c \in Nat \ {0}
      /\ st.rk = ro[c] /\ st.dhs = ka[c] /\ st.kem = ka[c]
      /\ st.sendCt = Encapsulated(ka, c) /\ st.dhr = ka[c - 1]
      /\ IF c = 1 THEN st.ckr = None
                  ELSE st.ckr = [root |-> ro[c - 1], i |-> st.nr] /\ st.ckr # None
      /\ StashOn(ka, ro, st.skipped, c - 1)
    BY DEF On
<1>2. c <= n
    OBVIOUS
<1> HIDE DEF c
<1>3. c \in 1..n /\ c \in 0..n /\ c - 1 \in 0..n /\ (c # 1 => c - 1 \in 1..n)
    BY <1>1, <1>2
<1>4. ka[c] = kb[c] /\ ro[c] = rp[c] /\ ka[c - 1] = kb[c - 1]
    BY <1>3 DEF SameUpTo
<1>5. c # 1 => ro[c - 1] = rp[c - 1]
    BY <1>3 DEF SameUpTo
<1>6. Encapsulated(ka, c) = Encapsulated(kb, c)
    BY <1>3, EncapsulatedSame
<1>7. StashOn(kb, rp, st.skipped, c - 1)
    BY <1>1, <1>3, StashSame
<1>8. IF c = 1 THEN st.ckr = None
               ELSE st.ckr = [root |-> rp[c - 1], i |-> st.nr] /\ st.ckr # None
    BY <1>1, <1>5, Zenon
<1>9. st.rk = rp[c] /\ st.dhs = kb[c] /\ st.kem = kb[c] /\ st.sendCt = Encapsulated(kb, c)
      /\ st.dhr = kb[c - 1]
    BY <1>1, <1>4, <1>6, Zenon
<1> QED
    BY <1>1, <1>7, <1>8, <1>9, Zenon DEF On, c

\* ... and of a wire.
LEMMA WireSame ==
    ASSUME NEW n \in Nat, NEW ka, NEW ro, NEW kb, NEW rp, SameUpTo(n, ka, ro, kb, rp),
           NEW m, NEW d \in 0..n, WireOn(ka, ro, m, d)
    PROVE  WireOn(kb, rp, m, d)
<1> DEFINE j == ChainNo(m)
<1>1. /\ j \in 1..d /\ m.rh.n \in Nat /\ m.rh.pn \in Nat
      /\ m.mk = [root |-> ro[j], i |-> m.rh.n]
      /\ m.rh.dh = ka[j] /\ m.rh.kem_pub = ka[j] /\ m.rh.kem_ct = Encapsulated(ka, j)
    BY DEF WireOn
<1> HIDE DEF j
<1>2. j \in 0..n /\ j \in 1..n
    BY <1>1
<1>3. ka[j] = kb[j] /\ ro[j] = rp[j]
    BY <1>2 DEF SameUpTo
<1>4. Encapsulated(ka, j) = Encapsulated(kb, j)
    BY <1>2, EncapsulatedSame
<1> QED
    BY <1>1, <1>3, <1>4 DEF WireOn, j

\* p draws the key pair k.
Draws(f, p, k, g) == k = <<p, f[p] + 1>> /\ g = [f EXCEPT ![p] = f[p] + 1]

\* The next turn of p, on the chain after the n-th.
LEMMA NextTurn ==
    ASSUME NEW f \in [Peers -> Nat], NEW p \in Peers, NEW k, NEW g, Draws(f, p, k, g),
           NEW ka, NEW ro, NEW T, History(ka, ro, T, f), NEW n \in Nat, 1 <= n, n <= T,
           NEW t, t = n + 1
    PROVE  \E kb, rp : /\ History(kb, rp, t, g) /\ SameUpTo(n, ka, ro, kb, rp)
                       /\ kb[t] = k /\ rp[t] = KdfRk(ro[n], {ka[n], k}, k)
<1> DEFINE kb == [ka EXCEPT ![t] = k]
           R  == KdfRk(ro[n], {ka[n], k}, k)
           rp == [ro EXCEPT ![t] = R]
<1>1. /\ T \in Nat /\ ka \in [Nat -> KeyPairs] /\ ro \in [Nat -> Seq(Inputs)]
      /\ \A j \in 0..T : ka[j][2] <= f[ka[j][1]]
      /\ \A i, j \in 0..T : ka[i] = ka[j] => i = j
      /\ \A j \in 1..T : Len(ro[j]) = j
      /\ \A j \in 2..T : ro[j] = KdfRk(ro[j - 1], {ka[j - 1], ka[j]}, ka[j])
    BY DEF History
<1>2. T \in Nat
    BY <1>1
<1>3. k \in KeyPairs /\ k[1] = p /\ k[2] = f[p] + 1 /\ f[p] \in Nat
    BY DEF KeyPairs, Draws
<1>4. R \in Seq(Inputs) /\ Len(R) = n + 1
    <2> DEFINE x == [dh |-> {ka[n], k}, kem |-> k]
    <2>1. n \in 1..T
        BY <1>2
    <2>2. ka[n] \in KeyPairs /\ ro[n] \in Seq(Inputs)
        BY <1>1
    <2>3. Len(ro[n]) = n
        BY <1>1, <2>1
    <2>4. x \in Inputs
        BY <1>3, <2>2 DEF Inputs, Secrets
    <2>5. R = Append(ro[n], x)
        BY Zenon DEF KdfRk
    <2> HIDE DEF x, R
    <2> QED
        BY <2>2, <2>3, <2>4, <2>5
<1>5. t \in Nat /\ t = n + 1
    OBVIOUS
<1> HIDE DEF R
<1>6. /\ kb \in [Nat -> KeyPairs] /\ rp \in [Nat -> Seq(Inputs)]
      /\ kb[t] = k /\ rp[t] = R
      /\ \A j \in 0..n : kb[j] = ka[j] /\ rp[j] = ro[j]
    <2>1. kb \in [Nat -> KeyPairs] /\ kb[t] = k /\ \A j \in Nat : j # t => kb[j] = ka[j]
        BY <1>1, <1>3, <1>5
    <2>2. rp \in [Nat -> Seq(Inputs)] /\ rp[t] = R /\ \A j \in Nat : j # t => rp[j] = ro[j]
        BY <1>1, <1>4, <1>5
    <2>3. \A j \in 0..n : j \in Nat /\ j # t
        BY <1>5
    <2> QED
        BY <2>1, <2>2, <2>3
<1> HIDE DEF kb, rp
<1>7. \A j \in 0..t : j \in 0..n \/ j = t
    BY <1>5
<1>8. 0..n \subseteq 0..T /\ 1..n \subseteq 0..n /\ 1..n \subseteq 1..T /\ n \in 0..n
    BY <1>2
<1>9. SameUpTo(n, ka, ro, kb, rp)
    BY <1>6, <1>8 DEF SameUpTo
<1>10. g \in [Peers -> Nat] /\ g[p] = f[p] + 1 /\ \A q \in Peers : f[q] <= g[q]
    BY <1>3 DEF Draws
<1>11. ASSUME NEW j \in 0..n PROVE ka[j] \in KeyPairs /\ ka[j] # k /\ ka[j][2] <= g[ka[j][1]]
    <2>1. j \in Nat /\ j \in 0..T
        BY <1>8
    <2>2. ka[j] \in KeyPairs /\ ka[j][2] <= f[ka[j][1]]
        BY <1>1, <2>1
    <2>3. ka[j][1] \in Peers /\ ka[j][2] \in Nat
        BY <2>2 DEF KeyPairs
    <2>4. ka[j][2] <= g[ka[j][1]]
        <3> DEFINE q == ka[j][1]
        <3>1. f[q] \in Nat /\ g[q] \in Nat /\ f[q] <= g[q] /\ ka[j][2] <= f[q]
            BY <1>10, <2>2, <2>3
        <3> HIDE DEF q
        <3>2. ka[j][2] <= g[q]
            BY <2>3, <3>1
        <3> QED
            BY <3>2 DEF q
    <2>5. ka[j] # k
        <3> SUFFICES ASSUME ka[j] = k PROVE FALSE
            OBVIOUS
        <3>1. f[p] + 1 <= f[p]
            BY <1>3, <2>2
        <3> QED
            BY <1>3, <3>1
    <2> QED
        BY <2>2, <2>4, <2>5
<1>12. \A j \in 0..t : kb[j][2] <= g[kb[j][1]]
    <2>1. kb[t][2] <= g[kb[t][1]]
        <3>1. kb[t][2] = f[p] + 1 /\ kb[t][1] = p
            BY <1>3, <1>6
        <3> QED
            BY <1>3, <1>10, <3>1
    <2> QED
        BY <1>6, <1>7, <1>11, <2>1
<1>13. \A i, j \in 0..t : kb[i] = kb[j] => i = j
    <2> SUFFICES ASSUME NEW i \in 0..t, NEW j \in 0..t, kb[i] = kb[j] PROVE i = j
        OBVIOUS
    <2>1. CASE i \in 0..n /\ j \in 0..n
        BY <1>1, <1>6, <1>8, <2>1
    <2>2. CASE i = t /\ j \in 0..n
        BY <1>6, <1>11, <2>2
    <2>3. CASE j = t /\ i \in 0..n
        BY <1>6, <1>11, <2>3
    <2> QED
        BY <1>7, <2>1, <2>2, <2>3
<1>14. \A j \in 1..t : Len(rp[j]) = j
    <2> SUFFICES ASSUME NEW j \in 1..t PROVE Len(rp[j]) = j
        OBVIOUS
    <2>1. CASE j = t
        BY <1>4, <1>5, <1>6, <2>1
    <2>2. CASE j \in 1..n
        BY <1>1, <1>6, <1>8, <2>2
    <2> QED
        BY <1>5, <2>1, <2>2
<1>15. \A j \in 2..t : rp[j] = KdfRk(rp[j - 1], {kb[j - 1], kb[j]}, kb[j])
    <2> SUFFICES ASSUME NEW j \in 2..t PROVE rp[j] = KdfRk(rp[j - 1], {kb[j - 1], kb[j]}, kb[j])
        OBVIOUS
    <2>1. CASE j = t
        <3>1. j - 1 = n
            BY <1>5, <2>1
        <3>2. rp[n] = ro[n] /\ kb[n] = ka[n]
            BY <1>6, <1>8
        <3> QED
            BY <1>6, <2>1, <3>1, <3>2 DEF R
    <2>2. CASE j \in 2..n
        <3>1. j \in 0..n /\ j - 1 \in 0..n /\ j \in 2..T
            BY <1>1, <2>2
        <3>2. ro[j] = KdfRk(ro[j - 1], {ka[j - 1], ka[j]}, ka[j])
            BY <1>1, <3>1
        <3>3. rp[j] = ro[j] /\ kb[j] = ka[j] /\ rp[j - 1] = ro[j - 1] /\ kb[j - 1] = ka[j - 1]
            BY <1>6, <3>1
        <3> QED
            BY <3>2, <3>3
    <2> QED
        BY <1>5, <2>1, <2>2
<1>16. History(kb, rp, t, g)
    BY <1>5, <1>6, <1>12, <1>13, <1>14, <1>15 DEF History
<1> QED
    BY <1>6, <1>9, <1>16 DEF R

\* The receiving side of t is on chain b.
Receives(ka, ro, b, t) ==
    /\ t.dhr = ka[b] /\ t.ckr = [root |-> ro[b], i |-> t.nr] /\ t.ckr # None
    /\ StashOn(ka, ro, t.skipped, b)

\* t is u after the next key of chain b was used.
After(ka, ro, b, u, t) ==
    /\ t.nr = u.nr + 1 /\ Receives(ka, ro, b, t)
    /\ t.skipped = u.skipped /\ t.lost = u.lost /\ t.pn = u.pn

\* Using that key leaves the state on its chain.
LEMMA Taken ==
    ASSUME NEW ka, NEW ro, NEW b, NEW st, NEW u, Counted(u), Caught(ka, ro, b, st, u),
           ro[b] \in Seq(Inputs), NEW t, UsesKey(u, t)
    PROVE  After(ka, ro, b, u, t)
<1>1. /\ DOMAIN u = Fields /\ u.nr \in Nat
      /\ u.ckr = [root |-> ro[b], i |-> u.nr] /\ u.dhr = ka[b]
    BY DEF Counted, Caught
<1> DEFINE new == NextKey(u.ckr)
<1>2. new = [root |-> ro[b], i |-> u.nr + 1]
    BY <1>1 DEF NextKey
<1>3. t = [u EXCEPT !.ckr = new, !.nr = u.nr + 1]
    BY Zenon DEF UsesKey
<1> HIDE DEF new
<1>4. t.nr = u.nr + 1
    BY <1>1, <1>3, Zenon DEF Fields
<1>5. t.ckr = new
    BY <1>1, <1>3, Zenon DEF Fields
<1>6. t.dhr = u.dhr
    BY <1>1, <1>3, Zenon DEF Fields
<1>7. t.skipped = u.skipped
    BY <1>1, <1>3, Zenon DEF Fields
<1>8. t.lost = u.lost
    BY <1>1, <1>3, Zenon DEF Fields
<1>9. t.pn = u.pn
    BY <1>1, <1>3, Zenon DEF Fields
<1>10. [root |-> ro[b], i |-> u.nr + 1] # None
    BY <1>1, ChainKeySome
<1>11. StashOn(ka, ro, t.skipped, b)
    BY <1>7 DEF Caught
<1> QED
    BY <1>1, <1>2, <1>4, <1>5, <1>6, <1>7, <1>8, <1>9, <1>10, <1>11 DEF After, Receives

\* What t derived, st derived, or lost, or is the key mk.
Keeps(st, t) == MksOf(st.skipped) \cup st.lost \subseteq MksOf(t.skipped) \cup t.lost

\* The stash without its x-th key.
LEMMA RemovedEntries ==
    ASSUME NEW U, NEW s \in Seq(U), NEW x \in 1..Len(s), NEW r, r = RemoveAt(s, x)
    PROVE  /\ Entries(r) \subseteq Entries(s)
           /\ Entries(s) \subseteq Entries(r) \cup {s[x]}
<1> DEFINE a == SubSeq(s, 1, x - 1)
           b == SubSeq(s, x + 1, Len(s))
<1>1. Len(s) \in Nat /\ \A i \in 1..Len(s) : s[i] \in U
    OBVIOUS
<1>2. a \in Seq(U)
    BY <1>1, SubSeqProperties
<1>3. b \in Seq(U)
    BY <1>1, SubSeqProperties
<1>4. /\ Len(a) = x - 1 /\ Len(b) = Len(s) - x
      /\ \A i \in 1..x - 1 : a[i] = s[i]
      /\ \A i \in 1..Len(s) - x : b[i] = s[x + i]
    BY <1>1
<1>5. r = a \o b
    BY Zenon DEF RemoveAt
<1> HIDE DEF a, b
<1>6. /\ Len(r) = Len(s) - 1
      /\ \A i \in 1..x - 1 : r[i] = a[i]
      /\ \A i \in 1..Len(s) - x : r[(x - 1) + i] = b[i]
    <2>1. Len(a \o b) = Len(a) + Len(b)
        BY <1>2, <1>3
    <2>2. \A i \in 1..Len(a) : (a \o b)[i] = a[i]
        BY <1>2, <1>3
    <2>3. \A i \in 1..Len(b) : (a \o b)[Len(a) + i] = b[i]
        BY <1>2, <1>3
    <2>4. Len(r) = Len(s) - 1
        BY <1>1, <1>4, <1>5, <2>1
    <2>5. \A i \in 1..x - 1 : r[i] = a[i]
        BY <1>4, <1>5, <2>2
    <2>6. \A i \in 1..Len(s) - x : r[(x - 1) + i] = b[i]
        BY <1>4, <1>5, <2>3
    <2> QED
        BY <2>4, <2>5, <2>6
<1>7. ASSUME NEW i \in 1..Len(r) PROVE r[i] \in Entries(s)
    <2>1. CASE i < x
        <3>1. i \in 1..x - 1 /\ i \in 1..Len(s)
            BY <1>1, <1>6, <2>1
        <3> QED
            BY <1>4, <1>6, <3>1 DEF Entries
    <2>2. CASE i >= x
        <3>1. i - x + 1 \in 1..Len(s) - x /\ i = (x - 1) + (i - x + 1)
            BY <1>1, <1>6, <2>2
        <3>2. r[i] = b[i - x + 1] /\ b[i - x + 1] = s[x + (i - x + 1)]
            BY <1>4, <1>6, <3>1
        <3>3. x + (i - x + 1) \in 1..Len(s)
            BY <1>1, <3>1
        <3> QED
            BY <3>2, <3>3 DEF Entries
    <2> QED
        BY <1>1, <1>6, <2>1, <2>2
<1>8. ASSUME NEW j \in 1..Len(s), j # x PROVE s[j] \in Entries(r)
    <2>1. CASE j < x
        <3>1. j \in 1..x - 1 /\ j \in 1..Len(r)
            BY <1>1, <1>6, <2>1
        <3> QED
            BY <1>4, <1>6, <3>1, Zenon DEF Entries
    <2>2. CASE j > x
        <3>1. j - x \in 1..Len(s) - x /\ (x - 1) + (j - x) \in 1..Len(r) /\ j = x + (j - x)
            BY <1>1, <1>6, <2>2
        <3>2. r[(x - 1) + (j - x)] = b[j - x] /\ b[j - x] = s[x + (j - x)]
            BY <1>4, <1>6, <3>1
        <3> QED
            BY <3>1, <3>2, Zenon DEF Entries
    <2>3. j \in Int /\ x \in Int
        BY <1>1
    <2>4. j < x \/ j > x
        BY <1>8, <2>3
    <2> QED
        BY <2>1, <2>2, <2>4
<1>9. Entries(r) \subseteq Entries(s)
    BY <1>7, Zenon DEF Entries
<1>10. Entries(s) \subseteq Entries(r) \cup {s[x]}
    BY <1>8 DEF Entries
<1> QED
    BY <1>9, <1>10

\* A key from the stash opened the message.
KeepsBut(st, t, mk) ==
    MksOf(st.skipped) \cup st.lost \subseteq MksOf(t.skipped) \cup t.lost \cup {mk}

\* A key taken from the stash changes nothing else.
LEMMA ReceiveStashed ==
    ASSUME NEW ka, NEW ro, NEW st, DOMAIN st = Fields, Stash(st.skipped), On(ka, ro, st),
           NEW x \in 1..Len(st.skipped),
           NEW t, Unstashed(st, x, t)
    PROVE  /\ On(ka, ro, t) /\ Epoch(t) = Epoch(st) /\ t.cks = st.cks
           /\ t.nr = st.nr /\ t.pn = st.pn /\ KeepsBut(st, t, st.skipped[x].mk)
<1> DEFINE rest == RemoveAt(st.skipped, x)
<1>1. PICK U : st.skipped \in Seq(U)
    BY DEF Stash
<1>2. /\ Entries(rest) \subseteq Entries(st.skipped)
      /\ Entries(st.skipped) \subseteq Entries(rest) \cup {st.skipped[x]}
    BY <1>1, RemovedEntries
<1>3. t = [st EXCEPT !.skipped = rest]
    BY DEF Unstashed
<1> HIDE DEF rest
<1>4. t.rk = st.rk /\ t.cks = st.cks /\ t.dhs = st.dhs
    BY <1>3, Zenon DEF Fields
<1>5. t.kem = st.kem /\ t.sendCt = st.sendCt /\ t.dhr = st.dhr
    BY <1>3, Zenon DEF Fields
<1>6. t.ckr = st.ckr /\ t.nr = st.nr /\ t.pn = st.pn
    BY <1>3, Zenon DEF Fields
<1>7. t.lost = st.lost
    BY <1>3, Zenon DEF Fields
<1>8. t.skipped = rest
    BY <1>3, Zenon DEF Fields
<1>9. Epoch(t) = Epoch(st)
    BY <1>4 DEF Epoch
<1>10. On(ka, ro, t)
    <2>1. \A c : StashOn(ka, ro, st.skipped, c) => StashOn(ka, ro, t.skipped, c)
        BY <1>2, <1>8 DEF StashOn
    <2> QED
        BY <1>4, <1>5, <1>6, <1>9, <2>1, Zenon DEF On
<1>11. MksOf(st.skipped) \subseteq MksOf(rest) \cup {st.skipped[x].mk}
    BY <1>2, EntriesOf
<1> QED
    BY <1>4, <1>6, <1>7, <1>8, <1>9, <1>10, <1>11 DEF KeepsBut

\* A state with the sending side of st and the receiving side of a receive.
LEMMA OnWithin ==
    ASSUME NEW ka, NEW ro, NEW st, On(ka, ro, st), NEW c \in Nat, c = Epoch(st), 1 < c,
           NEW b, b = c - 1, NEW t, SameSending(st, t), Receives(ka, ro, b, t)
    PROVE  On(ka, ro, t) /\ Epoch(t) = c
<1>1. Epoch(t) = c
    BY DEF Epoch, SameSending
<1>2. /\ c \in Nat \ {0} /\ st.rk = ro[c] /\ st.dhs = ka[c] /\ st.kem = ka[c]
      /\ st.sendCt = Encapsulated(ka, c)
    BY DEF On
<1>3. t.rk = ro[c] /\ t.dhs = ka[c] /\ t.kem = ka[c] /\ t.sendCt = Encapsulated(ka, c)
    BY <1>2 DEF SameSending
<1>4. c # 1 /\ c \in Nat \ {0}
    OBVIOUS
<1> QED
    BY <1>1, <1>3, <1>4, Zenon DEF On, Receives

\* The n-th key of chain b.
KeyAt(mk, ro, b, n) == mk = [root |-> ro[b], i |-> n]

\* The message was the next of its chain, or one further on.
LEMMA ReceiveWithin ==
    ASSUME NEW ka, NEW ro, NEW T, NEW f, History(ka, ro, T, f),
           NEW st, Counted(st), On(ka, ro, st), NEW c \in Nat, c = Epoch(st), 1 < c, c <= T,
           NEW b, b = c - 1, NEW h, h.dh = ka[b], h.n \in Nat, NEW k,
           NEW u, u = Reached(st, h, k), KeyAt(u.ckr, ro, b, h.n),
           NEW t, UsesKey(u, t), SameSending(st, t)
    PROVE  /\ On(ka, ro, t) /\ Epoch(t) = c /\ t.nr = h.n + 1 /\ t.pn = st.pn
           /\ h.n >= st.nr /\ Keeps(st, t) /\ Derived(ro, b, st.nr, h.n, t)
<1>1. /\ Caught(ka, ro, b, st, u) /\ u.nr = (IF h.n > st.nr THEN h.n ELSE st.nr)
      /\ Derived(ro, b, st.nr, h.n, u)
    BY Within
<1>2. st.dhr = ka[c - 1]
    BY DEF On
<1>3. u = SkipMessageKeys(st, h.n)
    BY <1>2, Zenon DEF Reached, Facing
<1>4. Counted(u) /\ u.pn = st.pn
    BY <1>3, SkipCounted
<1>5. T \in Nat /\ ro \in [Nat -> Seq(Inputs)]
    BY DEF History
<1>6. b \in Nat /\ b = c - 1
    OBVIOUS
<1>7. ro[b] \in Seq(Inputs)
    BY <1>5, <1>6
<1>8. u.ckr = [root |-> ro[b], i |-> h.n]
    BY DEF KeyAt
<1>9. After(ka, ro, b, u, t)
    BY <1>1, <1>4, <1>7, Taken, Zenon
<1>10. /\ t.nr = u.nr + 1 /\ Receives(ka, ro, b, t)
       /\ t.skipped = u.skipped /\ t.lost = u.lost /\ t.pn = u.pn
    BY <1>9 DEF After
<1>11. u.nr = h.n
    BY <1>1, <1>8 DEF Caught
<1>12. st.nr \in Nat /\ h.n >= st.nr
    BY <1>1, <1>11 DEF Counted
<1>13. Keeps(st, t)
    BY <1>1, <1>10 DEF Caught, Keeps
<1>14. Derived(ro, b, st.nr, h.n, t)
    BY <1>1, <1>10 DEF Derived
<1>15. On(ka, ro, t) /\ Epoch(t) = c
    BY <1>6, <1>10, OnWithin
<1>16. t.nr = h.n + 1 /\ t.pn = st.pn
    BY <1>4, <1>11, <1>10
<1> QED
    BY <1>12, <1>13, <1>14, <1>15, <1>16

\* A state that turned on the n-th chain sends on the next.
TurnedTo(ka, ro, n, k, t) ==
    /\ t.rk = KdfRk(ro[n], {ka[n], k}, k)
    /\ t.dhs = k /\ t.kem = k /\ t.sendCt = [to |-> ka[n], ss |-> k]

\* The chain c that a turn on chain n starts.
NewChainOn(kb, rp, n, c, k) == kb[c] = k /\ rp[c] = KdfRk(rp[n], {kb[n], k}, k)

\* After a turn a state is on the new chain.
LEMMA OnTurned ==
    ASSUME NEW kb, NEW rp, NEW n \in Nat, 1 <= n, NEW c, c = n + 1, NEW g, History(kb, rp, c, g),
           NEW k, NewChainOn(kb, rp, n, c, k),
           NEW t, TurnedTo(kb, rp, n, k, t), Receives(kb, rp, n, t)
    PROVE  On(kb, rp, t) /\ Epoch(t) = c
<1>1. c \in Nat \ {0} /\ c # 1 /\ c - 1 = n /\ c \in 1..c
    OBVIOUS
<1>2. Len(rp[c]) = c
    BY <1>1 DEF History
<1>3. t.rk = rp[c] /\ t.dhs = kb[c] /\ t.kem = kb[c] /\ t.sendCt = [to |-> kb[n], ss |-> kb[c]]
    BY DEF TurnedTo, NewChainOn
<1>4. Epoch(t) = c
    BY <1>2, <1>3 DEF Epoch
<1>5. t.sendCt = Encapsulated(kb, c)
    BY <1>1, <1>3 DEF Encapsulated
<1>6. /\ t.dhr = kb[c - 1] /\ t.ckr = [root |-> rp[c - 1], i |-> t.nr] /\ t.ckr # None
      /\ StashOn(kb, rp, t.skipped, c - 1)
    BY <1>1 DEF Receives
<1>7. On(kb, rp, t)
    BY <1>1, <1>3, <1>4, <1>5, <1>6, Zenon DEF On
<1> QED
    BY <1>4, <1>7

\* The message was on the peer's next chain: a turn.
LEMMA ReceiveAcross ==
    ASSUME NEW f \in [Peers -> Nat], NEW p \in Peers, NEW k, NEW g, Draws(f, p, k, g),
           NEW ka, NEW ro, NEW T, History(ka, ro, T, f),
           NEW st, Counted(st), On(ka, ro, st), NEW c \in Nat, c = Epoch(st), 1 <= c, c + 1 <= T,
           NEW h, h.dh = ka[c + 1], h.kem_ct = Encapsulated(ka, c + 1), h.kem_pub = ka[c + 1],
           h.n \in Nat, h.pn \in Nat, NEW u, u = Reached(st, h, k),
           NEW t, UsesKey(u, t), Turned(st, h, k, t)
    PROVE  /\ \E kb, rp : /\ History(kb, rp, c + 2, g) /\ SameUpTo(c + 1, ka, ro, kb, rp)
                          /\ On(kb, rp, t)
           /\ Epoch(t) = c + 2 /\ t.nr = h.n + 1 /\ t.pn = st.ns
           /\ Keeps(st, t) /\ Derived(ro, c + 1, 0, h.n, t)
           /\ c > 1 => Derived(ro, c - 1, st.nr, h.pn, t)
<1> DEFINE n == c + 1
           e == c + 2
<1>1. /\ h.kem_ct # None /\ Decapsulate(st.kem, h.kem_ct) = ka[n]
      /\ Caught(ka, ro, n, st, u) /\ u.nr = h.n /\ u.pn = st.ns /\ Counted(u)
      /\ Derived(ro, n, 0, h.n, u)
      /\ c > 1 => Derived(ro, c - 1, st.nr, h.pn, u)
    BY Across
<1>2. n \in Nat /\ 1 <= n /\ n <= T /\ n = c + 1 /\ e = n + 1 /\ e = c + 2
    OBVIOUS
<1>3. T \in Nat /\ ka \in [Nat -> KeyPairs] /\ ro \in [Nat -> Seq(Inputs)]
    BY DEF History
<1>4. n \in 2..T /\ n - 1 = c
    <2>1. T \in Nat
        BY <1>3
    <2> QED
        BY <1>2, <2>1
<1>5. ro[n] = KdfRk(ro[n - 1], {ka[n - 1], ka[n]}, ka[n])
    BY <1>4 DEF History
<1>6. ro[n] \in Seq(Inputs) /\ ka[n] \in KeyPairs
    <2> HIDE DEF n
    <2> QED
        BY <1>2, <1>3
<1>7. ka[n] # None
    BY <1>6, RatchetConstants
<1>8. st.rk = ro[c] /\ st.dhs = ka[c]
    BY DEF On
<1>9. h.dh = ka[n] /\ h.kem_pub = ka[n]
    OBVIOUS
<1> HIDE DEF n, e
<1>10. TurnedTo(ka, ro, n, k, t)
    <2>1. /\ t.rk = KdfRk(KdfRk(st.rk, {st.dhs, ka[n]}, ka[n]), {k, ka[n]}, k)
          /\ t.dhs = k /\ t.kem = k /\ t.sendCt = [to |-> ka[n], ss |-> k]
        BY <1>1, <1>7, <1>9, Zenon DEF Turned
    <2>2. KdfRk(st.rk, {st.dhs, ka[n]}, ka[n]) = ro[n]
        BY <1>4, <1>5, <1>8
    <2>3. {k, ka[n]} = {ka[n], k}
        OBVIOUS
    <2> QED
        BY <2>1, <2>2, <2>3, Zenon DEF TurnedTo
<1>11. After(ka, ro, n, u, t)
    BY <1>1, <1>6, Taken
<1>12. /\ t.nr = u.nr + 1 /\ Receives(ka, ro, n, t)
       /\ t.skipped = u.skipped /\ t.lost = u.lost /\ t.pn = u.pn
    BY <1>11 DEF After
<1>13. PICK kb, rp : /\ History(kb, rp, e, g) /\ SameUpTo(n, ka, ro, kb, rp)
                     /\ kb[e] = k /\ rp[e] = KdfRk(ro[n], {ka[n], k}, k)
    BY SMTT(30), <1>2, NextTurn
<1>14. kb[n] = ka[n] /\ rp[n] = ro[n]
    <2>1. n \in 0..n /\ n \in 1..n
        BY <1>2
    <2> QED
        BY <1>13, <2>1 DEF SameUpTo
<1>15. StashOn(kb, rp, t.skipped, n)
    <2>1. n \in 0..n /\ StashOn(ka, ro, t.skipped, n)
        BY <1>2, <1>12 DEF Receives
    <2> QED
        BY <1>2, <1>13, <2>1, StashSame
<1>16. Receives(kb, rp, n, t) /\ TurnedTo(kb, rp, n, k, t)
    BY <1>10, <1>12, <1>14, <1>15 DEF Receives, TurnedTo
<1>17. On(kb, rp, t) /\ Epoch(t) = e
    <2>1. NewChainOn(kb, rp, n, e, k)
        BY <1>13, <1>14 DEF NewChainOn
    <2> QED
        BY <1>2, <1>13, <1>16, <2>1, OnTurned
<1>18. Keeps(st, t)
    BY <1>1, <1>12 DEF Caught, Keeps
<1>19. Derived(ro, n, 0, h.n, t) /\ (c > 1 => Derived(ro, c - 1, st.nr, h.pn, t))
    BY <1>1, <1>12 DEF Derived
<1>20. t.nr = h.n + 1 /\ t.pn = st.ns
    BY <1>1, <1>12
<1>21. \E kb_, rp_ : History(kb_, rp_, e, g) /\ SameUpTo(n, ka, ro, kb_, rp_) /\ On(kb_, rp_, t)
    BY <1>13, <1>17, Zenon
<1> QED
    BY <1>2, <1>17, <1>18, <1>19, <1>20, <1>21, Zenon

-----------------------------------------------------------------------------
(* Where one peer is, seen from the other.                                 *)

\* Every wire to p before the place st is at was stored, is stashed, was evicted,
\* or is in M.
Accounted(p, st, N, cv, M) ==
    \A w \in N : w.to = p /\ Behind(w, st) =>
        w.id \in cv \/ w.mk \in MksOf(st.skipped) \cup st.lost \/ w \in M

\* pn counts what p sent on the chain before the one it sends on.
Announced(p, st, N) ==
    \A w \in N : w.to = Other(p) /\ ChainNo(w) = Epoch(st) - 2 => w.rh.n < st.pn

\* The other peer is on chain d, its next index being i.
Follows(ka, ro, T, p, st, d, i, N, cv, M) ==
    /\ On(ka, ro, st) /\ Epoch(st) <= T /\ st.nr \in Nat
    /\ d = Epoch(st) - 1 => st.nr <= i
    /\ Accounted(p, st, N, cv, M)
    /\ Announced(p, st, N)

\* A send of a state that is at the same turn.
SameEpoch(t, st) ==
    /\ t.rk = st.rk /\ t.dhs = st.dhs /\ t.kem = st.kem
    /\ t.sendCt = st.sendCt /\ t.pn = st.pn

\* The state a receive will write is at the same turn, or at p's next.
Nearby(st, t, d) ==
    \/ Epoch(t) = Epoch(st) /\ t.cks = st.cks
    \/ Epoch(t) = Epoch(st) + 2 /\ d = Epoch(st) + 1

\* Of two peers in step each is one chain from the other.
Next2(c, d) == d = c - 1 \/ d = c + 1

\* p, at st on disk, is in step with the other peer, on chain d at index i: the tasks
\* of p hold states of the same turn, or of the next that the other peer's turn allows.
InStep(ka, ro, T, p, st, task, rtask, cv, N, d, i) ==
    /\ d \in Nat /\ i \in Nat /\ Next2(Epoch(st), d)
    /\ Follows(ka, ro, T, p, st, d, i, N, cv, {})
    /\ task # None => SameEpoch(task.st, st)
    /\ rtask # None => /\ Follows(ka, ro, T, p, rtask.st, d, i, N, cv, {rtask.m})
                       /\ Nearby(st, rtask.st, d)
                       /\ rtask.stage = "stored" => rtask.m.id \in cv
    /\ \A w \in N : w.to = Other(p) => WireOn(ka, ro, w, Epoch(st))

\* pn covers the chain its sender left.
Ordered(N) ==
    \A w, m \in N : w.to = m.to /\ ChainNo(w) = ChainNo(m) - 2 => w.rh.n < m.rh.pn

\* The other peer's index moves up.
LEMMA FollowsLater ==
    ASSUME NEW ka, NEW ro, NEW T, NEW p, NEW st, NEW d, NEW i \in Nat, NEW N, NEW cv, NEW M,
           Follows(ka, ro, T, p, st, d, i, N, cv, M), NEW j \in Nat, i <= j
    PROVE  Follows(ka, ro, T, p, st, d, j, N, cv, M)
<1>1. st.nr \in Nat /\ (d = Epoch(st) - 1 => st.nr <= i)
    BY DEF Follows
<1>2. d = Epoch(st) - 1 => st.nr <= j
    BY <1>1
<1> QED
    BY <1>2 DEF Follows

\* Messages are stored.
LEMMA FollowsStored ==
    ASSUME NEW ka, NEW ro, NEW T, NEW p, NEW st, NEW d, NEW i, NEW N, NEW cv, NEW M,
           Follows(ka, ro, T, p, st, d, i, N, cv, M),
           NEW cw, cv \subseteq cw, NEW L, \A w \in M : w.id \in cw \/ w \in L
    PROVE  Follows(ka, ro, T, p, st, d, i, N, cw, L)
<1>1. Accounted(p, st, N, cw, L)
    BY DEF Follows, Accounted
<1> QED
    BY <1>1 DEF Follows

\* The other peer publishes its next wire.
LEMMA FollowsPublish ==
    ASSUME NEW ka, NEW ro, NEW T, NEW p \in Peers, NEW st, NEW d \in Nat, NEW i \in Nat,
           NEW N, NEW cv, NEW M,
           Follows(ka, ro, T, p, st, d, i, N, cv, M), Next2(Epoch(st), d),
           NEW w, w.to = p, ChainNo(w) = d, w.rh.n = i, NEW P, P = N \cup {w}
    PROVE  Follows(ka, ro, T, p, st, d, i + 1, P, cv, M)
<1>1. st.nr \in Nat /\ (d = Epoch(st) - 1 => st.nr <= i) /\ Epoch(st) \in Nat
    BY DEF Follows, On
<1>2. d = Epoch(st) - 1 => st.nr <= i + 1
    BY <1>1
<1>3. ~Behind(w, st)
    <2>1. ~(d < Epoch(st) - 1)
        BY <1>1 DEF Next2
    <2>2. d = Epoch(st) - 1 => ~(i < st.nr)
        BY <1>1
    <2> QED
        BY <2>1, <2>2, Zenon DEF Behind
<1>4. Accounted(p, st, P, cv, M)
    BY <1>3 DEF Follows, Accounted
<1>5. w.to # Other(p)
    BY PeersDiffer
<1>6. Announced(p, st, P)
    BY <1>5 DEF Follows, Announced
<1> QED
    BY <1>2, <1>4, <1>6 DEF Follows

\* p publishes a wire on its sending chain.
LEMMA FollowsOwn ==
    ASSUME NEW ka, NEW ro, NEW T, NEW p \in Peers, NEW st, NEW d, NEW i, NEW N, NEW cv, NEW M,
           Follows(ka, ro, T, p, st, d, i, N, cv, M),
           NEW w, w.to = Other(p), ChainNo(w) = Epoch(st), NEW P, P = N \cup {w}
    PROVE  Follows(ka, ro, T, p, st, d, i, P, cv, M)
<1>1. Epoch(st) \in Nat
    BY DEF Follows, On
<1>2. w.to # p
    BY PeersDiffer
<1>3. ChainNo(w) # Epoch(st) - 2
    BY <1>1
<1>4. Accounted(p, st, P, cv, M)
    BY <1>2 DEF Follows, Accounted
<1>5. Announced(p, st, P)
    BY <1>3 DEF Follows, Announced
<1> QED
    BY <1>4, <1>5 DEF Follows

\* What a send changes in a state is no part of this.
SameReceiving(st, t) ==
    /\ t.rk = st.rk /\ t.dhs = st.dhs /\ t.kem = st.kem /\ t.sendCt = st.sendCt
    /\ t.dhr = st.dhr /\ t.ckr = st.ckr /\ t.nr = st.nr /\ t.pn = st.pn
    /\ t.skipped = st.skipped /\ t.lost = st.lost

\* A send changes nothing here.
LEMMA FollowsSame ==
    ASSUME NEW ka, NEW ro, NEW T, NEW p, NEW st, NEW d, NEW i, NEW N, NEW cv, NEW M,
           Follows(ka, ro, T, p, st, d, i, N, cv, M), NEW t, SameReceiving(st, t)
    PROVE  Follows(ka, ro, T, p, t, d, i, N, cv, M) /\ Epoch(t) = Epoch(st)
<1>1. Epoch(t) = Epoch(st)
    BY DEF Epoch, SameReceiving
<1>2. On(ka, ro, t)
    BY <1>1, Zenon DEF Follows, On, SameReceiving
<1>3. Accounted(p, t, N, cv, M) /\ Announced(p, t, N)
    BY <1>1 DEF Follows, Accounted, Announced, Behind, SameReceiving
<1> QED
    BY <1>1, <1>2, <1>3, Zenon DEF Follows, SameReceiving

\* The other peer has turned past the chain st receives on.
LEMMA FollowsTurned ==
    ASSUME NEW ka, NEW ro, NEW T, NEW p, NEW st, NEW d, NEW i, NEW N, NEW cv, NEW M,
           Follows(ka, ro, T, p, st, d, i, N, cv, M), NEW e, e = Epoch(st) + 1, NEW j
    PROVE  Follows(ka, ro, T, p, st, e, j, N, cv, M)
<1>1. Epoch(st) \in Nat
    BY DEF Follows, On
<1>2. e # Epoch(st) - 1
    BY <1>1
<1> QED
    BY <1>2 DEF Follows

\* The history grows.
LEMMA FollowsHistory ==
    ASSUME NEW n \in Nat, NEW ka, NEW ro, NEW kb, NEW rp, SameUpTo(n, ka, ro, kb, rp),
           NEW T, NEW p, NEW st, NEW d, NEW i, NEW N, NEW cv, NEW M,
           Follows(ka, ro, T, p, st, d, i, N, cv, M), Epoch(st) <= n, NEW S \in Nat, n <= S
    PROVE  Follows(kb, rp, S, p, st, d, i, N, cv, M)
<1>1. On(ka, ro, st)
    BY DEF Follows
<1>2. On(kb, rp, st)
    BY <1>1, OnSame
<1>3. Epoch(st) \in Nat
    BY <1>1 DEF On
<1>4. Epoch(st) <= S
    BY <1>3
<1> QED
    BY <1>2, <1>4 DEF Follows

\* The tasks of p are dropped, or its send has just read the state.
LEMMA InStepTasks ==
    ASSUME NEW ka, NEW ro, NEW T, NEW p, NEW st, NEW task, NEW rtask, NEW cv, NEW N,
           NEW d, NEW i, InStep(ka, ro, T, p, st, task, rtask, cv, N, d, i),
           NEW new, new = None \/ new = task \/ new.st = st,
           NEW rnew, rnew = None \/ rnew = rtask
    PROVE  InStep(ka, ro, T, p, st, new, rnew, cv, N, d, i)
<1>1. new # None => SameEpoch(new.st, st)
    BY DEF InStep, SameEpoch
<1> QED
    BY <1>1, Zenon DEF InStep

\* The other peer sends: its next index moves up.
LEMMA InStepLater ==
    ASSUME NEW ka, NEW ro, NEW T, NEW p, NEW st, NEW task, NEW rtask, NEW cv, NEW N,
           NEW d, NEW i, InStep(ka, ro, T, p, st, task, rtask, cv, N, d, i),
           NEW j \in Nat, i <= j
    PROVE  InStep(ka, ro, T, p, st, task, rtask, cv, N, d, j)
<1>1. i \in Nat /\ Follows(ka, ro, T, p, st, d, i, N, cv, {})
    BY Zenon DEF InStep
<1>2. Follows(ka, ro, T, p, st, d, j, N, cv, {})
    BY <1>1, FollowsLater
<1>3. rtask # None => Follows(ka, ro, T, p, rtask.st, d, i, N, cv, {rtask.m})
    BY Zenon DEF InStep
<1>4. rtask # None => Follows(ka, ro, T, p, rtask.st, d, j, N, cv, {rtask.m})
    <2> SUFFICES ASSUME rtask # None
                 PROVE  Follows(ka, ro, T, p, rtask.st, d, j, N, cv, {rtask.m})
        OBVIOUS
    <2> DEFINE M == {rtask.m}
    <2>1. Follows(ka, ro, T, p, rtask.st, d, i, N, cv, M)
        BY <1>3
    <2> HIDE DEF M
    <2>2. Follows(ka, ro, T, p, rtask.st, d, j, N, cv, M)
        BY <1>1, <2>1, FollowsLater
    <2> QED
        BY <2>2 DEF M
<1> QED
    BY <1>2, <1>4, Zenon DEF InStep

\* The state is written, one index further up its chain.
LEMMA InStepPersist ==
    ASSUME NEW ka, NEW ro, NEW T, NEW p, NEW st, NEW task, NEW cv, NEW N,
           NEW d, NEW i, InStep(ka, ro, T, p, st, task, None, cv, N, d, i),
           NEW t, SameReceiving(st, t), NEW new, new.st = st
    PROVE  InStep(ka, ro, T, p, t, new, None, cv, N, d, i)
<1>1. Follows(ka, ro, T, p, st, d, i, N, cv, {})
    BY Zenon DEF InStep
<1>2. Follows(ka, ro, T, p, t, d, i, N, cv, {}) /\ Epoch(t) = Epoch(st)
    BY <1>1, FollowsSame
<1>3. SameEpoch(new.st, t)
    BY DEF SameEpoch, SameReceiving
<1> QED
    BY <1>2, <1>3, Zenon DEF InStep

\* p publishes w, the wire of the state its send holds.
LEMMA InStepOwn ==
    ASSUME NEW ka, NEW ro, NEW T, NEW p \in Peers, NEW st, NEW task, NEW cv, NEW N,
           NEW d, NEW i, InStep(ka, ro, T, p, st, task, None, cv, N, d, i),
           NEW w, w.to = Other(p), WireOn(ka, ro, w, Epoch(st)), ChainNo(w) = Epoch(st),
           NEW P, P = N \cup {w}
    PROVE  InStep(ka, ro, T, p, st, None, None, cv, P, d, i)
<1>1. Follows(ka, ro, T, p, st, d, i, N, cv, {})
    BY Zenon DEF InStep
<1>2. Follows(ka, ro, T, p, st, d, i, P, cv, {})
    <2> DEFINE M == {}
    <2> HIDE DEF M
    <2>1. Follows(ka, ro, T, p, st, d, i, N, cv, M)
        BY <1>1 DEF M
    <2>2. Follows(ka, ro, T, p, st, d, i, P, cv, M)
        BY <2>1, FollowsOwn
    <2> QED
        BY <2>2 DEF M
<1>3. \A m \in P : m.to = Other(p) => WireOn(ka, ro, m, Epoch(st))
    BY DEF InStep
<1> QED
    BY <1>2, <1>3, Zenon DEF InStep

\* The other peer publishes its next wire.
LEMMA InStepOther ==
    ASSUME NEW ka, NEW ro, NEW T, NEW p \in Peers, NEW st, NEW task, NEW rtask, NEW cv, NEW N,
           NEW d, NEW i, InStep(ka, ro, T, p, st, task, rtask, cv, N, d, i),
           NEW w, w.to = p, ChainNo(w) = d, w.rh.n = i, NEW P, P = N \cup {w}
    PROVE  InStep(ka, ro, T, p, st, task, rtask, cv, P, d, i + 1)
<1>1. d \in Nat /\ i \in Nat /\ Next2(Epoch(st), d) /\ Follows(ka, ro, T, p, st, d, i, N, cv, {})
    BY Zenon DEF InStep
<1>2. Follows(ka, ro, T, p, st, d, i + 1, P, cv, {})
    <2> DEFINE M == {}
    <2> HIDE DEF M
    <2>1. Follows(ka, ro, T, p, st, d, i, N, cv, M)
        BY <1>1 DEF M
    <2>2. Follows(ka, ro, T, p, st, d, i + 1, P, cv, M)
        BY <1>1, <2>1, FollowsPublish
    <2> QED
        BY <2>2 DEF M
<1>3. ASSUME rtask # None
      PROVE  Follows(ka, ro, T, p, rtask.st, d, i + 1, P, cv, {rtask.m})
    <2> DEFINE M == {rtask.m}
               t == rtask.st
    <2>1. Follows(ka, ro, T, p, t, d, i, N, cv, M) /\ Nearby(st, t, d)
        BY <1>3, Zenon DEF InStep
    <2> HIDE DEF M, t
    <2>2. Epoch(st) \in Nat
        BY <1>1 DEF Follows, On
    <2>3. Next2(Epoch(t), d)
        BY <1>1, <2>1, <2>2 DEF Next2, Nearby
    <2>4. Follows(ka, ro, T, p, t, d, i + 1, P, cv, M)
        BY <1>1, <2>1, <2>3, FollowsPublish
    <2> QED
        BY <2>4 DEF M, t
<1>4. w.to # Other(p)
    BY PeersDiffer
<1>5. \A m \in P : m.to = Other(p) => WireOn(ka, ro, m, Epoch(st))
    BY <1>4 DEF InStep
<1>6. i + 1 \in Nat
    BY <1>1
<1> QED
    BY <1>2, <1>3, <1>5, <1>6, Zenon DEF InStep

\* The plaintext is stored.
LEMMA InStepStore ==
    ASSUME NEW ka, NEW ro, NEW T, NEW p, NEW st, NEW task, NEW rtask, NEW cv, NEW N,
           NEW d, NEW i, InStep(ka, ro, T, p, st, task, rtask, cv, N, d, i), rtask # None,
           NEW cw, cv \subseteq cw, rtask.m.id \in cw,
           NEW rnew, rnew.m = rtask.m, rnew.st = rtask.st
    PROVE  InStep(ka, ro, T, p, st, task, rnew, cw, N, d, i)
<1>1. /\ Follows(ka, ro, T, p, st, d, i, N, cv, {})
      /\ Follows(ka, ro, T, p, rtask.st, d, i, N, cv, {rtask.m}) /\ Nearby(st, rtask.st, d)
    BY Zenon DEF InStep
<1>2. Follows(ka, ro, T, p, st, d, i, N, cw, {})
    <2> DEFINE M == {}
    <2>1. \A w \in M : w.id \in cw \/ w \in M
        OBVIOUS
    <2>2. Follows(ka, ro, T, p, st, d, i, N, cv, M)
        BY <1>1
    <2> HIDE DEF M
    <2>3. Follows(ka, ro, T, p, st, d, i, N, cw, M)
        BY <2>1, <2>2, FollowsStored
    <2> QED
        BY <2>3 DEF M
<1>3. Follows(ka, ro, T, p, rnew.st, d, i, N, cw, {rnew.m})
    <2> DEFINE M == {rtask.m}
               t == rtask.st
    <2>1. \A w \in M : w.id \in cw \/ w \in M
        OBVIOUS
    <2>2. Follows(ka, ro, T, p, t, d, i, N, cv, M)
        BY <1>1
    <2> HIDE DEF M, t
    <2>3. Follows(ka, ro, T, p, t, d, i, N, cw, M)
        BY <2>1, <2>2, FollowsStored
    <2> QED
        BY <2>3 DEF M, t
<1> QED
    BY <1>1, <1>2, <1>3, Zenon DEF InStep

\* Wires stay on the chains of their sender.
LEMMA WiresGrow ==
    ASSUME NEW ka, NEW ro, NEW w, NEW a \in Nat, NEW b \in Nat, a <= b, WireOn(ka, ro, w, a)
    PROVE  WireOn(ka, ro, w, b)
<1>1. 1..a \subseteq 1..b
    OBVIOUS
<1> QED
    BY <1>1 DEF WireOn

\* The state of the receive is written.
LEMMA InStepCommit ==
    ASSUME NEW ka, NEW ro, NEW T, NEW p, NEW st, NEW rtask, NEW cv, NEW N,
           NEW d, NEW i, InStep(ka, ro, T, p, st, None, rtask, cv, N, d, i),
           rtask # None, rtask.stage = "stored"
    PROVE  InStep(ka, ro, T, p, rtask.st, None, None, cv, N, d, i)
<1> DEFINE M == {rtask.m}
           t == rtask.st
           L == {}
<1>1. /\ d \in Nat /\ i \in Nat /\ Next2(Epoch(st), d) /\ Follows(ka, ro, T, p, st, d, i, N, cv, {})
      /\ Follows(ka, ro, T, p, t, d, i, N, cv, M) /\ Nearby(st, t, d) /\ rtask.m.id \in cv
      /\ \A w \in N : w.to = Other(p) => WireOn(ka, ro, w, Epoch(st))
    BY Zenon DEF InStep
<1>2. \A w \in M : w.id \in cv \/ w \in L
    BY <1>1
<1> HIDE DEF M, t, L
<1>3. Follows(ka, ro, T, p, t, d, i, N, cv, L)
    BY <1>1, <1>2, FollowsStored
<1>4. Epoch(st) \in Nat /\ Epoch(t) \in Nat
    BY <1>1 DEF Follows, On
<1>5. Epoch(st) <= Epoch(t) /\ Next2(Epoch(t), d)
    BY <1>1, <1>4 DEF Nearby, Next2
<1>6. \A w \in N : w.to = Other(p) => WireOn(ka, ro, w, Epoch(t))
    BY <1>1, <1>4, <1>5, WiresGrow
<1>7. InStep(ka, ro, T, p, t, None, None, cv, N, d, i)
    BY <1>1, <1>3, <1>5, <1>6, Zenon DEF InStep, L
<1> QED
    BY <1>7 DEF t

\* The other peer has turned to chain e.
LEMMA InStepTurned ==
    ASSUME NEW ka, NEW ro, NEW T, NEW p, NEW st, NEW task, NEW rtask, NEW cv, NEW N,
           NEW d, NEW i, InStep(ka, ro, T, p, st, task, rtask, cv, N, d, i),
           d # Epoch(st) + 1, NEW e, e = Epoch(st) + 1, NEW j \in Nat
    PROVE  InStep(ka, ro, T, p, st, task, rtask, cv, N, e, j)
<1>1. Follows(ka, ro, T, p, st, d, i, N, cv, {})
    BY Zenon DEF InStep
<1>2. Follows(ka, ro, T, p, st, e, j, N, cv, {})
    <2> DEFINE M == {}
    <2> HIDE DEF M
    <2>1. Follows(ka, ro, T, p, st, d, i, N, cv, M)
        BY <1>1 DEF M
    <2>2. Follows(ka, ro, T, p, st, e, j, N, cv, M)
        BY <2>1, FollowsTurned
    <2> QED
        BY <2>2 DEF M
<1>3. Epoch(st) \in Nat
    BY <1>1 DEF Follows, On
<1>4. e \in Nat /\ Next2(Epoch(st), e)
    BY <1>3 DEF Next2
<1>5. ASSUME rtask # None
      PROVE  Follows(ka, ro, T, p, rtask.st, e, j, N, cv, {rtask.m}) /\ Nearby(st, rtask.st, e)
    <2> DEFINE M == {rtask.m}
               t == rtask.st
    <2>1. Follows(ka, ro, T, p, t, d, i, N, cv, M) /\ Nearby(st, t, d)
        BY <1>5, Zenon DEF InStep
    <2> HIDE DEF M, t
    <2>2. Epoch(t) = Epoch(st) /\ t.cks = st.cks
        BY <2>1 DEF Nearby
    <2>3. e = Epoch(t) + 1
        BY <2>2
    <2>4. Follows(ka, ro, T, p, t, e, j, N, cv, M)
        BY <2>1, <2>3, FollowsTurned
    <2>5. Nearby(st, t, e)
        BY <2>2 DEF Nearby
    <2> QED
        BY <2>4, <2>5 DEF M, t
<1> QED
    BY <1>2, <1>4, <1>5, Zenon DEF InStep

-----------------------------------------------------------------------------
(* What a message that opens makes of the state.                           *)

\* The wires to p when the other peer is on chain d: none is on p's own chain.
Facts(ka, ro, p, st, N, d) ==
    \A w \in N : w.to = p => WireOn(ka, ro, w, d) /\ w.mk.root # st.rk

\* No other wire has the key of m.
Alone(N, m) == \A w \in N : w.mk = m.mk => w = m

\* A receive that opens m with a stashed key ...
LEMMA AdvanceStashed ==
    ASSUME NEW ka, NEW ro, NEW T, NEW p, NEW st, Counted(st), NEW d, NEW i, NEW N, NEW cv,
           Follows(ka, ro, T, p, st, d, i, N, cv, {}),
           NEW x \in 1..Len(st.skipped), NEW t, Unstashed(st, x, t),
           NEW m, m.mk = st.skipped[x].mk, Alone(N, m)
    PROVE  Follows(ka, ro, T, p, t, d, i, N, cv, {m}) /\ Nearby(st, t, d)
<1>1. DOMAIN st = Fields /\ Stash(st.skipped)
    BY DEF Counted
<1>2. /\ On(ka, ro, st) /\ Epoch(st) <= T /\ st.nr \in Nat
      /\ d = Epoch(st) - 1 => st.nr <= i
      /\ Accounted(p, st, N, cv, {}) /\ Announced(p, st, N)
    BY Zenon DEF Follows
<1>3. /\ On(ka, ro, t) /\ Epoch(t) = Epoch(st) /\ t.cks = st.cks
      /\ t.nr = st.nr /\ t.pn = st.pn
      /\ KeepsBut(st, t, st.skipped[x].mk)
    BY <1>1, <1>2, ReceiveStashed
<1>4. Accounted(p, t, N, cv, {m})
    <2> SUFFICES ASSUME NEW w \in N, w.to = p, Behind(w, t)
                 PROVE  w.id \in cv \/ w.mk \in MksOf(t.skipped) \cup t.lost \/ w = m
        BY DEF Accounted
    <2>1. Behind(w, st)
        BY <1>3 DEF Behind
    <2>2. w.id \in cv \/ w.mk \in MksOf(st.skipped) \cup st.lost
        BY <1>2, <2>1 DEF Accounted
    <2>3. w.mk = st.skipped[x].mk => w = m
        BY DEF Alone
    <2> QED
        BY <1>3, <2>2, <2>3 DEF KeepsBut
<1>5. Announced(p, t, N)
    BY <1>2, <1>3 DEF Announced
<1>6. Nearby(st, t, d)
    BY <1>3 DEF Nearby
<1> QED
    BY <1>2, <1>3, <1>4, <1>5, <1>6, Zenon DEF Follows

\* ... with a key further on the chain received on ...
LEMMA AdvanceWithin ==
    ASSUME NEW ka, NEW ro, NEW T, NEW f, History(ka, ro, T, f),
           NEW p, NEW st, Counted(st), NEW d, NEW i \in Nat, NEW N, NEW cv,
           Follows(ka, ro, T, p, st, d, i, N, cv, {}), Facts(ka, ro, p, st, N, d),
           NEW m \in N, m.to = p, Alone(N, m), ChainNo(m) = Epoch(st) - 1,
           d = Epoch(st) - 1 => m.rh.n < i,
           NEW k, NEW u, u = Reached(st, m.rh, k), u.ckr = m.mk,
           NEW t, UsesKey(u, t), SameSending(st, t)
    PROVE  Follows(ka, ro, T, p, t, d, i, N, cv, {m}) /\ Nearby(st, t, d)
<1> DEFINE c == Epoch(st)
           b == c - 1
           h == m.rh
<1>1. /\ On(ka, ro, st) /\ c <= T /\ st.nr \in Nat
      /\ Accounted(p, st, N, cv, {}) /\ Announced(p, st, N)
    BY Zenon DEF Follows
<1>2. ChainNo(m) = b /\ c = Epoch(st) /\ b = c - 1
    OBVIOUS
<1>3. WireOn(ka, ro, m, d)
    BY DEF Facts
<1>4. /\ ChainNo(m) \in 1..d /\ h.n \in Nat /\ h.pn \in Nat
      /\ m.mk = [root |-> ro[ChainNo(m)], i |-> h.n] /\ h.dh = ka[ChainNo(m)]
    BY <1>3 DEF WireOn
<1> HIDE DEF c
<1>5. c \in Nat
    BY <1>1 DEF On, c
<1>6. b >= 1 /\ 1 < c
    BY <1>2, <1>4, <1>5
<1> HIDE DEF b
<1>7. h.dh = ka[b] /\ m.mk = [root |-> ro[b], i |-> h.n]
    BY <1>2, <1>4
<1>8. /\ On(ka, ro, t) /\ Epoch(t) = c /\ t.nr = h.n + 1 /\ t.pn = st.pn
      /\ h.n >= st.nr /\ Keeps(st, t) /\ Derived(ro, b, st.nr, h.n, t)
    <2>1. h.dh = ka[b] /\ KeyAt(u.ckr, ro, b, h.n)
        BY <1>7 DEF KeyAt
    <2> HIDE DEF h
    <2>2. h.n \in Nat /\ u = Reached(st, h, k)
        BY <1>4 DEF h
    <2> QED
        BY <1>1, <1>2, <1>5, <1>6, <2>1, <2>2, ReceiveWithin
<1>9. Accounted(p, t, N, cv, {m})
    <2> SUFFICES ASSUME NEW w \in N, w.to = p, Behind(w, t)
                 PROVE  w.id \in cv \/ w.mk \in MksOf(t.skipped) \cup t.lost \/ w = m
        BY DEF Accounted
    <2>1. w.rh.n \in Nat /\ w.mk = [root |-> ro[ChainNo(w)], i |-> w.rh.n]
        BY DEF Facts, WireOn
    <2>2. CASE Behind(w, st)
        BY <1>1, <1>8, <2>2 DEF Accounted, Keeps
    <2>3. CASE ~Behind(w, st)
        <3>1. ChainNo(w) = b /\ w.rh.n < h.n + 1 /\ ~(w.rh.n < st.nr)
            BY <1>2, <1>8, <2>3 DEF Behind
        <3>2. CASE w.rh.n = h.n
            <4>1. w.mk = m.mk
                BY <1>7, <2>1, <3>1, <3>2
            <4> QED
                BY <4>1 DEF Alone
        <3>3. CASE w.rh.n # h.n
            <4>1. w.rh.n \in st.nr..h.n - 1
                BY <1>1, <1>4, <2>1, <3>1, <3>3
            <4> QED
                BY <1>8, <2>1, <3>1, <4>1 DEF Derived
        <3> QED
            BY <3>2, <3>3
    <2> QED
        BY <2>2, <2>3
<1>10. Announced(p, t, N)
    BY <1>1, <1>2, <1>8 DEF Announced
<1>11. d = Epoch(t) - 1 => t.nr <= i
    <2>1. d = b => h.n < i
        BY <1>2
    <2>2. h.n \in Nat
        BY <1>4
    <2>3. d = b => h.n + 1 <= i
        BY <2>1, <2>2
    <2> QED
        BY <1>2, <1>8, <2>3
<1>12. t.nr \in Nat /\ Epoch(t) <= T
    BY <1>1, <1>4, <1>8
<1>13. Nearby(st, t, d)
    BY <1>2, <1>8 DEF Nearby, SameSending
<1> QED
    BY <1>8, <1>9, <1>10, <1>11, <1>12, <1>13, Zenon DEF Follows

\* What p sent while it is at st: its wires are on its chains, and ns counts
\* those on the chain it sends on.
Sent(ka, ro, p, st, N) ==
    \A w \in N : w.to = Other(p) =>
        WireOn(ka, ro, w, Epoch(st)) /\ (ChainNo(w) = Epoch(st) => w.rh.n < st.ns)

\* With the next turn of p in the history, p is at t, which received m.
NewTurn(ka, ro, n, g, p, t, d, i, N, cv, m) ==
    \E kb, rp : /\ History(kb, rp, n, g) /\ SameUpTo(d, ka, ro, kb, rp)
                /\ Follows(kb, rp, n, p, t, d, i, N, cv, {m})

\* ... and with one of the other peer's next chain, by a turn.
LEMMA AdvanceAcross ==
    ASSUME NEW f \in [Peers -> Nat], NEW p \in Peers, NEW k, NEW g, Draws(f, p, k, g),
           NEW ka, NEW ro, NEW T, History(ka, ro, T, f),
           NEW st, Counted(st), NEW d \in Nat, NEW i \in Nat, NEW N, NEW cv,
           Follows(ka, ro, T, p, st, d, i, N, cv, {}), Facts(ka, ro, p, st, N, d),
           d = Epoch(st) + 1, d <= T, Ordered(N),
           Sent(ka, ro, p, st, N),
           NEW m \in N, m.to = p, Alone(N, m), ChainNo(m) = d, m.rh.n < i,
           NEW u, u = Reached(st, m.rh, k),
           NEW t, UsesKey(u, t), Turned(st, m.rh, k, t)
    PROVE  Nearby(st, t, d) /\ NewTurn(ka, ro, d + 1, g, p, t, d, i, N, cv, m)
<1> DEFINE c == Epoch(st)
           h == m.rh
           e == d + 1
<1>1. /\ On(ka, ro, st) /\ c <= T /\ st.nr \in Nat
      /\ Accounted(p, st, N, cv, {}) /\ Announced(p, st, N)
    BY Zenon DEF Follows
<1>2. ChainNo(m) = d /\ c = Epoch(st) /\ d = c + 1 /\ e = d + 1
    OBVIOUS
<1>3. WireOn(ka, ro, m, d)
    BY DEF Facts
<1>4. /\ h.n \in Nat /\ h.pn \in Nat
      /\ m.mk = [root |-> ro[ChainNo(m)], i |-> h.n]
      /\ h.dh = ka[ChainNo(m)] /\ h.kem_pub = ka[ChainNo(m)]
      /\ h.kem_ct = Encapsulated(ka, ChainNo(m))
    BY <1>3 DEF WireOn
<1>5. h.dh = ka[d] /\ h.kem_pub = ka[d] /\ h.kem_ct = Encapsulated(ka, d)
      /\ m.mk = [root |-> ro[d], i |-> h.n]
    BY <1>2, <1>4
<1>6. u = Reached(st, h, k) /\ Turned(st, h, k, t) /\ h.n < i
    OBVIOUS
<1> HIDE DEF c, e, h
<1>7. c \in Nat /\ c >= 1
    BY <1>1 DEF On, c
<1>8. /\ \E kb, rp : /\ History(kb, rp, c + 2, g) /\ SameUpTo(c + 1, ka, ro, kb, rp)
                     /\ On(kb, rp, t)
      /\ Epoch(t) = c + 2 /\ t.nr = h.n + 1 /\ t.pn = st.ns
      /\ Keeps(st, t) /\ Derived(ro, c + 1, 0, h.n, t)
      /\ c > 1 => Derived(ro, c - 1, st.nr, h.pn, t)
    <2>1. h.dh = ka[c + 1] /\ h.kem_pub = ka[c + 1] /\ h.kem_ct = Encapsulated(ka, c + 1)
        BY <1>2, <1>5
    <2>2. 1 <= c /\ c + 1 <= T
        BY <1>2, <1>7
    <2> QED
        BY <1>1, <1>2, <1>4, <1>7, <1>6, <2>1, <2>2, ReceiveAcross
<1>9. c + 2 = e /\ c + 1 = d
    BY <1>2, <1>7
<1>10. /\ Epoch(t) = e /\ t.nr = h.n + 1 /\ t.pn = st.ns
       /\ Keeps(st, t) /\ Derived(ro, d, 0, h.n, t)
       /\ c > 1 => Derived(ro, c - 1, st.nr, h.pn, t)
    BY <1>8, <1>9
<1>11. PICK kb, rp : History(kb, rp, e, g) /\ SameUpTo(d, ka, ro, kb, rp) /\ On(kb, rp, t)
    BY <1>8, <1>9
<1>12. Accounted(p, t, N, cv, {m})
    <2> SUFFICES ASSUME NEW w \in N, w.to = p, Behind(w, t)
                 PROVE  w.id \in cv \/ w.mk \in MksOf(t.skipped) \cup t.lost \/ w = m
        BY DEF Accounted
    <2> DEFINE j == ChainNo(w)
    <2>1. /\ j \in 1..d /\ w.rh.n \in Nat /\ w.mk = [root |-> ro[j], i |-> w.rh.n]
          /\ w.mk.root # st.rk
        BY DEF Facts, WireOn
    <2>2. st.rk = ro[c]
        BY <1>1 DEF On, c
    <2> HIDE DEF j
    <2>3. j # c
        BY <2>1, <2>2
    <2>4. CASE Behind(w, st)
        BY <1>1, <1>10, <2>4 DEF Accounted, Keeps
    <2>5. CASE j = d
        <3>1. w.rh.n < h.n + 1
            <4>1. ~(j < e - 1)
                BY <1>2, <2>5
            <4> QED
                BY <1>10, <4>1 DEF Behind, j
        <3>2. CASE w.rh.n = h.n
            <4>1. w.mk = m.mk
                BY <1>5, <2>1, <2>5, <3>2
            <4> QED
                BY <4>1 DEF Alone
        <3>3. CASE w.rh.n # h.n
            <4>1. w.rh.n \in 0..h.n - 1
                BY <1>4, <2>1, <3>1, <3>3
            <4> QED
                BY <1>10, <2>1, <2>5, <4>1 DEF Derived
        <3> QED
            BY <3>2, <3>3
    <2>6. CASE j # d /\ ~Behind(w, st)
        <3>1. ~(j < c - 1)
            BY <2>6 DEF Behind, j, c
        <3>2. j \in Nat /\ j >= 1 /\ j <= d
            BY <2>1
        <3>3. j = c - 1 /\ c > 1
            BY <1>2, <1>7, <2>3, <2>6, <3>1, <3>2
        <3>4. ~(w.rh.n < st.nr)
            BY <2>6, <3>3 DEF Behind, j, c
        <3>5. ChainNo(w) = ChainNo(m) - 2
            BY <1>2, <1>7, <3>3 DEF j
        <3>6. w.rh.n < h.pn
            BY <3>5 DEF Ordered, h
        <3>7. w.rh.n \in st.nr..h.pn - 1
            BY <1>1, <1>4, <2>1, <3>4, <3>6
        <3> QED
            BY <1>10, <2>1, <3>3, <3>7 DEF Derived
    <2> QED
        BY <2>4, <2>5, <2>6
<1>13. Announced(p, t, N)
    <2> SUFFICES ASSUME NEW w \in N, w.to = Other(p), ChainNo(w) = e - 2
                 PROVE  w.rh.n < t.pn
        BY <1>10 DEF Announced
    <2>1. ChainNo(w) = c
        BY <1>2, <1>7
    <2> QED
        BY <1>10, <2>1 DEF c, Sent
<1>14. t.nr \in Nat /\ t.nr <= i /\ Epoch(t) <= e /\ e \in Nat
    BY <1>4, <1>10, <1>2, <1>6
<1>15. Follows(kb, rp, e, p, t, d, i, N, cv, {m})
    BY <1>11, <1>12, <1>13, <1>14, Zenon DEF Follows
<1>16. Nearby(st, t, d)
    BY <1>2, <1>9, <1>10 DEF Nearby
<1>17. NewTurn(ka, ro, e, g, p, t, d, i, N, cv, m)
    BY <1>11, <1>15, Zenon DEF NewTurn
<1> QED
    BY <1>16, <1>17 DEF e

\* A turn receives on the chain that follows the one sent on.
LEMMA ReachedRoot ==
    ASSUME NEW ka, NEW ro, NEW T, NEW f, History(ka, ro, T, f),
           NEW st, Counted(st), On(ka, ro, st), NEW c \in Nat, c = Epoch(st), 1 <= c, c <= T,
           NEW h, h.n \in Nat, h.pn \in Nat, st.dhr # h.dh, NEW k,
           NEW u, u = Reached(st, h, k), u.ckr # None
    PROVE  Len(u.ckr.root) = c + 1
<1> DEFINE v == Closed(st, h)
           ss == IF h.kem_ct # None THEN Decapsulate(st.kem, h.kem_ct) ELSE None
           w == DhRatchet(v, h.dh, ss, k)
           x == [dh |-> {v.dhs, h.dh}, kem |-> ss]
           R == Append(st.rk, x)
<1>1. u = SkipMessageKeys(w, h.n)
    BY Zenon DEF Reached, Facing
<1>2. Counted(v) /\ v.rk = st.rk
    BY Closing
<1>3. DOMAIN v = Fields /\ v.ns \in Nat /\ Stash(v.skipped)
    BY <1>2 DEF Counted
<1>4. Counted(w)
    <2> HIDE DEF v, ss, w
    <2>1. w = DhRatchet(v, h.dh, ss, k)
        BY DEF w
    <2> QED
        BY <1>3, <2>1, TurnCounted
<1>5. w.ckr = Chain(KdfRk(v.rk, {v.dhs, h.dh}, ss)) /\ w.nr = 0
    <2> DEFINE e == h.dh
    <2> HIDE DEF ss, e, v
    <2>1. FacingTurn(v, e, ss, DhRatchet(v, e, ss, k))
        BY <1>3, TurnReceiving
    <2> QED
        BY <2>1, Zenon DEF FacingTurn, e
<1>6. KdfRk(v.rk, {v.dhs, h.dh}, ss) = R
    BY <1>2, Zenon DEF KdfRk
<1>7. w.ckr = [root |-> R, i |-> w.nr]
    <2> HIDE DEF w, R
    <2> QED
        BY <1>5, <1>6 DEF Chain
<1>8. Len(R) = c + 1
    <2>1. st.rk = ro[c] /\ Len(st.rk) = c
        BY DEF On, Epoch
    <2>2. ro[c] \in Seq(Inputs)
        BY DEF History
    <2> DEFINE S == Inputs \cup {x}
    <2>3. st.rk \in Seq(S) /\ x \in S
        BY <2>1, <2>2
    <2> HIDE DEF x, S
    <2> QED
        BY <2>1, <2>3
<1> HIDE DEF w, R
<1>9. CASE w.ckr = None
    <2>1. u = w
        BY <1>1, <1>9, Zenon DEF SkipMessageKeys
    <2> QED
        BY <1>9, <2>1
<1>10. CASE w.ckr # None
    <2> DEFINE count == IF h.n > w.nr THEN h.n - w.nr ELSE 0
    <2>1. u.ckr = [root |-> R, i |-> u.nr]
        BY <1>1, <1>4, <1>7, <1>10, SkipStash
    <2> QED
        BY <1>8, <2>1
<1> QED
    BY <1>9, <1>10

\* Two chains of the history have different key pairs.
LEMMA ChainsOf ==
    ASSUME NEW ka, NEW ro, NEW T, NEW f, History(ka, ro, T, f), NEW i \in 0..T, NEW j \in 0..T
    PROVE  ka[i] = ka[j] => i = j
    BY DEF History

\* What p may take for granted when it receives.
Ready(ka, ro, T, f, p, st, d, i, N, cv) ==
    /\ History(ka, ro, T, f) /\ Counted(st) /\ d \in Nat /\ i \in Nat
    /\ Follows(ka, ro, T, p, st, d, i, N, cv, {}) /\ Facts(ka, ro, p, st, N, d)
    /\ Next2(Epoch(st), d) /\ d <= T /\ Ordered(N)
    /\ \A w \in N : w.to = p /\ ChainNo(w) = d => w.rh.n < i

\* What it becomes: the same turn, or its next.
Advanced(ka, ro, T, g, p, st, r, d, i, N, cv, m) ==
    /\ Nearby(st, r.st, d)
    /\ \/ ~r.turned /\ Follows(ka, ro, T, p, r.st, d, i, N, cv, {m})
       \/ /\ r.turned /\ d = Epoch(st) + 1
          /\ NewTurn(ka, ro, d + 1, g, p, r.st, d, i, N, cv, m)

\* What a message that opens makes of the state.
LEMMA AdvanceCases ==
    ASSUME NEW f \in [Peers -> Nat], NEW p \in Peers, NEW k, NEW g, Draws(f, p, k, g),
           NEW ka, NEW ro, NEW T, NEW st, NEW d, NEW i, NEW N, NEW cv,
           Ready(ka, ro, T, f, p, st, d, i, N, cv), Sent(ka, ro, p, st, N),
           NEW m \in N, m.to = p, Alone(N, m),
           NEW r, r = StepRecv(st, m.rh, k), Opens(r, m)
    PROVE  Advanced(ka, ro, T, g, p, st, r, d, i, N, cv, m)
<1>1. /\ History(ka, ro, T, f) /\ Counted(st) /\ d \in Nat /\ i \in Nat
      /\ Follows(ka, ro, T, p, st, d, i, N, cv, {}) /\ Facts(ka, ro, p, st, N, d)
      /\ Next2(Epoch(st), d) /\ d <= T /\ Ordered(N)
      /\ \A w \in N : w.to = p /\ ChainNo(w) = d => w.rh.n < i
    BY Zenon DEF Ready
<1> USE <1>1
<1> DEFINE h == m.rh
           c == Epoch(st)
           j == ChainNo(m)
<1>2. r.ok /\ r.mk = m.mk
    BY DEF Opens
<1>3. DOMAIN st = Fields /\ Len(st.skipped) \in Nat
    BY DEF Counted, Stash
<1>4. On(ka, ro, st) /\ c <= T
    BY Zenon DEF Follows
<1>5. WireOn(ka, ro, m, d) /\ m.mk.root # st.rk
    BY DEF Facts
<1>6. /\ j \in 1..d /\ h.n \in Nat /\ h.pn \in Nat
      /\ m.mk = [root |-> ro[j], i |-> h.n] /\ h.dh = ka[j]
    BY <1>5 DEF WireOn
<1>7. r = StepRecv(st, h, k)
    OBVIOUS
<1>8. OpensStashed(st, h, r) \/ OpensNext(st, h, k, r)
    <2> HIDE DEF h
    <2> QED
        BY <1>2, <1>3, <1>7, StepRecvCases DEF OpensNot
<1>9. (~r.turned /\ SameSending(st, r.st)) \/ (r.turned /\ Turned(st, h, k, r.st))
    <2> HIDE DEF h
    <2> QED
        BY <1>2, <1>3, <1>7, StepRecvFields
<1>10. CASE OpensStashed(st, h, r)
    <2>1. PICK x \in Hits(st, h) : r.mk = st.skipped[x].mk /\ ~r.turned /\ Unstashed(st, x, r.st)
        BY <1>10, Zenon DEF OpensStashed
    <2>2. Unstashed(st, x, r.st) /\ x \in 1..Len(st.skipped)
        BY <2>1, Zenon DEF Hits
    <2> DEFINE t == r.st
    <2>3. Unstashed(st, x, t) /\ m.mk = st.skipped[x].mk
        BY <1>2, <2>1, <2>2
    <2> HIDE DEF t
    <2>4. Follows(ka, ro, T, p, t, d, i, N, cv, {m}) /\ Nearby(st, t, d)
        BY <2>2, <2>3, AdvanceStashed
    <2> QED
        BY <2>1, <2>4 DEF t, Advanced
<1>11. CASE OpensNext(st, h, k, r)
    <2> DEFINE u == Reached(st, h, k)
               t == r.st
    <2>1. u.ckr = m.mk /\ u.ckr # None /\ r.turned = (st.dhr # h.dh)
        BY <1>2, <1>11, Zenon DEF OpensNext
    <2>2. UsesKey(u, t)
        BY <1>11, Zenon DEF OpensNext
    <2>3. u = Reached(st, m.rh, k) /\ u = Reached(st, h, k)
        OBVIOUS
    <2>4. (~r.turned /\ SameSending(st, t)) \/ (r.turned /\ Turned(st, m.rh, k, t))
        BY <1>9
    <2> HIDE DEF u, t
    <2>5. c \in Nat /\ c >= 1 /\ st.dhr = ka[c - 1] /\ st.rk = ro[c]
        BY <1>4 DEF On
    <2>6. T \in Nat
        BY DEF History
    <2>7. d = c - 1 \/ d = c + 1
        BY DEF Next2
    <2>8. j # c
        BY <1>5, <1>6, <2>5
    <2>9. j \in Nat /\ j >= 1 /\ j <= d /\ c <= T
        BY <1>4, <1>6
    <2>10. c = Epoch(st)
        OBVIOUS
    <2> HIDE DEF j, c, h
    <2>11. d <= T
        OBVIOUS
    <2>12. j <= c - 1 \/ (j = d /\ d = c + 1)
        BY <2>5, <2>7, <2>8, <2>9
    <2>13. j \in 0..T /\ c - 1 \in 0..T
        BY <2>5, <2>9, <2>11, <2>6
    <2>14. (ka[c - 1] = ka[j]) => j = c - 1
        BY <2>13, ChainsOf
    <2>15. Len(ro[j]) = j
        <3>1. j \in 1..T
            BY <2>9, <2>13
        <3> QED
            BY <3>1 DEF History
    <2>16. CASE ~r.turned
        <3>1. st.dhr = h.dh
            BY <2>1, <2>16
        <3>2. j = c - 1
            BY <1>6, <2>5, <2>14, <3>1
        <3>3. ChainNo(m) = Epoch(st) - 1
            BY <3>2 DEF j, c
        <3>4. d = Epoch(st) - 1 => m.rh.n < i
            BY <3>3
        <3>5. Follows(ka, ro, T, p, t, d, i, N, cv, {m}) /\ Nearby(st, t, d)
            BY <2>1, <2>2, <2>3, <2>4, <2>16, <3>3, <3>4, AdvanceWithin
        <3> QED
            BY <2>16, <3>5 DEF t, Advanced
    <2>17. CASE r.turned
        <3>1. st.dhr # h.dh
            BY <2>1, <2>17
        <3>2. Len(u.ckr.root) = c + 1
            BY SMTT(30), <1>4, <1>6, <2>1, <2>3, <2>5, <2>10, <3>1, ReachedRoot
        <3>3. u.ckr.root = ro[j]
            BY <1>6, <2>1
        <3>4. j = c + 1
            BY <2>15, <3>2, <3>3
        <3>5. j = d /\ d = Epoch(st) + 1
            BY <2>5, <2>12, <3>4 DEF c
        <3>6. ChainNo(m) = d /\ m.rh.n < i
            BY <3>5 DEF j
        <3>7. Nearby(st, t, d) /\ NewTurn(ka, ro, d + 1, g, p, t, d, i, N, cv, m)
            BY <2>2, <2>3, <2>4, <2>17, <3>5, <3>6, AdvanceAcross
        <3> QED
            BY <2>17, <3>5, <3>7 DEF t, Advanced
    <2> QED
        BY <2>16, <2>17
<1> QED
    BY <1>8, <1>10, <1>11

\* The history grows.
LEMMA InStepHistory ==
    ASSUME NEW n \in Nat, NEW ka, NEW ro, NEW kb, NEW rp, SameUpTo(n, ka, ro, kb, rp),
           NEW T, NEW p, NEW st, NEW task, NEW rtask, NEW cv, NEW N, NEW d, NEW i,
           InStep(ka, ro, T, p, st, task, rtask, cv, N, d, i),
           Epoch(st) <= n, rtask # None => Epoch(rtask.st) <= n, NEW S \in Nat, n <= S
    PROVE  InStep(kb, rp, S, p, st, task, rtask, cv, N, d, i)
<1>1. Follows(ka, ro, T, p, st, d, i, N, cv, {})
    BY Zenon DEF InStep
<1>2. Follows(kb, rp, S, p, st, d, i, N, cv, {})
    BY <1>1, FollowsHistory
<1>3. ASSUME rtask # None
      PROVE  Follows(kb, rp, S, p, rtask.st, d, i, N, cv, {rtask.m})
    <2> DEFINE M == {rtask.m}
               t == rtask.st
    <2>1. Follows(ka, ro, T, p, t, d, i, N, cv, M) /\ Epoch(t) <= n
        BY <1>3, Zenon DEF InStep
    <2> HIDE DEF M, t
    <2>2. Follows(kb, rp, S, p, t, d, i, N, cv, M)
        BY <2>1, FollowsHistory
    <2> QED
        BY <2>2 DEF M, t
<1>4. Epoch(st) \in 0..n
    <2>1. Epoch(st) \in Nat
        BY <1>1 DEF Follows, On
    <2> QED
        BY <2>1
<1>5. \A w \in N : w.to = Other(p) => WireOn(kb, rp, w, Epoch(st))
    <2>1. \A w \in N : w.to = Other(p) => WireOn(ka, ro, w, Epoch(st))
        BY Zenon DEF InStep
    <2> QED
        BY <1>4, <2>1, WireSame
<1> QED
    BY <1>2, <1>3, <1>5, Zenon DEF InStep

-----------------------------------------------------------------------------
(* The invariant, and the steps of the tasks.                              *)

\* The ids stored.
Shown(c) == {c[i] : i \in DOMAIN c}

\* The peers are in step, with the history of the turns ka and ro up to T.
DesyncAt(ka, ro, T) ==
    /\ History(ka, ro, T, fresh)
    /\ \A p \in Peers :
         InStep(ka, ro, T, p, ratchet[p], sendTask[p], recvTask[p], Shown(conv[p]), net,
                Epoch(ratchet[Other(p)]), Index(ratchet[Other(p)], sendTask[Other(p)]))
    /\ Ordered(net)

\* Some history of turns explains where the peers are.
DesyncInv == \E ka, ro, T : DesyncAt(ka, ro, T)

\* A step that touches one peer.
LEMMA SyncStep ==
    ASSUME KeysInv, LinesInv, NEW p \in Peers, NEW q, q = Other(p), NEW ka, NEW ro, NEW T,
           NEW st, ratchet' = [ratchet EXCEPT ![p] = st],
           NEW task, sendTask' = [sendTask EXCEPT ![p] = task],
           NEW rtask, recvTask' = [recvTask EXCEPT ![p] = rtask],
           NEW c, conv' = [conv EXCEPT ![p] = c],
           History(ka, ro, T, fresh'), Ordered(net'),
           InStep(ka, ro, T, p, st, task, rtask, Shown(c), net',
                  Epoch(ratchet[q]), Index(ratchet[q], sendTask[q])),
           InStep(ka, ro, T, q, ratchet[q], sendTask[q], recvTask[q], Shown(conv[q]), net',
                  Epoch(st), Index(st, task))
    PROVE  DesyncAt(ka, ro, T)'
<1>1. /\ ratchet = [x \in Peers |-> ratchet[x]] /\ sendTask = [x \in Peers |-> sendTask[x]]
      /\ recvTask = [x \in Peers |-> recvTask[x]] /\ conv = [x \in Peers |-> conv[x]]
    BY DEF KeysInv, LinesInv
<1>2. q \in Peers /\ q # p /\ Other(q) = p /\ Other(p) = q
    BY PeersDiffer
<1>3. ratchet'[p] = st /\ sendTask'[p] = task /\ recvTask'[p] = rtask /\ conv'[p] = c
    BY <1>1
<1>4. /\ ratchet'[q] = ratchet[q] /\ sendTask'[q] = sendTask[q]
      /\ recvTask'[q] = recvTask[q] /\ conv'[q] = conv[q]
    BY <1>1, <1>2
<1>5. ASSUME NEW x \in Peers
      PROVE  InStep(ka, ro, T, x, ratchet'[x], sendTask'[x], recvTask'[x], Shown(conv'[x]), net',
                    Epoch(ratchet'[Other(x)]), Index(ratchet'[Other(x)], sendTask'[Other(x)]))
    <2>1. CASE x = p
        BY <1>2, <1>3, <1>4, <2>1
    <2>2. CASE x = q
        BY <1>2, <1>3, <1>4, <2>2
    <2> QED
        BY <2>1, <2>2, PeersDiffer
<1> QED
    BY <1>5 DEF DesyncAt

\* What the other invariants say of the peer p.
LEMMA PeerFacts ==
    ASSUME KeysInv, NumbersInv, NEW p \in Peers
    PROVE  /\ PeerInv(p, ratchet[p], fresh[p], sendTask[p], recvTask[p], net)
           /\ Counted(ratchet[p]) /\ ratchet[p].cks.root = ratchet[p].rk
           /\ ratchet[p].cks.i = ratchet[p].ns /\ ratchet[p].cks.i \in Nat
           /\ Index(ratchet[p], sendTask[p]) \in Nat
           /\ Index(ratchet[p], sendTask[p]) <= ratchet[p].cks.i
           /\ sendTask[p] = None \/ recvTask[p] = None
<1>1. PeerInv(p, ratchet[p], fresh[p], sendTask[p], recvTask[p], net)
    BY DEF KeysInv
<1>2. Numbers(ratchet[p], sent[p])
    BY DEF NumbersInv, PeerNumbers
<1>3. Counted(ratchet[p]) /\ ratchet[p].cks = [root |-> ratchet[p].rk, i |-> ratchet[p].ns]
    BY <1>2 DEF Numbers
<1>4. ratchet[p].cks.root = ratchet[p].rk /\ ratchet[p].cks.i = ratchet[p].ns
    BY <1>3
<1>5. ratchet[p].cks.i \in Nat
    BY <1>1 DEF PeerInv, Sound
<1>6. CASE sendTask[p] # None /\ sendTask[p].stage = "persisted"
    <2>1. Sound(p, sendTask[p].st, fresh[p])
        BY <1>1, <1>6 DEF PeerInv, SendSound
    <2>2. sendTask[p].st.cks.i \in Nat
        BY <2>1 DEF Sound
    <2>3. ratchet[p].cks = [root |-> sendTask[p].st.cks.root, i |-> sendTask[p].st.cks.i + 1]
        BY <1>1, <1>6 DEF PeerInv, SendSound
    <2>4. ratchet[p].cks.i = sendTask[p].st.cks.i + 1
        BY <2>3
    <2>5. Index(ratchet[p], sendTask[p]) = sendTask[p].st.cks.i
        BY <1>6 DEF Index
    <2> QED
        BY <1>1, <1>3, <1>4, <1>5, <2>2, <2>4, <2>5 DEF PeerInv
<1>7. CASE ~(sendTask[p] # None /\ sendTask[p].stage = "persisted")
    <2>1. Index(ratchet[p], sendTask[p]) = ratchet[p].cks.i
        BY <1>7 DEF Index
    <2> QED
        BY <1>1, <1>3, <1>4, <1>5, <2>1 DEF PeerInv
<1> QED
    BY <1>6, <1>7

\* build_ratchet_wire reads the state.
LEMMA SendReadsSync ==
    ASSUME KeysInv, NumbersInv, LinesInv, NEW p \in Peers, SendReads(p),
           NEW ka, NEW ro, NEW T, DesyncAt(ka, ro, T)
    PROVE  DesyncAt(ka, ro, T)'
<1> DEFINE q == Other(p)
           st == ratchet[p]
           new == [stage |-> "read", st |-> ratchet[p]]
<1>1. /\ ratchet = [x \in Peers |-> ratchet[x]] /\ recvTask = [x \in Peers |-> recvTask[x]]
      /\ conv = [x \in Peers |-> conv[x]]
    BY DEF KeysInv, LinesInv
<1>2. /\ sendTask[p] = None /\ sendTask' = [sendTask EXCEPT ![p] = new]
      /\ UNCHANGED <<ratchet, conv, recvTask, fresh, net>>
    BY DEF SendReads
<1>3. /\ ratchet' = [ratchet EXCEPT ![p] = st] /\ recvTask' = [recvTask EXCEPT ![p] = recvTask[p]]
      /\ conv' = [conv EXCEPT ![p] = conv[p]]
    BY <1>1, <1>2
<1>4. q \in Peers /\ Other(q) = p
    BY PeersDiffer
<1>5. /\ InStep(ka, ro, T, p, st, sendTask[p], recvTask[p], Shown(conv[p]), net,
                Epoch(ratchet[q]), Index(ratchet[q], sendTask[q]))
      /\ InStep(ka, ro, T, q, ratchet[q], sendTask[q], recvTask[q], Shown(conv[q]), net,
                Epoch(st), Index(st, sendTask[p]))
      /\ Ordered(net) /\ History(ka, ro, T, fresh)
    BY <1>4 DEF DesyncAt
<1>6. new.st = st /\ Index(st, new) = Index(st, sendTask[p])
    BY <1>2 DEF Index
<1> HIDE DEF new, st
<1>7. InStep(ka, ro, T, p, st, new, recvTask[p], Shown(conv[p]), net,
             Epoch(ratchet[q]), Index(ratchet[q], sendTask[q]))
    BY <1>5, <1>6, InStepTasks
<1>8. Ordered(net') /\ History(ka, ro, T, fresh') /\ net' = net
    BY <1>2, <1>5
<1>9. InStep(ka, ro, T, p, st, new, recvTask[p], Shown(conv[p]), net',
             Epoch(ratchet[q]), Index(ratchet[q], sendTask[q]))
    BY <1>7, <1>8
<1>10. InStep(ka, ro, T, q, ratchet[q], sendTask[q], recvTask[q], Shown(conv[q]), net',
              Epoch(st), Index(st, new))
    BY <1>5, <1>6, <1>8
<1> HIDE DEF q
<1>11. q = Other(p)
    BY DEF q
<1> QED
    BY <1>2, <1>3, <1>8, <1>9, <1>10, <1>11, SyncStep

\* What is known of the peer p and of the other.
LEMMA SyncParts ==
    ASSUME NEW ka, NEW ro, NEW T, DesyncAt(ka, ro, T), NEW p \in Peers, NEW q, q = Other(p)
    PROVE  /\ InStep(ka, ro, T, p, ratchet[p], sendTask[p], recvTask[p], Shown(conv[p]), net,
                     Epoch(ratchet[q]), Index(ratchet[q], sendTask[q]))
           /\ InStep(ka, ro, T, q, ratchet[q], sendTask[q], recvTask[q], Shown(conv[q]), net,
                     Epoch(ratchet[p]), Index(ratchet[p], sendTask[p]))
           /\ Ordered(net) /\ History(ka, ro, T, fresh)
<1>1. q \in Peers /\ Other(q) = p
    BY PeersDiffer
<1> QED
    BY <1>1 DEF DesyncAt

\* Nothing is written but the tasks of p: they are dropped.
LEMMA DropSync ==
    ASSUME KeysInv, NumbersInv, LinesInv, NEW p \in Peers,
           SendErrs(p) \/ RecvErrs(p) \/ Crash(p),
           NEW ka, NEW ro, NEW T, DesyncAt(ka, ro, T)
    PROVE  DesyncAt(ka, ro, T)'
<1> DEFINE q == Other(p)
           st == ratchet[p]
           i == Index(ratchet[q], sendTask[q])
           task == sendTask'[p]
           rtask == recvTask'[p]
<1>1. /\ ratchet = [x \in Peers |-> ratchet[x]] /\ recvTask = [x \in Peers |-> recvTask[x]]
      /\ conv = [x \in Peers |-> conv[x]] /\ sendTask = [x \in Peers |-> sendTask[x]]
    BY DEF KeysInv, LinesInv
<1>2. /\ UNCHANGED <<ratchet, conv, fresh, net>>
      /\ task = None \/ task = sendTask[p]
      /\ rtask = None \/ rtask = recvTask[p]
      /\ sendTask' = [sendTask EXCEPT ![p] = task] /\ recvTask' = [recvTask EXCEPT ![p] = rtask]
    BY <1>1 DEF SendErrs, RecvErrs, Crash
<1>3. ratchet' = [ratchet EXCEPT ![p] = st] /\ conv' = [conv EXCEPT ![p] = conv[p]]
    BY <1>1, <1>2
<1>4. /\ InStep(ka, ro, T, p, st, sendTask[p], recvTask[p], Shown(conv[p]), net,
                Epoch(ratchet[q]), i)
      /\ InStep(ka, ro, T, q, ratchet[q], sendTask[q], recvTask[q], Shown(conv[q]), net,
                Epoch(st), Index(st, sendTask[p]))
      /\ Ordered(net) /\ History(ka, ro, T, fresh)
    BY SyncParts
<1>5. /\ Index(st, sendTask[p]) \in Nat /\ st.cks.i \in Nat
      /\ Index(st, sendTask[p]) <= st.cks.i
    BY PeerFacts
<1>6. Index(st, task) = st.cks.i \/ Index(st, task) = Index(st, sendTask[p])
    BY <1>2 DEF Index
<1> HIDE DEF st, task, rtask, i
<1>7. InStep(ka, ro, T, p, st, task, rtask, Shown(conv[p]), net, Epoch(ratchet[q]), i)
    BY <1>2, <1>4, InStepTasks
<1>8. Index(st, task) \in Nat /\ Index(st, sendTask[p]) <= Index(st, task)
    BY <1>5, <1>6
<1>9. InStep(ka, ro, T, q, ratchet[q], sendTask[q], recvTask[q], Shown(conv[q]), net,
             Epoch(st), Index(st, task))
    BY <1>4, <1>8, InStepLater
<1>10. Ordered(net') /\ History(ka, ro, T, fresh') /\ net' = net
    BY <1>2, <1>4
<1>11. InStep(ka, ro, T, p, st, task, rtask, Shown(conv[p]), net',
              Epoch(ratchet[q]), Index(ratchet[q], sendTask[q]))
    BY <1>7, <1>10 DEF i
<1>12. InStep(ka, ro, T, q, ratchet[q], sendTask[q], recvTask[q], Shown(conv[q]), net',
              Epoch(st), Index(st, task))
    BY <1>9, <1>10
<1> HIDE DEF q
<1>13. q = Other(p)
    BY DEF q
<1> QED
    BY <1>2, <1>3, <1>10, <1>11, <1>12, <1>13, SyncStep

\* ratchet_step_send touches the sending chain only.
LEMMA SameReceivingSent ==
    ASSUME NEW st, DOMAIN st = Fields
    PROVE  SameReceiving(st, StepSend(st))
<1> DEFINE t == StepSend(st)
<1>1. t.rk = st.rk /\ t.dhs = st.dhs /\ t.kem = st.kem /\ t.sendCt = st.sendCt
    BY Zenon DEF StepSend, Fields
<1>2. t.dhr = st.dhr /\ t.ckr = st.ckr /\ t.nr = st.nr
    BY Zenon DEF StepSend, Fields
<1>3. t.pn = st.pn /\ t.skipped = st.skipped /\ t.lost = st.lost
    BY Zenon DEF StepSend, Fields
<1> QED
    BY <1>1, <1>2, <1>3 DEF SameReceiving

\* It writes the state one index on ...
LEMMA SendPersistsSync ==
    ASSUME KeysInv, NumbersInv, LinesInv, NEW p \in Peers, SendPersists(p),
           NEW ka, NEW ro, NEW T, DesyncAt(ka, ro, T)
    PROVE  DesyncAt(ka, ro, T)'
<1> DEFINE q == Other(p)
           st == ratchet[p]
           t == StepSend(st)
           i == Index(ratchet[q], sendTask[q])
           new == [sendTask[p] EXCEPT !.stage = "persisted"]
<1>1. /\ recvTask = [x \in Peers |-> recvTask[x]] /\ conv = [x \in Peers |-> conv[x]]
    BY DEF KeysInv, LinesInv
<1>2. /\ sendTask[p] # None /\ sendTask[p].stage = "read"
      /\ ratchet' = [ratchet EXCEPT ![p] = StepSend(sendTask[p].st)]
      /\ sendTask' = [sendTask EXCEPT ![p] = new]
      /\ UNCHANGED <<conv, recvTask, fresh, net>>
    BY DEF SendPersists
<1>3. /\ sendTask[p] = [stage |-> sendTask[p].stage, st |-> sendTask[p].st]
      /\ sendTask[p].st = st /\ recvTask[p] = None /\ DOMAIN st = Fields
    BY <1>2, PeerFacts DEF PeerInv, SendSound, Counted
<1>4. new = [stage |-> "persisted", st |-> st]
    BY <1>3
<1>5. new.st = st /\ new.stage = "persisted"
    BY <1>4
<1>6. /\ InStep(ka, ro, T, p, st, sendTask[p], recvTask[p], Shown(conv[p]), net,
                Epoch(ratchet[q]), i)
      /\ InStep(ka, ro, T, q, ratchet[q], sendTask[q], recvTask[q], Shown(conv[q]), net,
                Epoch(st), Index(st, sendTask[p]))
      /\ Ordered(net) /\ History(ka, ro, T, fresh)
    BY SyncParts
<1>7. SameReceiving(st, t) /\ Sound(p, st, fresh[p])
    BY <1>3, SameReceivingSent, PeerFacts DEF PeerInv
<1>8. t.cks.i = st.cks.i + 1
    <2>1. t.cks = [root |-> st.cks.root, i |-> st.cks.i + 1]
        BY <1>7, StepSendSound
    <2> HIDE DEF t
    <2> QED
        BY <2>1
<1>9. Index(st, sendTask[p]) = st.cks.i /\ st.cks.i \in Nat
    BY <1>2, PeerFacts DEF Index
<1>10. ratchet' = [ratchet EXCEPT ![p] = t] /\ recvTask' = [recvTask EXCEPT ![p] = None]
       /\ conv' = [conv EXCEPT ![p] = conv[p]]
    BY <1>1, <1>2, <1>3
<1> HIDE DEF st, new, t, i
<1>11. Index(t, new) = st.cks.i \/ Index(t, new) = st.cks.i + 1
    BY <1>5, <1>8 DEF Index
<1>12. Index(t, new) \in Nat /\ Index(st, sendTask[p]) <= Index(t, new)
    BY <1>9, <1>11
<1>13. InStep(ka, ro, T, p, t, new, None, Shown(conv[p]), net, Epoch(ratchet[q]), i)
    BY <1>3, <1>5, <1>6, <1>7, InStepPersist
<1>14. Epoch(t) = Epoch(st)
    BY <1>7 DEF Epoch, SameReceiving
<1>15. InStep(ka, ro, T, q, ratchet[q], sendTask[q], recvTask[q], Shown(conv[q]), net,
              Epoch(t), Index(t, new))
    BY <1>6, <1>12, <1>14, InStepLater
<1>16. Ordered(net') /\ History(ka, ro, T, fresh') /\ net' = net
    BY <1>2, <1>6
<1>17. InStep(ka, ro, T, p, t, new, None, Shown(conv[p]), net',
              Epoch(ratchet[q]), Index(ratchet[q], sendTask[q]))
    BY <1>13, <1>16 DEF i
<1>18. InStep(ka, ro, T, q, ratchet[q], sendTask[q], recvTask[q], Shown(conv[q]), net',
              Epoch(t), Index(t, new))
    BY <1>15, <1>16
<1> HIDE DEF q
<1>19. q = Other(p)
    BY DEF q
<1> QED
    BY <1>2, <1>10, <1>16, <1>17, <1>18, <1>19, SyncStep

\* The wire of the state s, which p sent from, is on p's chain.
LEMMA PublishedOn ==
    ASSUME NEW ka, NEW ro, NEW st, On(ka, ro, st), NEW s, SameEpoch(s, st),
           s.cks = [root |-> s.rk, i |-> s.ns], s.ns \in Nat, s.pn \in Nat,
           NEW id, NEW to, NEW w, w = Sealed(id, to, HeaderOf(s), s.cks)
    PROVE  /\ WireOn(ka, ro, w, Epoch(st)) /\ ChainNo(w) = Epoch(st)
           /\ w.to = to /\ w.rh.n = s.cks.i /\ w.rh.pn = st.pn
<1> DEFINE c == Epoch(st)
<1>1. /\ c \in Nat \ {0} /\ st.rk = ro[c] /\ st.dhs = ka[c] /\ st.kem = ka[c]
      /\ st.sendCt = Encapsulated(ka, c)
    BY DEF On
<1>2. /\ s.rk = ro[c] /\ s.dhs = ka[c] /\ s.kem = ka[c]
      /\ s.sendCt = Encapsulated(ka, c) /\ s.pn = st.pn
    BY <1>1 DEF SameEpoch
<1>3. /\ w.to = to /\ w.mk = s.cks /\ w.rh.n = s.ns /\ w.rh.pn = s.pn
      /\ w.rh.dh = s.dhs /\ w.rh.kem_pub = s.kem /\ w.rh.kem_ct = s.sendCt
    BY DEF Sealed, HeaderOf, RatchetHeader
<1>4. Len(s.rk) = c
    BY DEF Epoch, SameEpoch
<1> HIDE DEF c
<1>5. w.mk = [root |-> ro[c], i |-> w.rh.n] /\ w.rh.n = s.cks.i /\ w.mk.root = s.rk
    BY <1>2, <1>3
<1>6. ChainNo(w) = c
    BY <1>4, <1>5 DEF ChainNo
<1>7. c \in 1..c
    BY <1>1
<1>8. WireOn(ka, ro, w, c)
    BY <1>2, <1>3, <1>5, <1>6, <1>7 DEF WireOn
<1> QED
    BY <1>2, <1>3, <1>5, <1>6, <1>8 DEF c

\* ... and publishes the wire.
LEMMA SendPublishesSync ==
    ASSUME KeysInv, NumbersInv, LinesInv, NEW p \in Peers, SendPublishes(p),
           NEW ka, NEW ro, NEW T, DesyncAt(ka, ro, T)
    PROVE  DesyncAt(ka, ro, T)'
<1> DEFINE q == Other(p)
           st == ratchet[p]
           s == sendTask[p].st
           i == Index(ratchet[q], sendTask[q])
           w == Sealed(<<p, sent[p]>>, q, HeaderOf(s), s.cks)
           P == net \cup {w}
<1>1. /\ recvTask = [x \in Peers |-> recvTask[x]] /\ conv = [x \in Peers |-> conv[x]]
      /\ ratchet = [x \in Peers |-> ratchet[x]]
    BY DEF KeysInv, LinesInv
<1>2. /\ sendTask[p] # None /\ sendTask[p].stage = "persisted"
      /\ net' = P /\ sendTask' = [sendTask EXCEPT ![p] = None]
      /\ UNCHANGED <<ratchet, conv, recvTask, fresh>>
    BY DEF SendPublishes
<1>3. Numbers(s, sent[p])
    BY <1>2 DEF NumbersInv, PeerNumbers
<1>4. s.cks = [root |-> s.rk, i |-> s.ns] /\ s.ns \in Nat /\ s.pn \in Nat
    BY <1>3 DEF Numbers, Counted
<1>5. /\ st.cks = [root |-> s.cks.root, i |-> s.cks.i + 1] /\ recvTask[p] = None
    BY <1>2, PeerFacts DEF PeerInv, SendSound
<1>6. /\ InStep(ka, ro, T, p, st, sendTask[p], recvTask[p], Shown(conv[p]), net,
                Epoch(ratchet[q]), i)
      /\ InStep(ka, ro, T, q, ratchet[q], sendTask[q], recvTask[q], Shown(conv[q]), net,
                Epoch(st), Index(st, sendTask[p]))
      /\ Ordered(net) /\ History(ka, ro, T, fresh)
    BY SyncParts
<1>7. On(ka, ro, st) /\ Announced(p, st, net) /\ SameEpoch(s, st)
      /\ \A m \in net : m.to = q => WireOn(ka, ro, m, Epoch(st))
    BY <1>2, <1>6, Zenon DEF InStep, Follows
<1>8. /\ WireOn(ka, ro, w, Epoch(st)) /\ ChainNo(w) = Epoch(st)
      /\ w.to = q /\ w.rh.n = s.cks.i /\ w.rh.pn = st.pn
    <2> DEFINE id == <<p, sent[p]>>
    <2> HIDE DEF s, st, id
    <2>1. w = Sealed(id, q, HeaderOf(s), s.cks)
        BY DEF id
    <2> HIDE DEF w
    <2> QED
        BY <1>4, <1>7, <2>1, PublishedOn
<1>9. Index(st, sendTask[p]) = s.cks.i /\ Index(st, None) = s.cks.i + 1
    <2>1. st.cks.i = s.cks.i + 1
        <3> HIDE DEF st, s
        <3> QED
            BY <1>5
    <2> QED
        BY <1>2, <2>1 DEF Index
<1>10. ratchet' = [ratchet EXCEPT ![p] = st] /\ recvTask' = [recvTask EXCEPT ![p] = None]
       /\ conv' = [conv EXCEPT ![p] = conv[p]]
    BY <1>1, <1>2, <1>5
<1>11. q \in Peers /\ q = Other(p)
    BY PeersDiffer
<1> HIDE DEF st, s, i, w, q
<1>12. InStep(ka, ro, T, p, st, None, None, Shown(conv[p]), P, Epoch(ratchet[q]), i)
    <2>1. P = net \cup {w}
        OBVIOUS
    <2> HIDE DEF P
    <2> QED
        BY <1>5, <1>6, <1>8, <1>11, <2>1, InStepOwn
<1>13. InStep(ka, ro, T, q, ratchet[q], sendTask[q], recvTask[q], Shown(conv[q]), P,
              Epoch(st), Index(st, None))
    <2> DEFINE n == s.cks.i
    <2>1. P = net \cup {w}
        OBVIOUS
    <2>2. InStep(ka, ro, T, q, ratchet[q], sendTask[q], recvTask[q], Shown(conv[q]), net,
                 Epoch(st), n)
        BY <1>6, <1>9
    <2>3. w.rh.n = n
        BY <1>8
    <2>4. Index(st, None) = n + 1
        BY <1>9
    <2> HIDE DEF P, n
    <2>5. InStep(ka, ro, T, q, ratchet[q], sendTask[q], recvTask[q], Shown(conv[q]), P,
                 Epoch(st), n + 1)
        BY <1>8, <1>11, <2>1, <2>2, <2>3, InStepOther
    <2> QED
        BY <2>5, <2>4
<1>14. Ordered(P)
    <2> SUFFICES ASSUME NEW a \in P, NEW m \in P, a.to = m.to, ChainNo(a) = ChainNo(m) - 2
                 PROVE  a.rh.n < m.rh.pn
        BY DEF Ordered
    <2>1. Epoch(st) \in Nat
        BY <1>7 DEF On
    <2>2. CASE a \in net /\ m \in net
        BY <1>6, <2>2 DEF Ordered
    <2>3. CASE m = w /\ a \in net
        BY <1>7, <1>8, <1>11, <2>3 DEF Announced
    <2>4. CASE a = w /\ m \in net
        <3>1. WireOn(ka, ro, m, Epoch(st))
            BY <1>7, <1>8, <2>4
        <3>2. ChainNo(m) \in 1..Epoch(st)
            BY <3>1 DEF WireOn
        <3>3. Epoch(st) = ChainNo(m) - 2
            BY <1>8, <2>4
        <3> QED
            BY <2>1, <3>2, <3>3
    <2>5. CASE a = w /\ m = w
        BY <1>8, <2>1, <2>5
    <2> QED
        BY <2>2, <2>3, <2>4, <2>5
<1>15. Ordered(net') /\ History(ka, ro, T, fresh')
    BY <1>2, <1>6, <1>14
<1> HIDE DEF P
<1>16. InStep(ka, ro, T, p, st, None, None, Shown(conv[p]), net',
              Epoch(ratchet[q]), Index(ratchet[q], sendTask[q]))
    BY <1>2, <1>12 DEF i
<1>17. InStep(ka, ro, T, q, ratchet[q], sendTask[q], recvTask[q], Shown(conv[q]), net',
              Epoch(st), Index(st, None))
    BY <1>2, <1>13
<1> QED
    BY <1>2, <1>10, <1>11, <1>15, <1>16, <1>17, SyncStep

\* store_incoming_message forgets nothing.
LEMMA StoredShown ==
    ASSUME NEW c, Once(c), NEW id \in KeyPairs
    PROVE  Shown(c) \subseteq Shown(Stored(c, id)) /\ id \in Shown(Stored(c, id))
<1>1. c \in Seq(KeyPairs) /\ Len(c) \in Nat /\ DOMAIN c = 1..Len(c)
    BY DEF Once
<1>2. CASE Contains(c, id)
    BY <1>1, <1>2 DEF Stored, Shown, Contains
<1>3. CASE ~Contains(c, id)
    <2> DEFINE d == Append(c, id)
    <2>1. /\ DOMAIN d = 1..(Len(c) + 1) /\ d[Len(c) + 1] = id /\ \A i \in 1..Len(c) : d[i] = c[i]
        BY <1>1
    <2>2. Stored(c, id) = d
        BY <1>3 DEF Stored
    <2> HIDE DEF d
    <2>3. Len(c) + 1 \in DOMAIN d /\ \A i \in 1..Len(c) : i \in DOMAIN d
        BY <1>1, <2>1
    <2> QED
        BY <1>1, <2>1, <2>2, <2>3 DEF Shown
<1> QED
    BY <1>2, <1>3

\* receive_ratchet_message stores the plaintext ...
LEMMA RecvStoresSync ==
    ASSUME KeysInv, NumbersInv, LinesInv, NEW p \in Peers, RecvStores(p),
           NEW ka, NEW ro, NEW T, DesyncAt(ka, ro, T)
    PROVE  DesyncAt(ka, ro, T)'
<1> DEFINE q == Other(p)
           st == ratchet[p]
           i == Index(ratchet[q], sendTask[q])
           c == Stored(conv[p], DedupId(recvTask[p].m))
           new == [recvTask[p] EXCEPT !.stage = "stored"]
<1>1. /\ sendTask = [x \in Peers |-> sendTask[x]] /\ ratchet = [x \in Peers |-> ratchet[x]]
    BY DEF KeysInv
<1>2. /\ recvTask[p] # None
      /\ conv' = [conv EXCEPT ![p] = c] /\ recvTask' = [recvTask EXCEPT ![p] = new]
      /\ UNCHANGED <<ratchet, sendTask, fresh, net>>
    BY DEF RecvStores
<1>3. /\ recvTask[p] = [stage |-> recvTask[p].stage, m |-> recvTask[p].m, st |-> recvTask[p].st]
      /\ recvTask[p].m.id \in KeyPairs /\ Once(conv[p])
    BY <1>2 DEF LinesInv, Receiving
<1>4. new.m = recvTask[p].m /\ new.st = recvTask[p].st
    BY <1>3
<1>5. Shown(conv[p]) \subseteq Shown(c) /\ recvTask[p].m.id \in Shown(c)
    BY <1>3, StoredShown DEF DedupId
<1>6. /\ InStep(ka, ro, T, p, st, sendTask[p], recvTask[p], Shown(conv[p]), net,
                Epoch(ratchet[q]), i)
      /\ InStep(ka, ro, T, q, ratchet[q], sendTask[q], recvTask[q], Shown(conv[q]), net,
                Epoch(st), Index(st, sendTask[p]))
      /\ Ordered(net) /\ History(ka, ro, T, fresh)
    BY SyncParts
<1>7. ratchet' = [ratchet EXCEPT ![p] = st] /\ sendTask' = [sendTask EXCEPT ![p] = sendTask[p]]
    BY <1>1, <1>2
<1> HIDE DEF st, i, c, new
<1>8. InStep(ka, ro, T, p, st, sendTask[p], new, Shown(c), net, Epoch(ratchet[q]), i)
    <2> DEFINE cv == Shown(conv[p])
               cw == Shown(c)
    <2>1. cv \subseteq cw /\ recvTask[p].m.id \in cw
        BY <1>5
    <2>2. InStep(ka, ro, T, p, st, sendTask[p], recvTask[p], cv, net, Epoch(ratchet[q]), i)
        BY <1>6
    <2> HIDE DEF cv, cw
    <2>3. InStep(ka, ro, T, p, st, sendTask[p], new, cw, net, Epoch(ratchet[q]), i)
        BY <1>2, <1>4, <2>1, <2>2, InStepStore
    <2> QED
        BY <2>3 DEF cw
<1>9. Ordered(net') /\ History(ka, ro, T, fresh') /\ net' = net
    BY <1>2, <1>6
<1>10. InStep(ka, ro, T, p, st, sendTask[p], new, Shown(c), net',
              Epoch(ratchet[q]), Index(ratchet[q], sendTask[q]))
    BY <1>8, <1>9 DEF i
<1>11. InStep(ka, ro, T, q, ratchet[q], sendTask[q], recvTask[q], Shown(conv[q]), net',
              Epoch(st), Index(st, sendTask[p]))
    BY <1>6, <1>9
<1> HIDE DEF q
<1>12. q = Other(p)
    BY DEF q
<1> QED
    BY <1>2, <1>7, <1>9, <1>10, <1>11, <1>12, SyncStep

\* ... and writes the state.
LEMMA RecvCommitsSync ==
    ASSUME KeysInv, NumbersInv, LinesInv, NEW p \in Peers, RecvCommits(p),
           NEW ka, NEW ro, NEW T, DesyncAt(ka, ro, T)
    PROVE  DesyncAt(ka, ro, T)'
<1> DEFINE q == Other(p)
           st == ratchet[p]
           sq == ratchet[q]
           i == Index(sq, sendTask[q])
           rtask == recvTask[p]
           t == recvTask[p].st
<1>1. /\ sendTask = [x \in Peers |-> sendTask[x]] /\ conv = [x \in Peers |-> conv[x]]
    BY DEF KeysInv, LinesInv
<1>2. /\ rtask # None /\ rtask.stage = "stored"
      /\ ratchet' = [ratchet EXCEPT ![p] = t] /\ recvTask' = [recvTask EXCEPT ![p] = None]
      /\ UNCHANGED <<conv, sendTask, fresh, net>>
    BY DEF RecvCommits
<1>3. sendTask[p] = None
    BY <1>2, PeerFacts
<1>4. Sound(p, t, fresh[p])
    BY <1>2, PeerFacts DEF PeerInv, RecvSound
<1>5. t.cks.i \in Nat /\ Index(t, None) = t.cks.i /\ Index(st, sendTask[p]) = st.cks.i
    BY <1>3, <1>4 DEF Sound, Index
<1>6. /\ InStep(ka, ro, T, p, st, None, rtask, Shown(conv[p]), net, Epoch(sq), i)
      /\ InStep(ka, ro, T, q, sq, sendTask[q], recvTask[q], Shown(conv[q]), net,
                Epoch(st), Index(st, sendTask[p]))
      /\ Ordered(net) /\ History(ka, ro, T, fresh)
    BY <1>3, SyncParts
<1>7. /\ Nearby(st, t, Epoch(sq)) /\ Next2(Epoch(sq), Epoch(st))
      /\ Epoch(st) \in Nat /\ Epoch(sq) \in Nat
    BY <1>2, <1>6, Zenon DEF InStep
<1>8. /\ sendTask' = [sendTask EXCEPT ![p] = None] /\ conv' = [conv EXCEPT ![p] = conv[p]]
    BY <1>1, <1>2, <1>3
<1>9. t = rtask.st
    OBVIOUS
<1> HIDE DEF st, sq, i, t, rtask
<1>10. InStep(ka, ro, T, p, t, None, None, Shown(conv[p]), net, Epoch(sq), i)
    BY <1>2, <1>6, <1>9, InStepCommit
<1>11. InStep(ka, ro, T, q, sq, sendTask[q], recvTask[q], Shown(conv[q]), net,
              Epoch(t), Index(t, None))
    <2>1. CASE Epoch(t) = Epoch(st) /\ t.cks = st.cks
        BY <1>5, <1>6, <2>1
    <2>2. CASE Epoch(t) = Epoch(st) + 2 /\ Epoch(sq) = Epoch(st) + 1
        <3> DEFINE d == Epoch(st)
                   e == Epoch(t)
                   j == t.cks.i
        <3>1. d # Epoch(sq) + 1 /\ e = Epoch(sq) + 1
            BY <1>7, <2>2
        <3>2. InStep(ka, ro, T, q, sq, sendTask[q], recvTask[q], Shown(conv[q]), net, d,
                     Index(st, sendTask[p]))
            BY <1>6
        <3>3. j \in Nat
            BY <1>5
        <3> HIDE DEF d, e, j
        <3>4. InStep(ka, ro, T, q, sq, sendTask[q], recvTask[q], Shown(conv[q]), net, e, j)
            BY <3>1, <3>2, <3>3, InStepTurned
        <3> QED
            BY <1>5, <3>4 DEF e, j
    <2> QED
        BY <1>7, <2>1, <2>2 DEF Nearby
<1>12. Ordered(net') /\ History(ka, ro, T, fresh') /\ net' = net
    BY <1>2, <1>6
<1>13. InStep(ka, ro, T, p, t, None, None, Shown(conv[p]), net',
              Epoch(ratchet[q]), Index(ratchet[q], sendTask[q]))
    BY <1>10, <1>12 DEF i, sq
<1>14. InStep(ka, ro, T, q, ratchet[q], sendTask[q], recvTask[q], Shown(conv[q]), net',
              Epoch(t), Index(t, None))
    BY <1>11, <1>12 DEF sq
<1> HIDE DEF q
<1>15. q = Other(p)
    BY DEF q
<1> QED
    BY <1>2, <1>8, <1>12, <1>13, <1>14, <1>15, SyncStep

\* A stash a week later.
Aged(s) == [j \in DOMAIN s |-> [s[j] EXCEPT !.aged = TRUE]]

\* Its keys are the same.
LEMMA AgedStash ==
    ASSUME NEW s, Stash(s), NEW ka, NEW ro, NEW c, StashOn(ka, ro, s, c)
    PROVE  StashOn(ka, ro, Aged(s), c) /\ MksOf(Aged(s)) = MksOf(s)
<1> DEFINE r == Aged(s)
<1>1. PICK U : s \in Seq(U)
    BY DEF Stash
<1>2. /\ DOMAIN s = 1..Len(s) /\ Len(s) \in Nat
    BY <1>1
<1>3. Len(r) = Len(s)
    BY <1>2 DEF Aged
<1>4. ASSUME NEW j \in 1..Len(s)
      PROVE  r[j].mk = s[j].mk /\ EntryOn(ka, ro, r[j], c)
    <2>1. r[j] = [s[j] EXCEPT !.aged = TRUE]
        BY <1>2 DEF Aged
    <2>2. EntryOn(ka, ro, s[j], c)
        BY DEF StashOn, Entries
    <2> DEFINE e == s[j]
               x == r[j]
    <2>3. e = [dh |-> e.dh, n |-> e.n, aged |-> e.aged, mk |-> e.mk]
        BY <2>2 DEF EntryOn, Entry
    <2> HIDE DEF r, e, x
    <2>4. x = [dh |-> e.dh, n |-> e.n, aged |-> TRUE, mk |-> e.mk]
        BY <2>1, <2>3 DEF e, x
    <2>5. x.mk = e.mk /\ x.n = e.n /\ x.dh = e.dh /\ Entry(x)
        BY <2>4 DEF Entry
    <2>6. EntryOn(ka, ro, x, c)
        BY <2>2, <2>5 DEF EntryOn, ChainNo, e
    <2> QED
        BY <2>5, <2>6 DEF e, x
<1> HIDE DEF r
<1>5. StashOn(ka, ro, r, c)
    BY <1>3, <1>4 DEF StashOn, Entries
<1>6. MksOf(r) = MksOf(s)
    BY <1>3, <1>4 DEF MksOf
<1> QED
    BY <1>5, <1>6 DEF r

\* The state after the skipped-key TTL elapsed.
Older(st, t) == t = [st EXCEPT !.skipped = Aged(st.skipped)]

\* It is at the same turn.
LEMMA InStepAged ==
    ASSUME NEW ka, NEW ro, NEW T, NEW p, NEW st, NEW cv, NEW N,
           NEW d, NEW i, InStep(ka, ro, T, p, st, None, None, cv, N, d, i),
           Counted(st), NEW t, Older(st, t)
    PROVE  /\ InStep(ka, ro, T, p, t, None, None, cv, N, d, i)
           /\ Epoch(t) = Epoch(st) /\ t.cks = st.cks
<1> DEFINE aged == Aged(st.skipped)
           L == {}
<1>1. L = {}
    OBVIOUS
<1>2. DOMAIN st = Fields /\ Stash(st.skipped)
    BY DEF Counted
<1>3. t = [st EXCEPT !.skipped = aged]
    BY DEF Older
<1>4. Follows(ka, ro, T, p, st, d, i, N, cv, L)
    BY <1>1, Zenon DEF InStep
<1>5. On(ka, ro, st) /\ Accounted(p, st, N, cv, L) /\ Announced(p, st, N)
    BY <1>4, Zenon DEF Follows
<1>6. MksOf(aged) = MksOf(st.skipped) /\ StashOn(ka, ro, aged, Epoch(st) - 1)
    <2> DEFINE s == st.skipped
               b == Epoch(st) - 1
    <2>1. Stash(s) /\ StashOn(ka, ro, s, b)
        BY <1>2, <1>5 DEF On
    <2> HIDE DEF s, b
    <2>2. StashOn(ka, ro, Aged(s), b) /\ MksOf(Aged(s)) = MksOf(s)
        BY <2>1, AgedStash
    <2> QED
        BY <2>2 DEF s, b
<1> HIDE DEF aged, L
<1>7. t.rk = st.rk /\ t.cks = st.cks /\ t.dhs = st.dhs
    BY <1>2, <1>3, Zenon DEF Fields
<1>8. t.kem = st.kem /\ t.sendCt = st.sendCt /\ t.dhr = st.dhr
    BY <1>2, <1>3, Zenon DEF Fields
<1>9. t.ckr = st.ckr /\ t.nr = st.nr /\ t.pn = st.pn
    BY <1>2, <1>3, Zenon DEF Fields
<1>10. t.lost = st.lost
    BY <1>2, <1>3, Zenon DEF Fields
<1>11. t.skipped = aged
    BY <1>2, <1>3, Zenon DEF Fields
<1>12. Epoch(t) = Epoch(st)
    BY <1>7 DEF Epoch
<1>13. On(ka, ro, t)
    BY <1>7, <1>8, <1>9, <1>11, <1>12, <1>5, <1>6, Zenon DEF On
<1>14. Accounted(p, t, N, cv, L) /\ Announced(p, t, N)
    BY <1>9, <1>10, <1>11, <1>12, <1>5, <1>6 DEF Accounted, Announced, Behind
<1>15. Follows(ka, ro, T, p, t, d, i, N, cv, L)
    BY <1>9, <1>12, <1>4, <1>13, <1>14, Zenon DEF Follows
<1>16. InStep(ka, ro, T, p, t, None, None, cv, N, d, i)
    BY <1>1, <1>12, <1>15, Zenon DEF InStep
<1> QED
    BY <1>7, <1>12, <1>16

\* Both peers are a week older.
LEMMA WeekPassesSync ==
    ASSUME KeysInv, NumbersInv, LinesInv, WeekPasses, NEW ka, NEW ro, NEW T, DesyncAt(ka, ro, T)
    PROVE  DesyncAt(ka, ro, T)'
<1>1. /\ \A p \in Peers : sendTask[p] = None /\ recvTask[p] = None
      /\ ratchet' = [p \in Peers |-> [ratchet[p] EXCEPT !.skipped =
                       [j \in DOMAIN @ |-> [@[j] EXCEPT !.aged = TRUE]]]]
      /\ UNCHANGED <<conv, sendTask, recvTask, fresh, net>>
    BY DEF WeekPasses
<1>2. \A p \in Peers : Older(ratchet[p], ratchet'[p])
    BY <1>1 DEF Older, Aged
<1>3. \A p \in Peers :
         InStep(ka, ro, T, p, ratchet[p], sendTask[p], recvTask[p], Shown(conv[p]), net,
                Epoch(ratchet[Other(p)]), Index(ratchet[Other(p)], sendTask[Other(p)]))
    BY DEF DesyncAt
<1>4. ASSUME NEW p \in Peers
      PROVE  /\ InStep(ka, ro, T, p, ratchet'[p], None, None, Shown(conv[p]), net,
                       Epoch(ratchet[Other(p)]), Index(ratchet[Other(p)], sendTask[Other(p)]))
             /\ Epoch(ratchet'[p]) = Epoch(ratchet[p]) /\ ratchet'[p].cks = ratchet[p].cks
    <2> DEFINE d == Epoch(ratchet[Other(p)])
               i == Index(ratchet[Other(p)], sendTask[Other(p)])
               cv == Shown(conv[p])
               st == ratchet[p]
               t == ratchet'[p]
    <2>1. InStep(ka, ro, T, p, st, None, None, cv, net, d, i)
        BY <1>1, <1>3
    <2>2. Counted(st) /\ Older(st, t)
        BY <1>2, PeerFacts
    <2> HIDE DEF d, i, cv, st, t
    <2>3. /\ InStep(ka, ro, T, p, t, None, None, cv, net, d, i)
          /\ Epoch(t) = Epoch(st) /\ t.cks = st.cks
        BY <2>1, <2>2, InStepAged
    <2> QED
        BY <2>3 DEF d, i, cv, st, t
<1>5. ASSUME NEW p \in Peers
      PROVE  InStep(ka, ro, T, p, ratchet'[p], sendTask'[p], recvTask'[p], Shown(conv'[p]), net',
                    Epoch(ratchet'[Other(p)]), Index(ratchet'[Other(p)], sendTask'[Other(p)]))
    <2>1. Other(p) \in Peers
        BY PeersDiffer
    <2>2. /\ Epoch(ratchet'[Other(p)]) = Epoch(ratchet[Other(p)])
          /\ ratchet'[Other(p)].cks = ratchet[Other(p)].cks
        BY <1>4, <2>1
    <2>3. Index(ratchet'[Other(p)], sendTask'[Other(p)]) = Index(ratchet[Other(p)], sendTask[Other(p)])
        BY <1>1, <2>1, <2>2 DEF Index
    <2>4. sendTask'[p] = None /\ recvTask'[p] = None /\ conv' = conv /\ net' = net
        BY <1>1
    <2> QED
        BY <1>4, <2>2, <2>3, <2>4
<1>6. History(ka, ro, T, fresh') /\ Ordered(net')
    BY <1>1 DEF DesyncAt
<1> QED
    BY <1>5, <1>6 DEF DesyncAt

\* The wires of the peer x are on its chains, those on its last below its next index.
LEMMA WiresOf ==
    ASSUME KeysInv, NumbersInv, NEW ka, NEW ro, NEW T, DesyncAt(ka, ro, T),
           NEW x \in Peers, NEW d, d = Epoch(ratchet[x]),
           NEW i, i = Index(ratchet[x], sendTask[x]), NEW w \in net, w.to = Other(x)
    PROVE  WireOn(ka, ro, w, d) /\ (ChainNo(w) = d => w.rh.n < i)
<1> DEFINE y == Other(x)
<1>1. InStep(ka, ro, T, x, ratchet[x], sendTask[x], recvTask[x], Shown(conv[x]), net,
             Epoch(ratchet[y]), Index(ratchet[y], sendTask[y]))
    BY SyncParts
<1> HIDE DEF y
<1>2. WireOn(ka, ro, w, d) /\ On(ka, ro, ratchet[x])
    BY <1>1, Zenon DEF InStep, Follows
<1>3. ratchet[x].rk = ro[d]
    BY <1>2 DEF On
<1>4. ratchet[x].cks.root = ratchet[x].rk /\ i \in Nat
      /\ Below(x, ratchet[x].cks.root, i, net)
    BY PeerFacts DEF PeerInv
<1>5. w.mk = [root |-> ro[ChainNo(w)], i |-> w.rh.n] /\ w.rh.n \in Nat
    BY <1>2 DEF WireOn
<1>6. ASSUME ChainNo(w) = d PROVE w.rh.n < i
    <2>1. w.mk.root = ro[d] /\ w.mk.i = w.rh.n
        BY <1>5, <1>6
    <2>2. w.mk.i \in 0..i - 1
        BY <1>3, <1>4, <2>1 DEF Below
    <2> QED
        BY <1>4, <1>5, <2>1, <2>2
<1> QED
    BY <1>2, <1>6

\* No wire to p is on the chain p sends on.
LEMMA OtherChains ==
    ASSUME KeysInv, NEW p \in Peers, NEW w \in net, w.to = p
    PROVE  w.mk.root # ratchet[p].rk
<1>1. Sending(Other(p), w.mk.root, fresh[Other(p)])
    BY DEF KeysInv, WiresInv, Wire
<1>2. Sending(p, ratchet[p].rk, fresh[p])
    BY DEF KeysInv, PeerInv, Sound
<1> QED
    BY <1>1, <1>2, ChainsDiffer

\* A receive finds all it may take for granted.
LEMMA ReceiverReady ==
    ASSUME KeysInv, NumbersInv, NEW ka, NEW ro, NEW T, DesyncAt(ka, ro, T),
           NEW p \in Peers, NEW q, q = Other(p)
    PROVE  Ready(ka, ro, T, fresh, p, ratchet[p], Epoch(ratchet[q]),
                 Index(ratchet[q], sendTask[q]), net, Shown(conv[p]))
<1> DEFINE st == ratchet[p]
           d == Epoch(ratchet[q])
           i == Index(ratchet[q], sendTask[q])
           cv == Shown(conv[p])
<1>1. q \in Peers /\ p = Other(q)
    BY PeersDiffer
<1>2. /\ InStep(ka, ro, T, p, st, sendTask[p], recvTask[p], cv, net, d, i)
      /\ InStep(ka, ro, T, q, ratchet[q], sendTask[q], recvTask[q], Shown(conv[q]), net,
                Epoch(ratchet[p]), Index(ratchet[p], sendTask[p]))
      /\ Ordered(net) /\ History(ka, ro, T, fresh)
    BY SyncParts
<1>3. \A w \in net : w.to = p => WireOn(ka, ro, w, d) /\ (ChainNo(w) = d => w.rh.n < i)
    BY <1>1, WiresOf
<1>4. \A w \in net : w.to = p => w.mk.root # st.rk
    BY OtherChains
<1>5. Counted(st)
    BY PeerFacts
<1>6. d <= T
    BY <1>2, Zenon DEF InStep, Follows
<1> HIDE DEF st, d, i, cv
<1>7. d \in Nat /\ i \in Nat /\ Next2(Epoch(st), d)
      /\ Follows(ka, ro, T, p, st, d, i, net, cv, {})
    BY <1>2, Zenon DEF InStep
<1>8. Facts(ka, ro, p, st, net, d)
    BY <1>3, <1>4 DEF Facts
<1>9. \A w \in net : w.to = p /\ ChainNo(w) = d => w.rh.n < i
    BY <1>3
<1>10. Ready(ka, ro, T, fresh, p, st, d, i, net, cv)
    BY <1>2, <1>5, <1>6, <1>7, <1>8, <1>9, Zenon DEF Ready
<1> QED
    BY <1>10 DEF st, d, i, cv

\* A receive that opens a message, with no turn.
LEMMA InStepOpens ==
    ASSUME NEW ka, NEW ro, NEW T, NEW p, NEW st, NEW task, NEW rtask, NEW cv, NEW N,
           NEW d, NEW i, InStep(ka, ro, T, p, st, task, rtask, cv, N, d, i),
           NEW m, NEW t, NEW L, L = {m}, Follows(ka, ro, T, p, t, d, i, N, cv, L), Nearby(st, t, d)
    PROVE  InStep(ka, ro, T, p, st, task, [stage |-> "opened", m |-> m, st |-> t], cv, N, d, i)
<1> DEFINE new == [stage |-> "opened", m |-> m, st |-> t]
<1>1. new.m = m /\ new.st = t /\ new.stage # "stored"
    OBVIOUS
<1> HIDE DEF new
<1>2. Follows(ka, ro, T, p, new.st, d, i, N, cv, {new.m}) /\ Nearby(st, new.st, d)
    BY <1>1
<1>3. InStep(ka, ro, T, p, st, task, new, cv, N, d, i)
    BY <1>1, <1>2, Zenon DEF InStep
<1> QED
    BY <1>3 DEF new

\* The other peer is where the new turn of p finds it.
LEMMA OtherInTurn ==
    ASSUME NEW ka, NEW ro, NEW T, NEW q, NEW sq, NEW task, NEW rtask, NEW cv, NEW N,
           NEW c, NEW j, InStep(ka, ro, T, q, sq, task, rtask, cv, N, c, j),
           NEW d \in Nat, d = Epoch(sq), d = c + 1, NEW e, e = d + 1,
           NEW kb, NEW rp, SameUpTo(d, ka, ro, kb, rp)
    PROVE  InStep(kb, rp, e, q, sq, task, rtask, cv, N, c, j)
<1>1. c \in Nat
    BY Zenon DEF InStep
<1>2. ASSUME rtask # None PROVE Epoch(rtask.st) <= d
    <2> DEFINE t == rtask.st
    <2>1. Nearby(sq, t, c)
        BY <1>2, Zenon DEF InStep
    <2> HIDE DEF t
    <2>2. Epoch(t) = d
        BY <1>1, <2>1 DEF Nearby
    <2> QED
        BY <2>2 DEF t
<1>3. Epoch(sq) <= d /\ e \in Nat /\ d <= e
    OBVIOUS
<1> QED
    BY <1>2, <1>3, InStepHistory

\* receive_ratchet_message opens a wire; a turn extends the history.
LEMMA RecvAdvancesSync ==
    ASSUME ~Overlap, KeysInv, NumbersInv, LinesInv, NEW p \in Peers, NEW m \in net, RecvAdvances(p, m),
           NEW ka, NEW ro, NEW T, DesyncAt(ka, ro, T)
    PROVE  DesyncInv'
<1> DEFINE q == Other(p)
           st == ratchet[p]
           sq == ratchet[q]
           d == Epoch(sq)
           i == Index(sq, sendTask[q])
           cv == Shown(conv[p])
           k == <<p, fresh[p] + 1>>
           g == [fresh EXCEPT ![p] = fresh[p] + 1]
           r == StepRecv(st, m.rh, k)
           t == r.st
           new == [stage |-> "opened", m |-> m, st |-> t]
<1>1. /\ sendTask = [x \in Peers |-> sendTask[x]] /\ conv = [x \in Peers |-> conv[x]]
      /\ ratchet = [x \in Peers |-> ratchet[x]] /\ fresh \in [Peers -> Nat]
    BY DEF KeysInv, LinesInv
<1>2. /\ sendTask[p] = None /\ recvTask[p] = None /\ m.to = p
      /\ recvTask' = [recvTask EXCEPT ![p] = new]
      /\ UNCHANGED <<ratchet, conv, sendTask, net>>
    BY DEF RecvAdvances, MayStart, Clone
<1>3. Opens(r, m) /\ fresh' = [fresh EXCEPT ![p] = IF r.turned THEN @ + 1 ELSE @]
    BY DEF RecvAdvances, Clone
<1>4. (r.turned => fresh' = g) /\ (~r.turned => fresh' = fresh)
    BY <1>1, <1>3
<1>5. Draws(fresh, p, k, g)
    BY DEF Draws
<1>6. Ready(ka, ro, T, fresh, p, st, d, i, net, cv)
    BY ReceiverReady
<1>7. Alone(net, m)
    BY DEF KeysInv, NoKeyReuse, Alone
<1>8. Sent(ka, ro, p, st, net)
    <2>1. Index(st, sendTask[p]) = st.ns
        BY <1>2, PeerFacts DEF Index
    <2> QED
        BY <2>1, WiresOf DEF Sent
<1>9. /\ InStep(ka, ro, T, p, st, None, None, cv, net, d, i)
      /\ InStep(ka, ro, T, q, sq, sendTask[q], recvTask[q], Shown(conv[q]), net,
                Epoch(st), Index(st, None))
      /\ Ordered(net)
    BY <1>2, SyncParts
<1>10. /\ ratchet' = [ratchet EXCEPT ![p] = st] /\ sendTask' = [sendTask EXCEPT ![p] = None]
       /\ conv' = [conv EXCEPT ![p] = conv[p]] /\ net' = net
    BY <1>1, <1>2
<1>11. q = Other(p) /\ d = Epoch(sq) /\ r = StepRecv(st, m.rh, k) /\ t = r.st
    OBVIOUS
<1>12. i = Index(ratchet[q], sendTask[q]) /\ sq = ratchet[q] /\ cv = Shown(conv[p])
       /\ new = [stage |-> "opened", m |-> m, st |-> t]
    OBVIOUS
<1> HIDE DEF q, st, sq, d, i, cv, k, g, r, t, new
<1>13. /\ History(ka, ro, T, fresh) /\ Counted(st) /\ d \in Nat /\ i \in Nat
       /\ Follows(ka, ro, T, p, st, d, i, net, cv, {}) /\ Facts(ka, ro, p, st, net, d)
       /\ Next2(Epoch(st), d) /\ d <= T /\ Ordered(net)
       /\ \A w \in net : w.to = p /\ ChainNo(w) = d => w.rh.n < i
    BY <1>6, Zenon DEF Ready
<1>14. /\ Nearby(st, r.st, d)
       /\ \/ ~r.turned /\ Follows(ka, ro, T, p, r.st, d, i, net, cv, {m})
          \/ /\ r.turned /\ d = Epoch(st) + 1
             /\ NewTurn(ka, ro, d + 1, g, p, r.st, d, i, net, cv, m)
    <2>1. fresh \in [Peers -> Nat] /\ m.to = p /\ Opens(r, m) /\ r = StepRecv(st, m.rh, k)
        BY <1>1, <1>2, <1>3, <1>11
    <2>2. Advanced(ka, ro, T, g, p, st, r, d, i, net, cv, m)
        BY <1>5, <1>6, <1>7, <1>8, <2>1, AdvanceCases
    <2> QED
        BY <2>2 DEF Advanced
<1>15. CASE ~r.turned /\ Follows(ka, ro, T, p, r.st, d, i, net, cv, {m})
    <2> DEFINE L == {m}
    <2>1. L = {m} /\ Follows(ka, ro, T, p, t, d, i, net, cv, L) /\ Nearby(st, t, d)
        BY <1>11, <1>14, <1>15
    <2> HIDE DEF L
    <2>2. InStep(ka, ro, T, p, st, None, new, cv, net, d, i)
        BY <1>9, <1>12, <2>1, InStepOpens
    <2>3. InStep(ka, ro, T, p, st, None, new, Shown(conv[p]), net',
                 Epoch(ratchet[q]), Index(ratchet[q], sendTask[q]))
        BY <1>10, <1>11, <1>12, <2>2
    <2>4. InStep(ka, ro, T, q, ratchet[q], sendTask[q], recvTask[q], Shown(conv[q]), net',
                 Epoch(st), Index(st, None))
        BY <1>9, <1>10, <1>12
    <2>5. Ordered(net') /\ History(ka, ro, T, fresh')
        BY <1>4, <1>10, <1>13, <1>15
    <2>6. DesyncAt(ka, ro, T)'
        BY <1>2, <1>10, <1>11, <2>3, <2>4, <2>5, SyncStep
    <2> QED
        BY <2>6 DEF DesyncInv
<1>16. CASE r.turned /\ d = Epoch(st) + 1 /\ NewTurn(ka, ro, d + 1, g, p, r.st, d, i, net, cv, m)
    <2> DEFINE L == {m}
               c == Epoch(st)
    <2>1. PICK e : e = d + 1
        OBVIOUS
    <2>2. PICK kb, rp : /\ History(kb, rp, e, g) /\ SameUpTo(d, ka, ro, kb, rp)
                        /\ Follows(kb, rp, e, p, t, d, i, net, cv, L)
        BY <1>11, <1>16, <2>1 DEF NewTurn
    <2>3. c \in Nat
        BY <1>13 DEF Follows, On
    <2>4. c <= d /\ e \in Nat /\ d <= e /\ L = {m} /\ d = c + 1 /\ e = d + 1
        BY <1>13, <1>16, <2>1, <2>3
    <2>5. InStep(ka, ro, T, q, sq, sendTask[q], recvTask[q], Shown(conv[q]), net,
                 c, Index(st, None))
        BY <1>9
    <2>6. c = Epoch(st)
        OBVIOUS
    <2> HIDE DEF L, c
    <2>7. InStep(kb, rp, e, p, st, None, None, cv, net, d, i)
        BY <1>9, <1>13, <2>2, <2>4, <2>6, InStepHistory
    <2>8. InStep(kb, rp, e, p, st, None, new, cv, net, d, i)
        BY <1>11, <1>12, <1>14, <2>2, <2>4, <2>7, InStepOpens
    <2>9. InStep(kb, rp, e, q, sq, sendTask[q], recvTask[q], Shown(conv[q]), net,
                 c, Index(st, None))
        BY ZenonT(60), <1>11, <1>13, <2>2, <2>4, <2>5, OtherInTurn
    <2>10. InStep(kb, rp, e, p, st, None, new, Shown(conv[p]), net',
                  Epoch(ratchet[q]), Index(ratchet[q], sendTask[q]))
        BY <1>10, <1>11, <1>12, <2>8
    <2>11. InStep(kb, rp, e, q, ratchet[q], sendTask[q], recvTask[q], Shown(conv[q]), net',
                  Epoch(st), Index(st, None))
        BY <1>10, <1>12, <2>6, <2>9
    <2>12. Ordered(net') /\ History(kb, rp, e, fresh')
        BY <1>4, <1>10, <1>13, <1>16, <2>2
    <2>13. DesyncAt(kb, rp, e)'
        <3>1. recvTask' = [recvTask EXCEPT ![p] = new]
            BY <1>2
        <3> QED
            BY <1>10, <1>11, <2>10, <2>11, <2>12, <3>1, SyncStep
    <2> QED
        BY <2>13 DEF DesyncInv
<1> QED
    BY <1>14, <1>15, <1>16

-----------------------------------------------------------------------------
(* The handshake, every step, and the theorem.                             *)

\* The states the handshake leaves.
FirstOf(a0, i0, st) ==
    /\ st.rk = KdfRk(<<>>, {a0, i0}, None) /\ st.dhs = a0 /\ st.kem = a0
    /\ st.sendCt = None /\ st.dhr = i0 /\ st.ckr = None /\ st.nr = 0 /\ st.skipped = <<>>

\* ratchet_init_initiator makes the first ...
LEMMA InitiatorFirst ==
    ASSUME NEW a0, NEW i0 PROVE FirstOf(a0, i0, InitInitiator(a0, i0))
<1> DEFINE st == InitInitiator(a0, i0)
<1>1. /\ DOMAIN EmptyState = Fields
      /\ EmptyState.sendCt = None /\ EmptyState.ckr = None /\ EmptyState.nr = 0
      /\ EmptyState.skipped = <<>>
    <2>1. DOMAIN EmptyState = Fields
        BY Zenon DEF EmptyState, Fields
    <2> QED
        BY <2>1 DEF EmptyState
<1>2. st.rk = KdfRk(<<>>, {a0, i0}, None)
    BY <1>1, Zenon DEF InitInitiator, RootInit, Fields
<1>3. st.dhs = a0
    BY <1>1, Zenon DEF InitInitiator, Fields
<1>4. st.kem = a0
    BY <1>1, Zenon DEF InitInitiator, Fields
<1>5. st.dhr = i0
    BY <1>1, Zenon DEF InitInitiator, Fields
<1>6. st.sendCt = EmptyState.sendCt
    BY <1>1, Zenon DEF InitInitiator, Fields
<1>7. st.ckr = EmptyState.ckr
    BY <1>1, Zenon DEF InitInitiator, Fields
<1>8. st.nr = EmptyState.nr
    BY <1>1, Zenon DEF InitInitiator, Fields
<1>9. st.skipped = EmptyState.skipped
    BY <1>1, Zenon DEF InitInitiator, Fields
<1> QED
    BY <1>1, <1>2, <1>3, <1>4, <1>5, <1>6, <1>7, <1>8, <1>9, Zenon DEF FirstOf

SecondOf(a0, i0, i1, st) ==
    LET rk == KdfRk(<<>>, {i0, a0}, None)
    IN  /\ st.rk = KdfRk(rk, {i1, a0}, i1) /\ st.dhs = i1 /\ st.kem = i1
        /\ st.sendCt = [to |-> a0, ss |-> i1] /\ st.dhr = a0
        /\ st.ckr = Chain(rk) /\ st.nr = 0 /\ st.skipped = <<>>
        /\ st.cks = Chain(st.rk)

\* ... and ratchet_init_responder the second.
LEMMA ResponderSecond ==
    ASSUME NEW a0, a0 # None, NEW i0, NEW i1
    PROVE  SecondOf(a0, i0, i1, InitResponder(i0, a0, a0, i1))
<1> DEFINE st == InitResponder(i0, a0, a0, i1)
           E == [EmptyState EXCEPT !.dhs = i0, !.kem = i0, !.peerKem = a0]
<1>1. /\ DOMAIN EmptyState = Fields /\ EmptyState.rk = <<>> /\ EmptyState.skipped = <<>>
    <2>1. DOMAIN EmptyState = Fields
        BY Zenon DEF EmptyState, Fields
    <2> QED
        BY <2>1 DEF EmptyState, RootInit
<1>2. DOMAIN E = Fields
    BY <1>1, Zenon
<1>3. E.rk = EmptyState.rk
    BY <1>1, Zenon DEF Fields
<1>4. E.dhs = i0
    BY <1>1, Zenon DEF Fields
<1>5. E.peerKem = a0
    BY <1>1, Zenon DEF Fields
<1>6. E.skipped = EmptyState.skipped
    BY <1>1, Zenon DEF Fields
<1>7. st = DhRatchet(E, a0, None, i1)
    BY DEF InitResponder
<1> HIDE DEF E, st
<1>8. TurnOf(E, a0, None, i1, st)
    BY <1>2, <1>7, DhRatchetFields
<1>9. FacingTurn(E, a0, None, st)
    BY <1>2, <1>7, TurnReceiving
<1>10. /\ st.rk = KdfRk(KdfRk(<<>>, {i0, a0}, None), {i1, a0}, i1)
       /\ st.dhs = i1 /\ st.kem = i1 /\ st.sendCt = [to |-> a0, ss |-> i1]
       /\ st.cks = Chain(st.rk)
    BY <1>1, <1>3, <1>4, <1>5, <1>8, Zenon DEF TurnOf
<1>11. /\ st.dhr = a0 /\ st.ckr = Chain(KdfRk(<<>>, {i0, a0}, None)) /\ st.nr = 0
       /\ st.skipped = <<>>
    BY <1>1, <1>3, <1>4, <1>6, <1>9, Zenon DEF FacingTurn
<1> QED
    BY <1>10, <1>11, Zenon DEF SecondOf, st

\* A peer that has received nothing is in step.
LEMMA InStepFirst ==
    ASSUME NEW ka, NEW ro, NEW T, NEW p, NEW st, On(ka, ro, st), st.nr = 0, NEW e,
           e = Epoch(st), e <= T, NEW cv, NEW N, N = {}, NEW d \in Nat, Next2(e, d)
    PROVE  InStep(ka, ro, T, p, st, None, None, cv, N, d, 0)
<1> DEFINE L == {}
<1>1. L = {}
    OBVIOUS
<1>2. 0 \in Nat /\ st.nr <= 0 /\ st.nr \in Nat
    OBVIOUS
<1>3. Accounted(p, st, N, cv, L) /\ Announced(p, st, N)
    BY DEF Accounted, Announced
<1> HIDE DEF L
<1>4. Follows(ka, ro, T, p, st, d, 0, N, cv, L)
    BY <1>2, <1>3, Zenon DEF Follows
<1>5. \A w \in N : w.to = Other(p) => WireOn(ka, ro, w, Epoch(st))
    OBVIOUS
<1> QED
    BY <1>1, <1>2, <1>4, <1>5, Zenon DEF InStep

\* Two chains exist after the handshake: the accepter's and the inviter's first.
LEMMA InitDesync == Init => DesyncInv
<1> SUFFICES ASSUME Init PROVE DesyncInv
    OBVIOUS
<1> DEFINE a0 == <<Accepter, 1>>
           i0 == <<Inviter, 0>>
           i1 == <<Inviter, 1>>
           x  == [dh |-> {i0, a0}, kem |-> None]
           y  == [dh |-> {i1, a0}, kem |-> i1]
           r1 == KdfRk(<<>>, {i0, a0}, None)
           r2 == KdfRk(r1, {i1, a0}, i1)
           ka == [n \in Nat |-> IF n = 0 THEN i0 ELSE IF n = 1 THEN a0 ELSE i1]
           ro == [n \in Nat |-> IF n = 1 THEN r1 ELSE IF n = 2 THEN r2 ELSE <<>>]
           sa == ratchet[Accepter]
           si == ratchet[Inviter]
<1>1. /\ Accepter \in Peers /\ Inviter \in Peers /\ Inviter # Accepter
      /\ Other(Inviter) = Accepter /\ Other(Accepter) = Inviter
      /\ a0 \in KeyPairs /\ i0 \in KeyPairs /\ i1 \in KeyPairs
      /\ a0 # i0 /\ a0 # i1 /\ i0 # i1 /\ a0 # None
    <2>1. /\ Accepter \in Peers /\ Inviter \in Peers /\ Inviter # Accepter
          /\ Other(Inviter) = Accepter /\ Other(Accepter) = Inviter
        BY PeersDiffer DEF Peers, Other
    <2>2. a0 \in KeyPairs /\ i0 \in KeyPairs /\ i1 \in KeyPairs
        BY <2>1 DEF KeyPairs
    <2> QED
        BY <2>1, <2>2, RatchetConstants
<1>2. /\ \A p \in Peers : fresh[p] = 1 /\ sendTask[p] = None /\ recvTask[p] = None
      /\ net = {} /\ sa = InitInitiator(a0, i0) /\ si = InitResponder(i0, a0, a0, i1)
    BY <1>1 DEF Init
<1>3. x \in Inputs /\ y \in Inputs
    BY <1>1 DEF Inputs, Secrets
<1>4. r1 \in Seq(Inputs) /\ Len(r1) = 1 /\ r2 \in Seq(Inputs) /\ Len(r2) = 2 /\ <<>> \in Seq(Inputs)
    <2>1. r1 = Append(<<>>, x) /\ r2 = Append(r1, y)
        BY Zenon DEF KdfRk
    <2> HIDE DEF x, y, r1, r2
    <2> QED
        BY <1>3, <2>1
<1>5. FirstOf(a0, i0, sa) /\ SecondOf(a0, i0, i1, si)
    BY <1>1, <1>2, InitiatorFirst, ResponderSecond
<1>6. /\ sa.rk = r1 /\ sa.dhs = a0 /\ sa.kem = a0 /\ sa.sendCt = None /\ sa.dhr = i0
      /\ sa.ckr = None /\ sa.nr = 0 /\ sa.skipped = <<>>
    <2>1. {a0, i0} = {i0, a0}
        OBVIOUS
    <2> QED
        BY <1>5, <2>1, Zenon DEF FirstOf
<1>7. /\ si.rk = r2 /\ si.dhs = i1 /\ si.kem = i1 /\ si.sendCt = [to |-> a0, ss |-> i1]
      /\ si.dhr = a0 /\ si.ckr = Chain(r1) /\ si.nr = 0 /\ si.skipped = <<>>
      /\ si.cks = Chain(r2)
    BY <1>5, Zenon DEF SecondOf
<1>8. r2 = KdfRk(r1, {a0, i1}, i1)
    <2>1. {i1, a0} = {a0, i1}
        OBVIOUS
    <2> QED
        BY <2>1, Zenon
<1>9. fresh[Accepter] = 1 /\ fresh[Inviter] = 1 /\ a0[1] = Accepter /\ a0[2] = 1
      /\ i0[1] = Inviter /\ i0[2] = 0 /\ i1[1] = Inviter /\ i1[2] = 1
    BY <1>1, <1>2
<1> HIDE DEF a0, i0, i1, r1, r2, sa, si
<1>10. /\ ka \in [Nat -> KeyPairs] /\ ro \in [Nat -> Seq(Inputs)]
       /\ ka[0] = i0 /\ ka[1] = a0 /\ ka[2] = i1 /\ ro[1] = r1 /\ ro[2] = r2
    BY <1>1, <1>4
<1> HIDE DEF ka, ro
<1>11. History(ka, ro, 2, fresh)
    <2>1. \A j \in 0..2 : j = 0 \/ j = 1 \/ j = 2
        OBVIOUS
    <2>2. \A j \in 0..2 : ka[j][2] <= fresh[ka[j][1]]
        <3>1. ka[0][2] = 0 /\ fresh[ka[0][1]] = 1
            BY <1>9, <1>10
        <3>2. ka[1][2] = 1 /\ fresh[ka[1][1]] = 1
            BY <1>9, <1>10
        <3>3. ka[2][2] = 1 /\ fresh[ka[2][1]] = 1
            BY <1>9, <1>10
        <3> QED
            BY <2>1, <3>1, <3>2, <3>3
    <2>3. \A i, j \in 0..2 : ka[i] = ka[j] => i = j
        BY <1>1, <1>10, <2>1
    <2>4. \A j \in 1..2 : Len(ro[j]) = j
        <3>1. \A j \in 1..2 : j = 1 \/ j = 2
            OBVIOUS
        <3> QED
            BY <1>4, <1>10, <3>1
    <2>5. \A j \in 2..2 : ro[j] = KdfRk(ro[j - 1], {ka[j - 1], ka[j]}, ka[j])
        <3>1. \A j \in 2..2 : j = 2 /\ j - 1 = 1
            OBVIOUS
        <3> QED
            BY <1>8, <1>10, <3>1
    <2>6. 2 \in Nat
        OBVIOUS
    <2> QED
        BY <1>10, <2>2, <2>3, <2>4, <2>5, <2>6 DEF History
<1>12. \A c : StashOn(ka, ro, <<>>, c)
    BY DEF StashOn, Entries
<1>13. On(ka, ro, sa) /\ Epoch(sa) = 1
    <2>1. Epoch(sa) = 1
        BY <1>4, <1>6 DEF Epoch
    <2>2. Encapsulated(ka, 1) = None
        BY DEF Encapsulated
    <2>3. 1 \in Nat \ {0} /\ 1 - 1 = 0
        OBVIOUS
    <2> QED
        BY <1>6, <1>10, <1>12, <2>1, <2>2, <2>3, Zenon DEF On
<1>14. On(ka, ro, si) /\ Epoch(si) = 2
    <2>1. Epoch(si) = 2
        BY <1>4, <1>7 DEF Epoch
    <2>2. 2 \in Nat \ {0} /\ 2 - 1 = 1 /\ 2 # 1
        OBVIOUS
    <2>3. Encapsulated(ka, 2) = [to |-> a0, ss |-> i1]
        BY <1>10, <2>2 DEF Encapsulated
    <2>4. si.ckr = [root |-> ro[1], i |-> si.nr]
        BY <1>7, <1>10 DEF Chain
    <2>5. si.ckr # None
        BY <1>4, <1>7, <1>10, <2>4, ChainKeySome
    <2> QED
        BY <1>7, <1>10, <1>12, <2>1, <2>2, <2>3, <2>4, <2>5, Zenon DEF On
<1>15. Index(sa, None) = 0 /\ Index(si, None) = 0
    <2>1. sa.cks = Chain(sa.rk)
        <3>1. DOMAIN EmptyState = Fields
            BY Zenon DEF EmptyState, Fields
        <3> QED
            BY <1>2, <3>1, Zenon DEF InitInitiator, Fields
    <2>2. sa.cks.i = 0 /\ si.cks.i = 0
        BY <1>7, <2>1 DEF Chain
    <2> QED
        BY <2>2 DEF Index
<1>16. Next2(1, 2) /\ Next2(2, 1) /\ 1 \in Nat /\ 2 \in Nat /\ 1 <= 2 /\ 2 <= 2
    BY DEF Next2
<1>17. \A cv : InStep(ka, ro, 2, Accepter, sa, None, None, cv, net, 2, 0)
    BY <1>2, <1>6, <1>13, <1>16, InStepFirst
<1>18. \A cv : InStep(ka, ro, 2, Inviter, si, None, None, cv, net, 1, 0)
    BY <1>2, <1>7, <1>14, <1>16, InStepFirst
<1>19. ASSUME NEW p \in Peers
       PROVE  InStep(ka, ro, 2, p, ratchet[p], sendTask[p], recvTask[p], Shown(conv[p]), net,
                     Epoch(ratchet[Other(p)]), Index(ratchet[Other(p)], sendTask[Other(p)]))
    <2>1. CASE p = Accepter
        BY <1>1, <1>2, <1>14, <1>15, <1>17, <2>1 DEF sa, si
    <2>2. CASE p = Inviter
        BY <1>1, <1>2, <1>13, <1>15, <1>18, <2>2 DEF sa, si
    <2> QED
        BY <2>1, <2>2 DEF Peers
<1>20. Ordered(net)
    BY <1>2 DEF Ordered
<1>21. DesyncAt(ka, ro, 2)
    BY <1>11, <1>19, <1>20 DEF DesyncAt
<1> QED
    BY <1>21 DEF DesyncInv

\* Nothing of this is touched.
LEMMA SameSync ==
    ASSUME UNCHANGED <<ratchet, conv, sendTask, recvTask, fresh, net>>,
           NEW ka, NEW ro, NEW T, DesyncAt(ka, ro, T)
    PROVE  DesyncAt(ka, ro, T)'
    BY DEF DesyncAt

\* No step puts the peers out of step.
LEMMA NextDesync == ~Overlap /\ KeysInv /\ NumbersInv /\ LinesInv /\ DesyncInv /\ [Next]_vars => DesyncInv'
<1> SUFFICES ASSUME ~Overlap, KeysInv, NumbersInv, LinesInv, DesyncInv, [Next]_vars PROVE DesyncInv'
    OBVIOUS
<1>1. PICK ka, ro, T : DesyncAt(ka, ro, T)
    BY DEF DesyncInv
<1>2. ASSUME NEW p \in Peers, SendReads(p) PROVE DesyncInv'
    BY <1>1, <1>2, SendReadsSync DEF DesyncInv
<1>3. ASSUME NEW p \in Peers, SendPersists(p) PROVE DesyncInv'
    BY <1>1, <1>3, SendPersistsSync DEF DesyncInv
<1>4. ASSUME NEW p \in Peers, SendPublishes(p) PROVE DesyncInv'
    BY <1>1, <1>4, SendPublishesSync DEF DesyncInv
<1>5. ASSUME NEW p \in Peers, SendErrs(p) \/ RecvErrs(p) \/ Crash(p) PROVE DesyncInv'
    BY <1>1, <1>5, DropSync DEF DesyncInv
<1>6. ASSUME NEW p \in Peers, NEW m \in net, RecvAdvances(p, m) PROVE DesyncInv'
    BY <1>1, <1>6, RecvAdvancesSync
<1>7. ASSUME NEW p \in Peers, NEW m \in net, RecvRejects(p, m) PROVE DesyncInv'
    <2>1. ratchet = [q \in Peers |-> ratchet[q]]
        BY DEF KeysInv
    <2>2. UNCHANGED <<ratchet, conv, sendTask, recvTask, fresh, net>>
        BY <1>7, <2>1 DEF RecvRejects, AfterReject
    <2> QED
        BY <1>1, <2>2, SameSync DEF DesyncInv
<1>8. ASSUME NEW p \in Peers, RecvStores(p) PROVE DesyncInv'
    BY <1>1, <1>8, RecvStoresSync DEF DesyncInv
<1>9. ASSUME NEW p \in Peers, RecvCommits(p) PROVE DesyncInv'
    BY <1>1, <1>9, RecvCommitsSync DEF DesyncInv
<1>10. CASE WeekPasses
    BY <1>1, <1>10, WeekPassesSync DEF DesyncInv
<1>11. CASE UNCHANGED vars
    <2>1. UNCHANGED <<ratchet, conv, sendTask, recvTask, fresh, net>>
        BY <1>11 DEF vars
    <2> QED
        BY <1>1, <2>1, SameSync DEF DesyncInv
<1> QED
    BY <1>2, <1>3, <1>4, <1>5, <1>6, <1>7, <1>8, <1>9, <1>10, <1>11 DEF Next

\* The stash finds the key of m under the header of m, and no other.
LEMMA StashedKey ==
    ASSUME NEW ka, NEW ro, NEW T, NEW f, History(ka, ro, T, f),
           NEW s, NEW b \in 0..T, StashOn(ka, ro, s, b),
           NEW m, NEW d \in 0..T, WireOn(ka, ro, m, d),
           NEW e \in Entries(s)
    PROVE  (e.dh = m.rh.dh /\ e.n = m.rh.n) <=> e.mk = m.mk
<1> DEFINE i == ChainNo(e)
           j == ChainNo(m)
<1>1. /\ i \in 1..b /\ e.n \in Nat /\ e.dh = ka[i] /\ e.mk = [root |-> ro[i], i |-> e.n]
    BY DEF StashOn, EntryOn
<1>2. /\ j \in 1..d /\ m.rh.n \in Nat /\ m.mk = [root |-> ro[j], i |-> m.rh.n] /\ m.rh.dh = ka[j]
    BY DEF WireOn
<1>3. e.mk = m.mk => i = j
    BY DEF ChainNo
<1> HIDE DEF i, j
<1>4. T \in Nat
    BY DEF History
<1>5. i \in 0..T /\ j \in 0..T
    BY <1>1, <1>2, <1>4
<1>6. ka[i] = ka[j] => i = j
    BY <1>5, ChainsOf
<1>7. e.mk = m.mk => e.n = m.rh.n
    <2>1. e.mk.i = e.n /\ m.mk.i = m.rh.n
        BY <1>1, <1>2
    <2> QED
        BY <2>1
<1> QED
    BY <1>1, <1>2, <1>3, <1>6, <1>7

\* A wire that is not behind p is the next of its chain, or further on.
LEMMA AheadOpens ==
    ASSUME NEW ka, NEW ro, NEW T, NEW f, NEW p, NEW st, NEW d, NEW i, NEW N, NEW cv,
           Ready(ka, ro, T, f, p, st, d, i, N, cv),
           NEW m \in N, m.to = p, ~Behind(m, st), NEW k, NEW u, u = Reached(st, m.rh, k)
    PROVE  u.ckr = m.mk /\ m.mk # None /\ (st.dhr # m.rh.dh => m.rh.kem_ct # None)
<1> DEFINE h == m.rh
           c == Epoch(st)
           j == ChainNo(m)
<1>1. /\ History(ka, ro, T, f) /\ Counted(st) /\ d \in Nat
      /\ Follows(ka, ro, T, p, st, d, i, N, cv, {}) /\ Facts(ka, ro, p, st, N, d)
      /\ Next2(c, d) /\ d <= T
    BY Zenon DEF Ready
<1>2. On(ka, ro, st) /\ c <= T /\ st.nr \in Nat
    BY <1>1, Zenon DEF Follows
<1>3. WireOn(ka, ro, m, d) /\ m.mk.root # st.rk
    BY <1>1 DEF Facts
<1>4. /\ j \in 1..d /\ h.n \in Nat /\ h.pn \in Nat
      /\ m.mk = [root |-> ro[j], i |-> h.n] /\ h.dh = ka[j] /\ h.kem_ct = Encapsulated(ka, j)
    BY <1>3 DEF WireOn
<1>5. d \in {c - 1, c + 1}
    BY <1>1 DEF Next2
<1>6. ~(j < c - 1) /\ ~(j = c - 1 /\ h.n < st.nr)
    BY DEF Behind
<1>7. c \in Nat \ {0} /\ st.dhr = ka[c - 1]
    BY <1>2 DEF On
<1>8. T \in Nat /\ ro \in [Nat -> Seq(Inputs)]
    BY <1>1 DEF History
<1>9. c = Epoch(st) /\ j = ChainNo(m) /\ u = Reached(st, h, k)
    OBVIOUS
<1> HIDE DEF h, c, j
<1>10. j <= c - 1 \/ (j = c + 1 /\ d = c + 1)
    <2>1. st.rk = ro[c] /\ m.mk.root = ro[j]
        BY <1>2, <1>4, <1>9 DEF On
    <2>2. j # c
        BY <1>3, <2>1
    <2>3. j \in Int /\ j >= 1 /\ j <= d /\ (d = c - 1 \/ d = c + 1)
        BY <1>1, <1>4, <1>5
    <2> QED
        BY <1>7, <2>2, <2>3
<1>11. j \in Nat /\ ro[j] \in Seq(Inputs)
    BY <1>1, <1>4, <1>8
<1>12. m.mk # None
    BY <1>4, <1>11, ChainKeySome
<1>13. CASE j <= c - 1
    <2>1. j = c - 1 /\ h.n >= st.nr /\ 1 < c
        BY <1>2, <1>4, <1>6, <1>7, <1>11, <1>13
    <2>2. h.dh = ka[c - 1] /\ ro[c - 1] = ro[j] /\ c \in Nat
        BY <1>4, <1>7, <2>1
    <2>3. Caught(ka, ro, c - 1, st, u) /\ u.nr = (IF h.n > st.nr THEN h.n ELSE st.nr)
        BY <1>1, <1>2, <1>4, <1>9, <2>1, <2>2, Within
    <2>4. u.nr = h.n
        BY <1>2, <1>4, <2>1, <2>3
    <2>5. u.ckr = [root |-> ro[j], i |-> h.n]
        BY <2>2, <2>3, <2>4 DEF Caught
    <2> QED
        BY <1>4, <1>7, <1>12, <2>2, <2>5 DEF h
<1>14. CASE j = c + 1 /\ d = c + 1
    <2>1. h.dh = ka[c + 1] /\ h.kem_ct = Encapsulated(ka, c + 1) /\ ro[c + 1] = ro[j]
        BY <1>4, <1>14
    <2>2. c \in Nat /\ 1 <= c /\ c + 1 <= T
        BY <1>1, <1>7, <1>14
    <2>3. h.kem_ct # None /\ Caught(ka, ro, c + 1, st, u) /\ u.nr = h.n
        BY <1>1, <1>2, <1>4, <1>9, <2>1, <2>2, Across
    <2>4. u.ckr = [root |-> ro[j], i |-> h.n]
        BY <2>1, <2>3 DEF Caught
    <2> QED
        BY <1>4, <1>12, <2>3, <2>4 DEF h
<1> QED
    BY <1>10, <1>13, <1>14

\* Peers in step open what they were not shown yet.
LEMMA SyncOpens ==
    ASSUME KeysInv, NumbersInv, LinesInv, DesyncInv
    PROVE  NoDesync
<1>1. PICK ka, ro, T : DesyncAt(ka, ro, T)
    BY DEF DesyncInv
<1> SUFFICES ASSUME NEW p \in Peers, NEW m \in net, m.to = p, ~Contains(conv[p], m.id),
                    NEW r, r = Clone(p, m)
             PROVE  \/ Opens(r, m)
                    \/ m.mk \in ratchet[p].lost
                    \/ ~r.ok /\ r.why = "max skip"
    BY DEF NoDesync
<1> DEFINE q == Other(p)
           st == ratchet[p]
           sq == ratchet[q]
           d == Epoch(sq)
           i == Index(sq, sendTask[q])
           cv == Shown(conv[p])
           k == <<p, fresh[p] + 1>>
           c == Epoch(st)
<1>2. Ready(ka, ro, T, fresh, p, st, d, i, net, cv)
    BY <1>1, ReceiverReady
<1>3. m.id \notin cv
    <2>1. DOMAIN conv[p] = 1..Len(conv[p])
        BY DEF LinesInv, Once
    <2> QED
        BY <2>1 DEF Shown, Contains
<1>4. r = StepRecv(st, m.rh, k) /\ c = Epoch(st)
    BY DEF Clone
<1> HIDE DEF q, st, sq, d, i, cv, k, c
<1>5. /\ History(ka, ro, T, fresh) /\ Counted(st) /\ d \in Nat
      /\ Follows(ka, ro, T, p, st, d, i, net, cv, {}) /\ Facts(ka, ro, p, st, net, d) /\ d <= T
    BY <1>2, Zenon DEF Ready
<1>6. On(ka, ro, st) /\ c <= T /\ Accounted(p, st, net, cv, {})
    BY <1>4, <1>5, Zenon DEF Follows
<1>7. WireOn(ka, ro, m, d)
    BY <1>5 DEF Facts
<1>8. T \in Nat /\ c \in Nat \ {0} /\ StashOn(ka, ro, st.skipped, c - 1)
    BY <1>4, <1>5, <1>6 DEF History, On
<1>9. c - 1 \in 0..T /\ d \in 0..T
    BY <1>5, <1>6, <1>8
<1>10. ASSUME NEW e \in Entries(st.skipped)
       PROVE  (e.dh = m.rh.dh /\ e.n = m.rh.n) <=> e.mk = m.mk
    BY <1>5, <1>7, <1>8, <1>9, <1>10, StashedKey
<1>11. DOMAIN st = Fields /\ Len(st.skipped) \in Nat
    BY <1>5 DEF Counted, Stash
<1>12. OpensStashed(st, m.rh, r) \/ OpensNext(st, m.rh, k, r) \/ OpensNot(st, m.rh, k, r)
    BY <1>4, <1>11, StepRecvCases
<1>13. CASE OpensStashed(st, m.rh, r)
    <2>1. PICK x \in Hits(st, m.rh) : r.ok /\ r.mk = st.skipped[x].mk
        BY <1>13 DEF OpensStashed
    <2>2. /\ st.skipped[x] \in Entries(st.skipped)
          /\ st.skipped[x].dh = m.rh.dh /\ st.skipped[x].n = m.rh.n
        BY DEF Hits, Entries
    <2>3. st.skipped[x].mk = m.mk
        BY <1>10, <2>2
    <2> QED
        BY <2>1, <2>3 DEF Opens
<1>14. CASE Hits(st, m.rh) = {} /\ Behind(m, st)
    <2>1. m.id \in cv \/ m.mk \in MksOf(st.skipped) \cup st.lost
        BY <1>6, <1>14 DEF Accounted
    <2>2. ASSUME m.mk \in MksOf(st.skipped) PROVE FALSE
        <3>1. PICK x \in 1..Len(st.skipped) : st.skipped[x].mk = m.mk
            BY <2>2 DEF MksOf
        <3>2. st.skipped[x] \in Entries(st.skipped)
            BY DEF Entries
        <3>3. x \in Hits(st, m.rh)
            BY <1>10, <3>1, <3>2 DEF Hits
        <3> QED
            BY <1>14, <3>3
    <2> QED
        BY <1>3, <2>1, <2>2 DEF st
<1>15. CASE ~Behind(m, st) /\ (OpensNext(st, m.rh, k, r) \/ OpensNot(st, m.rh, k, r))
    <2> DEFINE u == Reached(st, m.rh, k)
    <2>1. u.ckr = m.mk /\ m.mk # None /\ (st.dhr # m.rh.dh => m.rh.kem_ct # None)
        BY <1>2, <1>15, AheadOpens
    <2>2. OpensNext(st, m.rh, k, r) => r.ok /\ r.mk = u.ckr
        BY Zenon DEF OpensNext
    <2>3. OpensNot(st, m.rh, k, r) => /\ ~r.ok
                                      /\ \/ r.why = "max skip"
                                         \/ st.dhr # m.rh.dh /\ m.rh.kem_ct = None
                                         \/ u.ckr = None
        BY Zenon DEF OpensNot
    <2> HIDE DEF u
    <2> QED
        BY <1>15, <2>1, <2>2, <2>3, Zenon DEF Opens
<1>16. OpensNext(st, m.rh, k, r) \/ OpensNot(st, m.rh, k, r) => Hits(st, m.rh) = {}
    BY DEF OpensNext, OpensNot
<1> QED
    BY <1>12, <1>13, <1>14, <1>15, <1>16

\* The peers never fall out of step (dms.rs: a receive advances a clone and writes it
\* last, skip_message_keys closes the old chain up to pn and the new one up to n, and
\* stashed keys are dropped by evict_skipped alone): whatever was lost, repeated,
\* overtaken or cut short by a crash, a wire not yet stored opens, unless its key was
\* evicted or the wire is more than MAX_SKIP ahead.
THEOREM RatchetNoDesync == ASSUME ~Overlap PROVE Spec => []NoDesync
<1>1. Init => KeysInv /\ NumbersInv /\ LinesInv /\ DesyncInv
    BY InitKeys, InitNumbers, InitLines, InitDesync
<1>2. KeysInv /\ NumbersInv /\ LinesInv /\ DesyncInv /\ [Next]_vars
         => (KeysInv /\ NumbersInv /\ LinesInv /\ DesyncInv)'
    BY NextKeys, NextNumbers, NextLines, NextDesync
<1>3. KeysInv /\ NumbersInv /\ LinesInv /\ DesyncInv => NoDesync
    BY SyncOpens
<1> QED
    BY <1>1, <1>2, <1>3, PTL DEF Spec
=============================================================================
