------------------------------ MODULE Ratchet -------------------------------
(***************************************************************************)
(* The hybrid Double Ratchet of hey-core/src/api/dms.rs: the per-contact   *)
(* RatchetState of two peers that have completed the invite handshake, the *)
(* pure steps that advance it, and the two asynchronous tasks that load    *)
(* and save it, build_ratchet_wire (a send from the interface) and         *)
(* receive_ratchet_message (the poll loop).                                *)
(*                                                                         *)
(* Keys are symbolic.  A key pair is its owner and a serial number, drawn  *)
(* fresh; a Diffie-Hellman output is the set of its two key pairs; a KEM   *)
(* ciphertext names the key it was made for and the secret inside.  A root *)
(* key is the sequence of inputs folded into it, a message key is a chain  *)
(* (its root key) and an index, and an envelope opens exactly when the     *)
(* receiver derives the message key it was sealed with.                    *)
(*                                                                         *)
(* The network is the set of all wires ever published.  It may deliver any *)
(* of them at any time, again and again, or never.                         *)
(***************************************************************************)
EXTENDS Lists, Integers, FiniteSets, SequencesExt

CONSTANTS Inviter, Accepter,    \* the two peers (responder and initiator)
          MAX_SKIP,             \* keys one message may make us derive early
          MAX_SKIPPED_KEYS,     \* stashed keys kept
          MaxSends,             \* bound: messages a peer sends
          MaxTurns,             \* bound: key pairs a peer draws
          MaxFailures,          \* bound: crashes and failing calls, over both peers
          MaxWeeks,             \* bound: times the skipped-key TTL elapses
          Overlap,              \* may a send run between the awaits of a receive?
          None                  \* absent (Option::None)

Peers == {Inviter, Accepter}
KeyPairs == Peers \X Nat

\* What encapsulating to a key pair gives, what a turn may mix into a root key,
\* and the keys of a chain.
Ciphertexts == [to : KeyPairs, ss : KeyPairs]
Secrets == KeyPairs \cup {None} \cup ({"rejected"} \X KeyPairs \X Ciphertexts)
Inputs == [dh : SUBSET KeyPairs, kem : Secrets]
ChainKeys == [root : Seq(Inputs), i : Nat]

ASSUME RatchetConstants ==
    /\ Inviter # Accepter
    /\ {MAX_SKIP, MAX_SKIPPED_KEYS, MaxSends, MaxFailures, MaxWeeks} \subseteq Nat
    /\ MaxTurns \in Nat \ {0}
    /\ Overlap \in BOOLEAN
    /\ None \notin KeyPairs /\ None \notin Ciphertexts /\ None \notin ChainKeys

Other(p) == IF p = Inviter THEN Accepter ELSE Inviter

VARIABLES ratchet,   \* ratchet[p]: the RatchetState p has on disk
          conv,      \* conv[p]: ids of the messages p stored, in order
          sendTask,  \* sendTask[p]: what build_ratchet_wire holds, or None
          recvTask,  \* recvTask[p]: what receive_ratchet_message holds, or None
          fresh,     \* fresh[p]: serial of the last key pair p drew
          sent,      \* sent[p]: messages p has started to send
          net,       \* every wire published
          failures, weeks

vars == <<ratchet, conv, sendTask, recvTask, fresh, sent, net, failures, weeks>>

-----------------------------------------------------------------------------
(* Symbolic primitives.                                                    *)

\* root_init: what the handshake gives both peers, before any turn.
RootInit == <<>>

\* kdf_rk / kdf_rk_hybrid: the root key that follows rk.
KdfRk(rk, dh, kem) == Append(rk, [dh |-> dh, kem |-> kem])

\* The chain key that kdf_rk yields beside a root key, and kdf_ck on it.
Chain(rk)     == [root |-> rk, i |-> 0]
NextKey(ck)   == [ck EXCEPT !.i = @ + 1]

\* ML-KEM decapsulation rejects implicitly: a ciphertext for another key
\* gives a secret nobody else has.
Decapsulate(kem, ct) == IF ct.to = kem THEN ct.ss ELSE <<"rejected", kem, ct>>

-----------------------------------------------------------------------------
(* The pure ratchet core.  Fresh keys of a turn are all named k.           *)

\* Mutant of EvictSkipped: the TTL alone bounds the stash.
EvictByAgeOnly(skipped) == Retained(skipped, {e \in Range(skipped) : ~e.aged})

\* evict_skipped: keys older than the TTL, then the oldest above the cap.
EvictSkipped(skipped) ==
    LET young == Retained(skipped, {e \in Range(skipped) : ~e.aged})
        over  == IF Len(young) > MAX_SKIPPED_KEYS
                 THEN Len(young) - MAX_SKIPPED_KEYS ELSE 0
    IN  SubSeq(young, over + 1, Len(young))

MksOf(skipped) == {skipped[j].mk : j \in 1..Len(skipped)}

\* skip_message_keys: stash the keys of the receiving chain before until.
\* lost is bookkeeping, not state of the code: keys evict_skipped dropped.
SkipMessageKeys(st, until) ==
    LET count == IF until > st.nr THEN until - st.nr ELSE 0
        keys  == [j \in 1..count |->
                    [dh |-> st.dhr, n |-> st.nr + j - 1, aged |-> FALSE,
                     mk |-> [st.ckr EXCEPT !.i = @ + j - 1]]]
        kept  == EvictSkipped(st.skipped \o keys)
    IN  IF st.ckr = None THEN st
        ELSE [st EXCEPT !.skipped = kept,
                        !.lost    = @ \cup (MksOf(st.skipped \o keys) \ MksOf(kept)),
                        !.ckr.i   = @ + count,
                        !.nr      = @ + count]

\* dh_ratchet: turn on the peer's key dh, with the fresh key pairs k.
DhRatchet(st, dh, kemSs, k) ==
    LET rk1 == KdfRk(st.rk, {st.dhs, dh}, kemSs)
        hybrid == st.peerKem # None
        rk2 == KdfRk(rk1, {k, dh}, IF hybrid THEN k ELSE None)
    IN  [st EXCEPT !.pn = st.ns, !.ns = 0, !.nr = 0,
                   !.dhr = dh, !.ckr = Chain(rk1),
                   !.dhs = k, !.rk = rk2, !.cks = Chain(rk2),
                   !.kem = IF hybrid THEN k ELSE @,
                   !.sendCt = IF hybrid THEN [to |-> st.peerKem, ss |-> k] ELSE None]

EmptyState ==
    [rk |-> RootInit, cks |-> None, ckr |-> None, dhs |-> None, dhr |-> None,
     ns |-> 0, nr |-> 0, pn |-> 0, skipped |-> <<>>,
     kem |-> None, peerKem |-> None, sendCt |-> None, lost |-> {}]

\* ratchet_init_initiator, by the peer that accepted the invite.
InitInitiator(k, prekey) ==
    LET rk == KdfRk(RootInit, {k, prekey}, None)
    IN  [EmptyState EXCEPT !.rk = rk, !.cks = Chain(rk), !.dhs = k,
                           !.dhr = prekey, !.kem = k]

\* Mutant of InitResponder: the accepter's KEM key is not carried over.
InitResponderClassical(prekey, peerDh, peerKem, k) ==
    DhRatchet([EmptyState EXCEPT !.dhs = prekey, !.kem = prekey], peerDh, None, k)

\* ratchet_init_responder, by the inviter: adopt the prekey, then turn.
InitResponder(prekey, peerDh, peerKem, k) ==
    DhRatchet([EmptyState EXCEPT !.dhs = prekey, !.kem = prekey, !.peerKem = peerKem],
              peerDh, None, k)

\* The header that rides on every message, sealed and in the clear.
RatchetHeader(dh, pn, n, ct, pub) ==
    [dh |-> dh, pn |-> pn, n |-> n, kem_ct |-> ct, kem_pub |-> pub]

\* ratchet_step_send: the state after it, and the header it makes.
StepSend(st) == [st EXCEPT !.cks = NextKey(@), !.ns = @ + 1]
HeaderOf(st) == RatchetHeader(st.dhs, st.pn, st.ns, st.sendCt, st.kem)

\* encrypt_with_mk: a wire that only its message key opens.  Nonce and KEM
\* encapsulation are fresh, so id, the ciphertext, is this message's alone.
Sealed(id, to, h, mk) == [id |-> id, to |-> to, rh |-> h, mk |-> mk]

\* ratchet_dedup_id: the same for every redelivery of one ciphertext.
DedupId(m) == m.id

Failed(why) == [ok |-> FALSE, why |-> why]

\* ratchet_step_recv on a clone of st: the message key and the new state.
StepRecv(st, h, k) ==
    LET stashed  == {j \in 1..Len(st.skipped) :
                        st.skipped[j].dh = h.dh /\ st.skipped[j].n = h.n}
        newEpoch == st.dhr # h.dh
        oldSkip  == IF newEpoch /\ h.pn > st.nr THEN h.pn - st.nr ELSE 0
        newStart == IF newEpoch THEN 0 ELSE st.nr
        newSkip  == IF h.n > newStart THEN h.n - newStart ELSE 0
        kemSs    == IF h.kem_ct # None THEN Decapsulate(st.kem, h.kem_ct) ELSE None
        adopted  == [st EXCEPT !.peerKem = IF h.kem_pub # None THEN h.kem_pub ELSE @]
        turned   == IF newEpoch
                    THEN DhRatchet(SkipMessageKeys(adopted, h.pn), h.dh, kemSs, k)
                    ELSE st
        skipped  == SkipMessageKeys(turned, h.n)
    IN  IF stashed # {}
        THEN LET j == CHOOSE x \in stashed : \A y \in stashed : x <= y
             IN  [ok |-> TRUE, mk |-> st.skipped[j].mk, turned |-> FALSE,
                  st |-> [st EXCEPT !.skipped = RemoveAt(@, j)]]
        ELSE IF oldSkip + newSkip > MAX_SKIP THEN Failed("max skip")
        ELSE IF newEpoch /\ h.kem_ct = None /\ st.peerKem # None
             THEN Failed("downgrade")
        ELSE IF skipped.ckr = None THEN Failed("no receiving chain")
        ELSE [ok |-> TRUE, mk |-> skipped.ckr, turned |-> newEpoch,
              st |-> [skipped EXCEPT !.ckr = NextKey(@), !.nr = @ + 1]]

\* open_with_secrets authenticates: the clone's key must be the sender's.
Opens(r, m) == r.ok /\ r.mk = m.mk

-----------------------------------------------------------------------------
(* The tasks.  A step runs from one await to the next.                     *)

Init ==
    /\ ratchet = [p \in Peers |->
                    IF p = Accepter THEN InitInitiator(<<Accepter, 1>>, <<Inviter, 0>>)
                    ELSE InitResponder(<<Inviter, 0>>, <<Accepter, 1>>, <<Accepter, 1>>, <<Inviter, 1>>)]
    /\ conv     = [p \in Peers |-> <<>>]
    /\ sendTask = [p \in Peers |-> None]
    /\ recvTask = [p \in Peers |-> None]
    /\ fresh    = [p \in Peers |-> 1]
    /\ sent     = [p \in Peers |-> 0]
    /\ net      = {}
    /\ failures = 0
    /\ weeks    = 0

Fails == failures < MaxFailures /\ failures' = failures + 1

MayStart(p, other) == Overlap \/ other[p] = None

\* build_ratchet_wire reads the state (and holds it over the write).
SendReads(p) ==
    /\ sendTask[p] = None /\ MayStart(p, recvTask)
    /\ sent[p] < MaxSends
    /\ ratchet[p].cks # None
    /\ sent' = [sent EXCEPT ![p] = @ + 1]
    /\ sendTask' = [sendTask EXCEPT ![p] = [stage |-> "read", st |-> ratchet[p]]]
    /\ UNCHANGED <<ratchet, conv, recvTask, fresh, net, failures, weeks>>

\* Mutant of SendPersists: an error of write_ratchet is ignored.
SendPersistsOrNot(p) ==
    /\ sendTask[p] # None /\ sendTask[p].stage = "read"
    /\ \/ ratchet' = [ratchet EXCEPT ![p] = StepSend(sendTask[p].st)]
       \/ UNCHANGED ratchet
    /\ sendTask' = [sendTask EXCEPT ![p].stage = "persisted"]
    /\ UNCHANGED <<conv, recvTask, fresh, sent, net, failures, weeks>>

\* The advanced state is on disk before its message key is used.
SendPersists(p) ==
    /\ sendTask[p] # None /\ sendTask[p].stage = "read"
    /\ ratchet' = [ratchet EXCEPT ![p] = StepSend(sendTask[p].st)]
    /\ sendTask' = [sendTask EXCEPT ![p].stage = "persisted"]
    /\ UNCHANGED <<conv, recvTask, fresh, sent, net, failures, weeks>>

\* The inner payload is signed and sealed, and the wire published or queued.
SendPublishes(p) ==
    /\ sendTask[p] # None /\ sendTask[p].stage = "persisted"
    /\ net' = net \cup {Sealed(<<p, sent[p]>>, Other(p), HeaderOf(sendTask[p].st),
                               sendTask[p].st.cks)}
    /\ sendTask' = [sendTask EXCEPT ![p] = None]
    /\ UNCHANGED <<ratchet, conv, recvTask, fresh, sent, failures, weeks>>

\* The write or the signature fails: build_ratchet_wire returns the error.
SendErrs(p) ==
    /\ sendTask[p] # None /\ Fails
    /\ sendTask' = [sendTask EXCEPT ![p] = None]
    /\ UNCHANGED <<ratchet, conv, recvTask, fresh, sent, net, weeks>>

Clone(p, m) == StepRecv(ratchet[p], m.rh, <<p, fresh[p] + 1>>)

\* receive_ratchet_message reads the state and advances a clone of it.
RecvAdvances(p, m) ==
    /\ recvTask[p] = None /\ MayStart(p, sendTask)
    /\ m.to = p
    /\ LET r == Clone(p, m)
       IN  /\ Opens(r, m)
           /\ r.turned => fresh[p] < MaxTurns
           /\ recvTask' = [recvTask EXCEPT ![p] = [stage |-> "opened", m |-> m, st |-> r.st]]
           /\ fresh' = [fresh EXCEPT ![p] = IF r.turned THEN @ + 1 ELSE @]
    /\ UNCHANGED <<ratchet, conv, sendTask, sent, net, failures, weeks>>

\* Mutant of AfterReject: the advance is made in place, not on a clone.
AfterRejectInPlace(st, m, k) ==
    LET r == StepRecv(st, m.rh, k) IN IF r.ok THEN r.st ELSE st

\* What is left on disk by a message that did not open: the clone is dropped.
AfterReject(st, m, k) == st

\* A wire that cannot be opened: an error, or a known redelivery.
RecvRejects(p, m) ==
    /\ recvTask[p] = None /\ MayStart(p, sendTask)
    /\ m.to = p
    /\ ~Opens(Clone(p, m), m)
    /\ ratchet' = [ratchet EXCEPT ![p] = AfterReject(@, m, <<p, fresh[p] + 1>>)]
    /\ UNCHANGED <<conv, sendTask, recvTask, fresh, sent, net, failures, weeks>>

\* Mutant of Stored: no check for a redelivery.
StoredAgain(c, id) == Append(c, id)

\* store_incoming_message: append unless this very ciphertext is stored.
Stored(c, id) == IF Contains(c, id) THEN c ELSE Append(c, id)

\* The plaintext is stored first ...
RecvStores(p) ==
    /\ recvTask[p] # None /\ recvTask[p].stage = "opened"
    /\ conv' = [conv EXCEPT ![p] = Stored(@, DedupId(recvTask[p].m))]
    /\ recvTask' = [recvTask EXCEPT ![p].stage = "stored"]
    /\ UNCHANGED <<ratchet, sendTask, fresh, sent, net, failures, weeks>>

\* ... and the advanced state is written last.
RecvCommits(p) ==
    /\ recvTask[p] # None /\ recvTask[p].stage = "stored"
    /\ ratchet' = [ratchet EXCEPT ![p] = recvTask[p].st]
    /\ recvTask' = [recvTask EXCEPT ![p] = None]
    /\ UNCHANGED <<conv, sendTask, fresh, sent, net, failures, weeks>>

\* A storage call fails, before or after the plaintext was stored: the error
\* is returned and the clone is dropped.
RecvErrs(p) ==
    /\ recvTask[p] # None /\ Fails
    /\ recvTask' = [recvTask EXCEPT ![p] = None]
    /\ UNCHANGED <<ratchet, conv, sendTask, fresh, sent, net, weeks>>

\* The app is closed or reloaded: its tasks are gone, its files are not.
Crash(p) ==
    /\ sendTask[p] # None \/ recvTask[p] # None
    /\ Fails
    /\ sendTask' = [sendTask EXCEPT ![p] = None]
    /\ recvTask' = [recvTask EXCEPT ![p] = None]
    /\ UNCHANGED <<ratchet, conv, fresh, sent, net, weeks>>

\* SKIPPED_TTL_MS goes by while nothing runs: every stashed key is now old.
WeekPasses ==
    /\ weeks < MaxWeeks
    /\ \A p \in Peers : sendTask[p] = None /\ recvTask[p] = None
    /\ \E p \in Peers : ratchet[p].skipped # <<>>
    /\ weeks' = weeks + 1
    /\ ratchet' = [p \in Peers |-> [ratchet[p] EXCEPT !.skipped =
                     [j \in DOMAIN @ |-> [@[j] EXCEPT !.aged = TRUE]]]]
    /\ UNCHANGED <<conv, sendTask, recvTask, fresh, sent, net, failures>>

Next ==
    \/ \E p \in Peers : SendReads(p) \/ SendPersists(p) \/ SendPublishes(p) \/ SendErrs(p)
    \/ \E p \in Peers, m \in net : RecvAdvances(p, m) \/ RecvRejects(p, m)
    \/ \E p \in Peers : RecvStores(p) \/ RecvCommits(p) \/ RecvErrs(p) \/ Crash(p)
    \/ WeekPasses

Spec == Init /\ [][Next]_vars

-----------------------------------------------------------------------------
(* Properties.                                                             *)

\* Counters agree with the chains they count, the stash keeps to its cap, and a
\* header names the key its message was sealed with.
TypeOK ==
    /\ \A p \in Peers :
         /\ ratchet[p].ns \in 0..MaxSends /\ ratchet[p].nr \in 0..MaxSends
         /\ ratchet[p].pn \in 0..MaxSends
         /\ ratchet[p].cks = [root |-> ratchet[p].rk, i |-> ratchet[p].ns]
         /\ ratchet[p].ckr # None => ratchet[p].ckr.i = ratchet[p].nr
         /\ Len(ratchet[p].skipped) <= MAX_SKIPPED_KEYS
         /\ fresh[p] \in 1..MaxTurns
         /\ sendTask[p] # None => sendTask[p].stage \in {"read", "persisted"}
         /\ recvTask[p] # None => recvTask[p].stage \in {"opened", "stored"}
    /\ \A m \in net : m.to \in Peers /\ m.rh.n = m.mk.i

\* No message key ever seals two messages, through crashes between the write
\* and the publish, failed sends and turns of the ratchet: "no mk reuse".
NoKeyReuse == \A m1, m2 \in net : m1.mk = m2.mk => m1 = m2

\* The two peers never fall out of step.  Whatever was lost, repeated,
\* overtaken or interrupted by a crash, a wire not yet stored can still be
\* opened, unless its key was evicted or it lies further ahead than MAX_SKIP.
NoDesync ==
    \A p \in Peers : \A m \in net :
        (m.to = p /\ ~Contains(conv[p], m.id)) =>
            LET r == Clone(p, m)
            IN  \/ Opens(r, m)
                \/ m.mk \in ratchet[p].lost
                \/ ~r.ok /\ r.why = "max skip"

\* A redelivered wire never shows twice, even when the crash came after the
\* plaintext was stored and before the ratchet was.
NoDuplicateLine ==
    \A p \in Peers : \A i, j \in DOMAIN conv[p] : conv[p][i] = conv[p][j] => i = j

\* After the accepter's first chain every chain mixes in an ML-KEM secret:
\* no turn falls back to classical key agreement.
HybridTurns == \A m \in net : Len(m.mk.root) > 1 => Last(m.mk.root).kem # None
=============================================================================
