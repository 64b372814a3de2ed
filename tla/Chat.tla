-------------------------------- MODULE Chat --------------------------------
(***************************************************************************)
(* The one-to-one chats of one device: the contacts file with its unread   *)
(* counts, the log of every conversation, the expiry settings, and the two *)
(* chat pages that show them (hey-chat and hey-social).                    *)
(*                                                                         *)
(* An operation is a task that writes one file per step and may die        *)
(* between any two of them, have a write fail, or have a read fail and     *)
(* take the file for empty, as read_conversation, list_contacts and        *)
(* read_expiry do.  Tasks do not overlap here; what the pages read is read *)
(* at one time and shown at a later one.                                   *)
(***************************************************************************)
EXTENDS Lists, Integers, FiniteSets, SequencesExt

CONSTANTS Contacts,
          Pending,   \* those of them that have not accepted their invite yet
          Expiring,  \* bound: those whose expiry is changed
          TTL,       \* the expiry that can be chosen, in ticks
          MaxTime,   \* bound: the clock
          MaxWires,  \* bound: messages the contacts send
          MaxSends,  \* bound: messages sent from this device
          MaxFaults, \* bound: crashes, failing writes and failing reads
          None

\* What is recorded of a contact, the steps of an operation, and one that is
\* under way with the steps it has left.
Contact == [kind : {"pending", "v2", "legacy"}, unread : Nat]
Steps == {"store", "touch", "ratchet", "own", "publish", "show", "mark", "expiry", "prune",
          "unlist", "log", "keys", "wipe_logs", "wipe_contacts", "wipe_expiry"}
Task == [did : Contacts \cup {None}, id : Int, ts : Int, todo : Seq(Steps)]

ASSUME ChatConstants ==
    /\ Pending \cup Expiring \subseteq Contacts
    /\ {TTL, MaxTime, MaxWires, MaxSends, MaxFaults} \subseteq Nat
    /\ None \notin Contacts /\ None \notin Contact /\ None \notin Task

VARIABLES app,      \* the page in use: "chat" (hey-chat) or "social" (hey-social)
          contacts, \* contacts.json: [kind, unread] per did, or None
          conv,     \* the logs: lines [id, ts]; ids of own lines are negative
          expiry,   \* seconds per did, 0 for none
          ratchet,  \* wires whose keys the persisted ratchet has consumed, per did
          sent,     \* own lines handed to the transport, per did
          now,
          wires,    \* wires[i]: contact i-th message is from, and its time
          task,     \* the operation under way: [did, id, ts, todo], or None
          composed, \* messages composed so far
          open,     \* the conversation the page is on, or None
          shown,    \* the conversation whose lines are on the page, or None
          loads,    \* conversations read for the page whose lines are on their way to it
          gone,     \* lines removed by expiry, deletion or a wipe
          forgotten, \* lines written over because the read of their log had failed
          fresh,    \* lines received since the conversation was last marked read
          faults

vars == <<app, contacts, conv, expiry, ratchet, sent, now, wires, task, composed, open, shown, loads,
          gone, forgotten, fresh, faults>>
files == <<contacts, conv, expiry, ratchet>>
page == <<open, shown, loads>>
world == <<app, now, wires, composed, faults>>

Ids(log) == {log[i].id : i \in DOMAIN log}

Init ==
    /\ app \in {"chat", "social"}
    /\ contacts = [d \in Contacts |-> [kind |-> IF d \in Pending THEN "pending" ELSE "v2", unread |-> 0]]
    /\ conv = [d \in Contacts |-> <<>>]
    /\ expiry = [d \in Contacts |-> 0]
    /\ ratchet = [d \in Contacts |-> {}] /\ sent = [d \in Contacts |-> {}]
    /\ now = 0 /\ wires = <<>> /\ task = None /\ composed = 0
    /\ open = None /\ shown = None /\ loads = {}
    /\ gone = [d \in Contacts |-> {}] /\ forgotten = [d \in Contacts |-> {}]
    /\ fresh = [d \in Contacts |-> 0] /\ faults = 0

-----------------------------------------------------------------------------
(* Tasks.                                                                  *)

Begin(d, id, ts, todo) == task = None /\ task' = [did |-> d, id |-> id, ts |-> ts, todo |-> todo]

\* The next step of the task is s, and the task goes on after it.
At(s) == task # None /\ Head(task.todo) = s
Onward == task' = IF Len(task.todo) = 1 THEN None ELSE [task EXCEPT !.todo = Tail(@)]

\* The rest of the task is left out.
Done == task' = None

Line(id, ts) == [id |-> id, ts |-> ts]

\* Mutant of ReceiveSteps: the ratchet is persisted before the plaintext.
ReceiveStepsEager == <<"ratchet", "store", "touch">>

\* receive_ratchet_message stores the plaintext first and persists the
\* consumed advance last.
ReceiveSteps == <<"store", "touch", "ratchet">>

\* A wire arrives, for the first time or again.  Without an active contact on
\* its queue, or without its key, it is dropped.
receive_ratchet_message(i) ==
    LET d == wires[i].from
    IN  /\ contacts[d] # None /\ contacts[d].kind = "v2"
        /\ i \notin ratchet[d]
        /\ Begin(d, i, wires[i].ts, ReceiveSteps)
        /\ UNCHANGED <<files, sent, world, page, gone, forgotten, fresh>>

\* Is the line in the log already?
Redelivered(d, id) == id \in Ids(conv[d])

\* Mutant of Untouched: the contact is touched for a redelivery too.
UntouchedNot(todo) == Tail(todo)

\* What is left to do for a redelivery: the early return leaves the contact
\* alone, the caller still persists the ratchet.
Untouched(todo) == Tail(Tail(todo))

\* store_incoming_message appends the line, unless it is there already.
store_incoming_message ==
    LET d == task.did
    IN  /\ At("store")
        /\ IF Redelivered(d, task.id)
           THEN /\ task' = [task EXCEPT !.todo = Untouched(@)]
                /\ UNCHANGED <<conv, fresh>>
           ELSE /\ conv' = [conv EXCEPT ![d] = Append(@, Line(task.id, task.ts))]
                /\ fresh' = [fresh EXCEPT ![d] = @ + 1]
                /\ Onward
        /\ UNCHANGED <<contacts, expiry, ratchet, sent, world, page, gone, forgotten>>

\* The contacts file after touch_contact_message: one that is not listed is
\* listed, without keys.
Touched(d, inc) ==
    [contacts EXCEPT ![d] = IF @ = None THEN [kind |-> "legacy", unread |-> inc]
                            ELSE [@ EXCEPT !.unread = contacts[d].unread + inc]]

touch_contact_message ==
    /\ At("touch")
    /\ contacts' = Touched(task.did, IF task.id > 0 THEN 1 ELSE 0)
    /\ Onward
    /\ UNCHANGED <<conv, expiry, ratchet, sent, world, page, gone, forgotten, fresh>>

write_ratchet ==
    /\ At("ratchet")
    /\ ratchet' = [ratchet EXCEPT ![task.did] = @ \cup {task.id}]
    /\ Onward
    /\ UNCHANGED <<contacts, conv, expiry, sent, world, page, gone, forgotten, fresh>>

\* The send button.  The composer is cleared whatever comes of it; a contact
\* that is pending is refused, one that is gone or has no keys only after its
\* line was logged.  When the read of the contacts fails, the contact counts as
\* gone.
send_message ==
    /\ task = None /\ open # None /\ composed < MaxSends
    /\ composed' = composed + 1
    /\ \E c \in {contacts[open], None} :
          /\ \/ c = contacts[open] /\ UNCHANGED faults
             \/ c # contacts[open] /\ faults < MaxFaults /\ faults' = faults + 1
          /\ IF c # None /\ c.kind = "pending" THEN UNCHANGED task
             ELSE Begin(open, -composed', now,
                        <<"own", "touch">> \o (IF c # None /\ c.kind = "v2" THEN <<"publish">> ELSE <<>>)
                                           \o <<"show">>)
    /\ UNCHANGED <<app, files, sent, now, wires, page, gone, forgotten, fresh>>

write_own ==
    /\ At("own")
    /\ conv' = [conv EXCEPT ![task.did] = Append(@, Line(task.id, task.ts))]
    /\ Onward
    /\ UNCHANGED <<contacts, expiry, ratchet, sent, world, page, gone, forgotten, fresh>>

\* send_body_to_contact: sealed, and published or queued for a retry.
send_body_to_contact ==
    /\ At("publish")
    /\ sent' = [sent EXCEPT ![task.did] = @ \cup {task.id}]
    /\ Onward
    /\ UNCHANGED <<files, world, page, gone, forgotten, fresh>>

\* mark_read, when the page has read the log of a conversation just opened.
mark_read ==
    /\ At("mark")
    /\ contacts' = [contacts EXCEPT ![task.did] = IF @ = None THEN @ ELSE [@ EXCEPT !.unread = 0]]
    /\ fresh' = [fresh EXCEPT ![task.did] = 0]
    /\ Onward
    /\ UNCHANGED <<conv, expiry, ratchet, sent, world, page, gone, forgotten>>

\* set_expiry_secs, from the menu of the conversation.
on_expiry_change(secs) ==
    /\ app = "social" /\ open \in Expiring
    /\ Begin(open, secs, 0, <<"expiry", "prune", "show">>)
    /\ UNCHANGED <<files, sent, world, page, gone, forgotten, fresh>>

set_expiry_secs ==
    /\ At("expiry")
    /\ expiry' = [expiry EXCEPT ![task.did] = task.id]
    /\ Onward
    /\ UNCHANGED <<contacts, conv, ratchet, sent, world, page, gone, forgotten, fresh>>

Removed(d, log) == gone' = [gone EXCEPT ![d] = @ \cup (Ids(conv[d]) \ Ids(log))]

\* Lines younger than the cutoff stay.
Kept(d) == Retained(conv[d], {m \in Range(conv[d]) : m.ts >= now - expiry[d]})

prune_expired ==
    LET log == IF expiry[task.did] = 0 THEN conv[task.did] ELSE Kept(task.did)
    IN  /\ At("prune")
        /\ conv' = [conv EXCEPT ![task.did] = log]
        /\ Removed(task.did, log)
        /\ Onward
        /\ UNCHANGED <<contacts, expiry, ratchet, sent, world, page, forgotten, fresh>>

\* revoke_invite of a contact that is pending; delete_conversation of any
\* other one that is listed.
revoke_invite(d) ==
    /\ contacts[d] # None /\ contacts[d].kind = "pending"
    /\ Begin(d, 0, 0, <<"unlist", "keys">>)
    /\ UNCHANGED <<files, sent, world, page, gone, forgotten, fresh>>

delete_conversation(d) ==
    /\ app = "chat" /\ contacts[d] # None /\ contacts[d].kind # "pending"
    /\ Begin(d, 0, 0, <<"unlist", "log", "keys", "expiry">>)
    /\ UNCHANGED <<files, sent, world, page, gone, forgotten, fresh>>

write_contacts ==
    /\ At("unlist")
    /\ contacts' = [contacts EXCEPT ![task.did] = None]
    /\ fresh' = [fresh EXCEPT ![task.did] = 0]
    /\ Onward
    /\ UNCHANGED <<conv, expiry, ratchet, sent, world, page, gone, forgotten>>

remove_log ==
    /\ At("log")
    /\ conv' = [conv EXCEPT ![task.did] = <<>>]
    /\ Removed(task.did, <<>>)
    /\ Onward
    /\ UNCHANGED <<contacts, expiry, ratchet, sent, world, page, forgotten, fresh>>

remove_ratchet ==
    /\ At("keys")
    /\ ratchet' = [ratchet EXCEPT ![task.did] = {}]
    /\ Onward
    /\ UNCHANGED <<contacts, conv, expiry, sent, world, page, gone, forgotten, fresh>>

\* wipe_dm_storage: the logs and ratchets of the contacts listed, then the
\* contacts, then the expiry settings; the page goes back to the start.
do_wipe_identity ==
    /\ app = "social"
    /\ Begin(None, 0, 0, <<"wipe_logs", "wipe_contacts", "wipe_expiry">>)
    /\ UNCHANGED <<files, sent, world, page, gone, forgotten, fresh>>

wipe_dm_storage ==
    LET listed == {d \in Contacts : contacts[d] # None}
    IN  /\ \/ /\ At("wipe_logs")
              /\ conv' = [d \in Contacts |-> IF d \in listed THEN <<>> ELSE conv[d]]
              /\ ratchet' = [d \in Contacts |-> IF d \in listed THEN {} ELSE ratchet[d]]
              /\ gone' = [d \in Contacts |-> gone[d] \cup IF d \in listed THEN Ids(conv[d]) ELSE {}]
              /\ UNCHANGED <<contacts, expiry, fresh, page>>
           \/ /\ At("wipe_contacts")
              /\ contacts' = [d \in Contacts |-> None]
              /\ fresh' = [d \in Contacts |-> 0]
              /\ UNCHANGED <<conv, ratchet, gone, expiry, page>>
           \/ /\ At("wipe_expiry")
              /\ expiry' = [d \in Contacts |-> 0]
              /\ open' = None /\ shown' = None
              /\ UNCHANGED <<conv, ratchet, gone, contacts, fresh, loads>>
        /\ Onward
        /\ UNCHANGED <<sent, world, forgotten>>

\* A write fails: the steps whose error is returned end the task, the others
\* are skipped.
WriteFails ==
    /\ task # None /\ faults < MaxFaults
    /\ faults' = faults + 1
    /\ IF Head(task.todo) \in {"store", "touch", "ratchet", "own", "unlist"} THEN Done ELSE Onward
    /\ UNCHANGED <<app, files, sent, now, wires, composed, page, gone, forgotten, fresh>>

\* A read fails and the file is taken for empty: the write that follows leaves
\* in it only what the step adds, and a redelivery is not recognised.  The other
\* steps with a read write nothing then, like one whose write fails.
ReadFails ==
    LET d == task.did
    IN  /\ task # None /\ faults < MaxFaults /\ faults' = faults + 1
        /\ \/ /\ At("store") \/ At("own")
              /\ conv' = [conv EXCEPT ![d] = <<Line(task.id, task.ts)>>]
              /\ forgotten' = [forgotten EXCEPT ![d] = @ \cup (Ids(conv[d]) \ {task.id})]
              /\ fresh' = [fresh EXCEPT ![d] = IF At("store") THEN @ + 1 ELSE @]
              /\ UNCHANGED <<contacts, expiry>>
           \/ /\ At("touch")
              /\ contacts' = [e \in Contacts |->
                                IF e = d THEN [kind |-> "legacy", unread |-> IF task.id > 0 THEN 1 ELSE 0]
                                ELSE None]
              /\ fresh' = [e \in Contacts |-> IF e = d THEN fresh[e] ELSE 0]
              /\ UNCHANGED <<conv, expiry, forgotten>>
           \/ /\ At("expiry") /\ Len(task.todo) > 1  \* of set_expiry_secs
              /\ expiry' = [e \in Contacts |-> IF e = d THEN task.id ELSE 0]
              /\ UNCHANGED <<contacts, conv, forgotten, fresh>>
        /\ Onward
        /\ UNCHANGED <<app, ratchet, sent, now, wires, composed, page, gone>>

\* The tab is closed and opened again.
Crash ==
    /\ faults < MaxFaults
    /\ faults' = faults + 1
    /\ task' = None
    /\ open' = None /\ shown' = None /\ loads' = {}
    /\ UNCHANGED <<app, files, sent, now, wires, composed, gone, forgotten, fresh>>

-----------------------------------------------------------------------------
(* The page.                                                               *)

\* Navigating to a conversation.
Open(d) ==
    /\ open # d
    /\ open' = d
    /\ Begin(d, 0, 0, (IF app = "social" THEN <<"prune">> ELSE <<>>) \o <<"show", "mark">>)
    /\ shown' = IF app = "social" THEN shown ELSE d
    /\ UNCHANGED <<files, sent, world, loads, gone, forgotten, fresh>>

Close ==
    /\ open # None /\ open' = None
    /\ shown' = None
    /\ UNCHANGED <<files, sent, world, task, loads, gone, forgotten, fresh>>

\* read_conversation for the page.  hey-social has one signal for the lines
\* of all conversations, set when the read returns, wherever the user is by
\* then; that of hey-chat goes with the conversation it belongs to.
Reading(d) == loads' = IF app = "social" THEN loads \cup {d} ELSE loads

read_conversation ==
    /\ At("show")
    /\ Reading(task.did)
    /\ Onward
    /\ UNCHANGED <<files, sent, world, open, shown, gone, forgotten, fresh>>

Loaded(d) ==
    /\ d \in loads /\ loads' = loads \ {d}
    /\ shown' = d
    /\ UNCHANGED <<files, sent, world, task, open, gone, forgotten, fresh>>

\* Mutant of Polled: the loop reads what the page shows, not where it is.
PolledStale == IF shown = None THEN open ELSE shown

\* The conversation the poll loop reads.
Polled == open

Poll ==
    /\ open # None /\ loads = {}
    /\ Reading(Polled)
    /\ UNCHANGED <<files, sent, world, task, open, shown, gone, forgotten, fresh>>

-----------------------------------------------------------------------------
\* A contact sends a message; a while passes, longer than the expiry.
PeerSends(d) ==
    /\ Len(wires) < MaxWires /\ d \notin Pending
    /\ wires' = Append(wires, [from |-> d, ts |-> now])
    /\ UNCHANGED <<app, files, sent, now, composed, faults, task, page, gone, forgotten, fresh>>

Tick ==
    /\ now + TTL < MaxTime /\ now' = now + TTL + 1
    /\ UNCHANGED <<app, files, sent, wires, composed, faults, task, page, gone, forgotten, fresh>>

Step ==
    \/ store_incoming_message \/ touch_contact_message \/ write_ratchet \/ write_own
    \/ send_body_to_contact \/ mark_read \/ set_expiry_secs \/ prune_expired \/ write_contacts
    \/ remove_log \/ remove_ratchet \/ wipe_dm_storage \/ read_conversation

Next ==
    \/ Step \/ WriteFails \/ ReadFails \/ Crash
    \/ \E i \in DOMAIN wires : receive_ratchet_message(i)
    \/ send_message \/ do_wipe_identity \/ Close \/ Poll \/ Tick
    \/ \E secs \in {0, TTL} : on_expiry_change(secs)
    \/ \E d \in Contacts : Open(d) \/ Loaded(d) \/ revoke_invite(d) \/ delete_conversation(d) \/ PeerSends(d)

Spec == Init /\ [][Next]_vars

\* Reads return, tasks go on, and the poll loop runs.
FairSpec ==
    /\ Spec /\ WF_vars(Poll) /\ WF_vars(Step)
    /\ \A d \in Contacts : WF_vars(Loaded(d))

-----------------------------------------------------------------------------
(* Properties.                                                             *)

\* No message is lost on the way to the log, wherever an operation died or a
\* write failed: once its key is consumed its line is in the log, and so is a
\* line of ours that was sent, until it expires, is deleted or wiped.  The one
\* excuse is a read of that very log that failed: read_conversation takes the
\* log for empty, and the line stored next is written over all it held.
LinesKept ==
    \A d \in Contacts : ratchet[d] \cup sent[d] \subseteq Ids(conv[d]) \cup gone[d] \cup forgotten[d]

\* The badge never counts more lines than were stored since the conversation
\* was last read, however often they came in; it counts exactly those when no
\* task died or had a read or write fail.
UnreadSound ==
    \A d \in Contacts :
        contacts[d] # None =>
            /\ contacts[d].unread <= fresh[d]
            /\ task = None /\ faults = 0 => contacts[d].unread = fresh[d]

\* A page that stays on a conversation ends up showing its lines and no
\* other's, whatever reads of another conversation were on their way when the
\* user came to it.
ShownSettles == \A d \in Contacts : <>[](open = d) => <>[](shown = d)
=============================================================================
