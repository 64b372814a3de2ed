------------------------------- MODULE Bridge -------------------------------
(***************************************************************************)
(* How one browser tab of hey-chat or hey-social gets at its runtime: the  *)
(* launch token Home puts into the URL, its redemption for an app session, *)
(* the capability-token cache, the storage route that is detected and      *)
(* memoized (hey-core/src/runtime.rs), and the gate that opens once the    *)
(* runtime has named an identity (SignInGate of hey-chat, Landing of       *)
(* hey-social, adopt_provider_identity of dms.rs).                         *)
(*                                                                         *)
(* The tab is one event loop: a task runs until it awaits a fetch, then    *)
(* any other may run.  A task is the sequence of the calls it has left     *)
(* (todo) and the request it awaits (req).  sessionStorage survives a page *)
(* load in the tab, memory does not.  What the runtime answers is modelled *)
(* from the statuses the code tells apart.  The poll of a pending grant    *)
(* ends within 30 s in a grant or without one, so it is part of the answer *)
(* to the request; of the capability tokens one stands for all.            *)
(***************************************************************************)
EXTENDS Integers, Sequences

CONSTANTS Launches,    \* launch tokens Home mints
          Wrapped,     \* those that reach the tab in a device-link envelope
          Probes,      \* slots for running probe_runtime tasks
          Readers,     \* slots for tasks of a signed-in app that read storage
          Writers,     \* and for tasks that write or remove
          MaxLoads,    \* bound: page loads
          MaxFailures, \* bound: fetch errors, tokens or sessions that end, upgrades
          None

ASSUME BridgeConstants ==
    /\ Wrapped \subseteq Launches /\ Probes # {}
    /\ MaxLoads \in Nat /\ MaxFailures \in Nat
    /\ None \notin Launches \cup {"seed", "runtime"}

VARIABLES url,       \* the launch token in the visible URL
          home,      \* sessionStorage: the launch token of this tab
          redeemed,  \* sessionStorage: the redeemed bit
          bearer,    \* sessionStorage: what runtime-token answered
          store,     \* sessionStorage: is there a capability token
          mode,      \* sessionStorage: the storage route
          cache,     \* TOKEN_CACHE: "unloaded", "token" or "none"
          session,   \* localStorage: None, "seed" (legacy) or "runtime"
          gate,      \* None before the first load, "Checking", "Ready", "Offline"
          turn,      \* the task that is running
          todo,      \* todo[t]: the calls task t has left
          req,       \* req[t]: the request t awaits
          refused,   \* users whose write came back refused although good[u]
          kind,      \* the runtime: "fork", "older" or "stock"
          live,      \* launch tokens the runtime takes
          cookie,    \* the launch whose app session the cookie stands for
          sessions,  \* app sessions that stand
          lapsed,    \* envelopes past their expiry and the skew
          launched,  \* the launches so far, the latest last
          good,      \* good[u]: u's token was taken ever since its write began
          loads, failures

tab == <<url, home, redeemed, bearer, store, mode, cache>>
app == <<session, gate>>
tabTasks == <<turn, todo, req>>
runtime == <<kind, live, cookie, sessions, lapsed>>
history == <<refused, launched, good, loads, failures>>
bridgeVars == <<tab, app, tabTasks, runtime, history>>

Users == Readers \cup Writers
TabTasks == {"boot"} \cup Probes \cup Users

BridgeInit ==
    /\ url = None /\ home = None /\ redeemed = FALSE /\ bearer = None
    /\ store = FALSE /\ mode = None /\ cache = "unloaded"
    /\ session \in {None, "seed", "runtime"} /\ gate = None
    /\ turn = None
    /\ todo = [t \in TabTasks |-> <<>>] /\ req = [t \in TabTasks |-> None]
    /\ refused = {} /\ good = [u \in Users |-> FALSE]
    /\ kind \in {"fork", "older", "stock"}
    /\ live = {} /\ cookie = None /\ sessions = {} /\ lapsed = {}
    /\ launched = <<>> /\ loads = 0 /\ failures = 0

-----------------------------------------------------------------------------
(* The runtimes the comments of runtime.rs tell apart: the fork routes     *)
(* session/start, the app's own storage route and an identity provider; an *)
(* older patched build only has runtime-token, and a session that may name *)
(* a did; the stock one routes neither.                                    *)

HasWhoami  == kind = "fork"
SessionDid == kind = "older"
Takes(launch) == kind = "fork" /\ launch \in live

-----------------------------------------------------------------------------
(* The launch token and the tasks.                                         *)

\* The token home_launch_token() answers: a fresh one in the URL replaces the
\* stored one; an envelope past its expiry counts as no token.
Raw      == IF url # None THEN url ELSE home
Resolved == IF Raw \in lapsed THEN None ELSE Raw

\* What home_launch_token() does to sessionStorage on the way: a fresh launch
\* takes the redeemed bit and the stored capability tokens with it.
home_launch_token ==
    LET fresh == home # None /\ Raw # home
    IN  /\ home'     = Raw
        /\ redeemed' = (redeemed /\ ~fresh)
        /\ store'    = (store /\ ~fresh)

AppSession == cookie \in sessions \/ bearer \in sessions

\* Task t goes on with calls, or awaits request r.
GoOn(t, calls) ==
    /\ todo' = [todo EXCEPT ![t] = calls]
    /\ req'  = [req EXCEPT ![t] = None]
    /\ turn' = IF calls = <<>> THEN None ELSE t

Await(t, r) ==
    /\ req'  = [req EXCEPT ![t] = r]
    /\ turn' = None

AtCall(t, call) == turn = t /\ req[t] = None /\ todo[t] # <<>> /\ Head(todo[t]) = call

Rest(t) == Tail(todo[t])

\* A fetch that is answered; nothing else runs while a task does.
Answers(t, what) == turn = None /\ req[t] # None /\ req[t].what = what

-----------------------------------------------------------------------------
(* redeem_launch_token, scrub_launch_token_from_url, capability tokens.    *)

redeem_launch_token(t) ==
    /\ AtCall(t, "redeem")
    /\ \/ /\ redeemed
          /\ GoOn(t, Rest(t))
          /\ UNCHANGED <<home, redeemed, store>>
       \/ /\ ~redeemed
          /\ home_launch_token
          /\ IF Resolved = None THEN GoOn(t, Rest(t))
             ELSE Await(t, [what |-> "start", launch |-> Resolved]) /\ UNCHANGED todo
    /\ UNCHANGED <<url, bearer, mode, cache, app, runtime, history>>

\* POST session/start: it sets the cookie; a rejection ends the redemption, a
\* runtime that does not route it (404, 405) is asked for a runtime-token.
SessionStart(t) ==
    LET launch == req[t].launch
    IN  /\ Answers(t, "start")
        /\ \/ /\ kind = "fork" /\ launch \in live
              /\ cookie' = launch /\ sessions' = sessions \cup {launch}
              /\ redeemed' = TRUE
              /\ GoOn(t, Rest(t))
           \/ /\ kind = "fork" /\ launch \notin live
              /\ GoOn(t, Rest(t))
              /\ UNCHANGED <<cookie, sessions, redeemed>>
           \/ /\ kind # "fork"
              /\ Await(t, [what |-> "runtime_token", launch |-> launch])
              /\ UNCHANGED <<todo, cookie, sessions, redeemed>>
        /\ UNCHANGED <<url, home, bearer, store, mode, cache, app, kind,
                       live, lapsed, history>>

\* POST runtime-token: the bearer it answers is kept for every later fetch.
RuntimeToken(t) ==
    LET launch == req[t].launch
    IN  /\ Answers(t, "runtime_token")
        /\ IF kind = "older" /\ launch \in live
           THEN bearer' = launch /\ redeemed' = TRUE /\ sessions' = sessions \cup {launch}
           ELSE UNCHANGED <<bearer, redeemed, sessions>>
        /\ GoOn(t, Rest(t))
        /\ UNCHANGED <<url, home, store, mode, cache, app, kind, live, cookie,
                       lapsed, history>>

\* The token a write in progress rests on is still taken.
StillGood == good' = [u \in Users |-> good[u] /\ Takes(Resolved)']

scrub_launch_token_from_url(t) ==
    /\ AtCall(t, "scrub")
    /\ url' = None
    /\ GoOn(t, Rest(t))
    /\ UNCHANGED <<home, redeemed, bearer, store, mode, cache, app, runtime,
                   refused, launched, loads, failures>>
    /\ StillGood

\* A cached capability token is used; otherwise one is requested.  The cache
\* is filled from sessionStorage when it is first looked at.
ensure_capability_token(t) ==
    LET have == IF cache = "unloaded" THEN store ELSE cache = "token"
    IN  /\ AtCall(t, "cap")
        /\ cache' = IF have THEN "token" ELSE "none"
        /\ GoOn(t, IF have THEN Rest(t) ELSE <<"redeem", "request">> \o Rest(t))
        /\ UNCHANGED <<url, home, redeemed, bearer, store, mode, app, runtime, history>>

request_capability_token(t) ==
    /\ AtCall(t, "request")
    /\ Await(t, [what |-> "request", launch |-> None])
    /\ UNCHANGED <<todo, tab, app, runtime, history>>

\* Granted, at once or while polling; without a session the call goes on with
\* the fallback token, which is not cached, and so it does when the request is
\* denied, expires or fails (FetchFails).
CapabilityAnswer(t) ==
    /\ Answers(t, "request")
    /\ IF AppSession THEN cache' = "token" /\ store' = TRUE ELSE UNCHANGED <<cache, store>>
    /\ GoOn(t, Rest(t))
    /\ UNCHANGED <<url, home, redeemed, bearer, mode, app, runtime, history>>

-----------------------------------------------------------------------------
(* provider_call, and the probe of the gate.                               *)

\* provider_call after its capability token: the gateway looks at nothing but
\* the launch token in the header.
provider_call(t) ==
    /\ AtCall(t, "whoami")
    /\ home_launch_token
    /\ Await(t, [what |-> "whoami", launch |-> Resolved])
    /\ UNCHANGED <<url, bearer, mode, cache, todo, app, runtime, history>>

\* Mutant of Judged: a probe without an identity leaves the gate as it is.
JudgedOnlyYes(found) ==
    /\ session' = IF found THEN "runtime" ELSE session
    /\ gate' = IF found THEN "Ready" ELSE gate

\* probe_runtime is over: an identity of the runtime replaces the session and
\* opens the gate; without one the gate says offline.
Judged(found) ==
    /\ session' = IF found THEN "runtime" ELSE session
    /\ gate' = IF found THEN "Ready" ELSE "Offline"

\* identity/whoami of adopt_provider_identity; inherit_session comes next.
WhoamiAnswer(t) ==
    /\ Answers(t, "whoami")
    /\ IF req[t].launch \in live /\ HasWhoami
       THEN Judged(TRUE) /\ GoOn(t, <<>>)
       ELSE GoOn(t, Rest(t)) /\ UNCHANGED app
    /\ UNCHANGED <<tab, runtime, history>>

session_current(t) ==
    /\ AtCall(t, "session")
    /\ Await(t, [what |-> "session", launch |-> None])
    /\ UNCHANGED <<todo, tab, app, runtime, history>>

\* GET /api/session: a did in it is inherited, anything else is offline.
inherit_session(t) ==
    /\ Answers(t, "session")
    /\ Judged(AppSession /\ SessionDid)
    /\ GoOn(t, <<>>)
    /\ UNCHANGED <<tab, runtime, history>>

probe_runtime == <<"cap", "whoami", "redeem", "session">>

Free == {p \in Probes : todo[p] = <<>>}
Slot == CHOOSE p \in Free : TRUE

\* The gate's effect on mount probes once when there is no session.
MountProbe ==
    /\ turn = None /\ gate = "Checking" /\ Free = Probes
    /\ GoOn(Slot, probe_runtime)
    /\ UNCHANGED <<tab, app, runtime, history>>

\* Mutant of MayRetry: another probe starts beside the running one.
MayRetryAnyway == gate \in {"Checking", "Offline"}

\* retry returns at once while a probe is running.
MayRetry == gate = "Offline"

Retry ==
    /\ turn = None /\ Free # {}
    /\ MayRetry
    /\ gate' = "Checking"
    /\ GoOn(Slot, probe_runtime)
    /\ UNCHANGED <<tab, session, runtime, history>>

-----------------------------------------------------------------------------
(* dispatch_storage.                                                       *)

\* A task of the signed-in app (the poll loop, a page) reads or writes.
Use(u, op) ==
    /\ turn = None /\ session = "runtime" /\ gate = "Ready"
    /\ todo[u] = <<>>
    /\ GoOn(u, <<"redeem", op>>)
    /\ good' = [good EXCEPT ![u] = op = "put" /\ Takes(Resolved)]
    /\ UNCHANGED <<tab, app, runtime, refused, launched, loads, failures>>

Attempt(u, what, via) ==
    /\ IF via = "patch-0002" THEN home_launch_token ELSE UNCHANGED <<home, redeemed, store>>
    /\ Await(u, [what |-> what, launch |-> IF via = "patch-0002" THEN Resolved ELSE None])

dispatch_storage(u) ==
    /\ AtCall(u, "get") \/ AtCall(u, "put")
    /\ IF mode # None THEN Attempt(u, mode, mode) ELSE Attempt(u, "detect", "patch-0002")
    /\ UNCHANGED <<url, bearer, mode, cache, todo, app, runtime, history>>

\* What the two routes answer: the legacy one refuses every write.
PatchStatus(u) ==
    IF ~Takes(req[u].launch) THEN {401}
    ELSE IF Head(todo[u]) = "put" THEN {200} ELSE {200, 404}
LegacyStatus(u) ==
    IF Head(todo[u]) = "put" THEN {405}
    ELSE IF AppSession THEN {200, 404} ELSE {401}

Returned(u, status) ==
    /\ refused' = IF good[u] /\ status # 200 THEN refused \cup {u} ELSE refused
    /\ good' = [good EXCEPT ![u] = FALSE]
    /\ GoOn(u, Rest(u))

\* Mutant of Heals: the memoized route is never doubted.
HealsNever(status) == FALSE

\* A 405 of the memoized route sends the call back to detection.
Heals(status) == status = 405

CachedAnswer(u) ==
    \E route \in {"patch-0002", "legacy"} :
        /\ Answers(u, route)
        /\ \E status \in IF route = "legacy" THEN LegacyStatus(u) ELSE PatchStatus(u) :
              IF Heals(status)
              THEN /\ mode' = None
                   /\ Attempt(u, "detect", "patch-0002")
                   /\ UNCHANGED <<todo, refused, good>>
              ELSE Returned(u, status) /\ UNCHANGED <<mode, home, redeemed, store>>
        /\ UNCHANGED <<url, bearer, cache, app, runtime, launched, loads, failures>>

\* Detection: only a 401 (or 403) of the app's own route asks the legacy one.
DetectAnswer(u) ==
    /\ Answers(u, "detect")
    /\ \E status \in PatchStatus(u) :
          IF status = 401
          THEN /\ Attempt(u, "fallback", "legacy")
               /\ UNCHANGED <<todo, mode, refused, good>>
          ELSE /\ mode' = "patch-0002"
               /\ Returned(u, status)
               /\ UNCHANGED <<home, redeemed, store>>
    /\ UNCHANGED <<url, bearer, cache, app, runtime, launched, loads, failures>>

\* The legacy route is kept only if it served the call.
FallbackAnswer(u) ==
    /\ Answers(u, "fallback")
    /\ \E status \in LegacyStatus(u) :
          /\ mode' = IF status < 400 THEN "legacy" ELSE "patch-0002"
          /\ Returned(u, IF status < 400 THEN status ELSE 401)
    /\ UNCHANGED <<url, home, redeemed, bearer, store, cache, app, runtime, launched,
                   loads, failures>>

-----------------------------------------------------------------------------
(* The page, the user and the runtime's side.                              *)

\* A page load, with a fresh launch token or, a reload, none.  Memory goes,
\* sessionStorage stays; a session that still holds a seed is dropped, and one
\* that names a runtime identity opens the gate at once.
Load(token) ==
    /\ turn = None /\ loads < MaxLoads
    /\ loads' = loads + 1
    /\ url' = token
    /\ \/ /\ token \in Launches \ {launched[i] : i \in DOMAIN launched}
          /\ launched' = Append(launched, token)
          /\ live' = live \cup {token}
       \/ token = None /\ UNCHANGED <<launched, live>>
    /\ cache' = "unloaded"
    /\ session' = IF session = "seed" THEN None ELSE session
    /\ gate' = IF session' = None THEN "Checking" ELSE "Ready"
    /\ todo' = [t \in TabTasks |-> IF t = "boot" THEN <<"redeem", "scrub", "cap">> ELSE <<>>]
    /\ req' = [t \in TabTasks |-> None]
    /\ turn' = "boot"
    /\ good' = [u \in Users |-> FALSE]
    /\ UNCHANGED <<home, redeemed, bearer, store, mode, kind, cookie,
                   sessions, lapsed, refused, failures>>

\* A fetch ends in an error: redemption, capability request and probe go on as
\* on a refusal, a storage call returns the error.
FetchFails(t) ==
    /\ turn = None /\ req[t] # None /\ failures < MaxFailures
    /\ failures' = failures + 1
    /\ IF req[t].what = "session"
       THEN Judged(FALSE) /\ GoOn(t, <<>>)
       ELSE GoOn(t, Rest(t)) /\ UNCHANGED app
    /\ good' = [u \in Users |-> good[u] /\ (u = t => Rest(t) # <<>>)]
    /\ UNCHANGED <<tab, runtime, refused, launched, loads>>

\* Home revokes a launch, a session ends, an envelope expires.
Ends ==
    /\ turn = None /\ failures < MaxFailures
    /\ failures' = failures + 1
    /\ \E l \in Launches :
          \/ l \in live /\ live' = live \ {l} /\ UNCHANGED <<sessions, lapsed>>
          \/ l \in sessions /\ sessions' = sessions \ {l} /\ UNCHANGED <<live, lapsed>>
          \/ l \in Wrapped \ lapsed /\ lapsed' = lapsed \cup {l} /\ UNCHANGED <<live, sessions>>
    /\ UNCHANGED <<tab, app, tabTasks, kind, cookie, refused, launched, loads>>
    /\ StillGood

\* The node is upgraded under the open tab; sessions and tokens stand.
Upgrade ==
    /\ turn = None /\ kind = "older" /\ failures < MaxFailures
    /\ failures' = failures + 1
    /\ kind' = "fork"
    /\ UNCHANGED <<tab, app, tabTasks, live, cookie, sessions, lapsed, refused, launched,
                   good, loads>>

-----------------------------------------------------------------------------
Run(t) ==
    \/ redeem_launch_token(t) \/ scrub_launch_token_from_url(t)
    \/ ensure_capability_token(t) \/ request_capability_token(t)
    \/ provider_call(t) \/ session_current(t) \/ dispatch_storage(t)

Answer(t) ==
    \/ SessionStart(t) \/ RuntimeToken(t) \/ CapabilityAnswer(t)
    \/ WhoamiAnswer(t) \/ inherit_session(t)
    \/ CachedAnswer(t) \/ DetectAnswer(t) \/ FallbackAnswer(t)

BridgeNext ==
    \/ \E t \in TabTasks : Run(t) \/ Answer(t) \/ FetchFails(t)
    \/ MountProbe \/ Retry
    \/ \E u \in Readers : Use(u, "get")
    \/ \E u \in Writers : Use(u, "put")
    \/ \E token \in Launches \cup {None} : Load(token)
    \/ Ends \/ Upgrade

BridgeSpec == BridgeInit /\ [][BridgeNext]_bridgeVars

\* The event loop runs what can run, a fetch is answered or fails, and the
\* effect of a mounted gate runs.  Nobody has to click or load.
FairBridge ==
    /\ BridgeSpec
    /\ \A t \in TabTasks : WF_bridgeVars(Run(t)) /\ WF_bridgeVars(Answer(t))
    /\ WF_bridgeVars(MountProbe)

-----------------------------------------------------------------------------
(* Properties.                                                             *)

\* A write whose launch token the runtime took from its first step to its last
\* goes through, whatever route an earlier call or a call beside it has
\* memoized: dispatch_storage never gives the legacy route's refusal back.
WritesGoThrough == refused = {}

\* The gate does not close again behind a user who is in: no late answer to an
\* earlier probe or retry turns Ready into Offline.
ReadyStays == [][gate = "Ready" /\ session' = "runtime" => gate' = "Ready"]_bridgeVars

\* "Connecting to your runtime" always ends, in the app or in the offline
\* notice with its retry, whatever fetch fails and whatever ends meanwhile.
GateSettles == gate = "Checking" ~> gate # "Checking"

\* "Fresh launch from Home ... drop the redeemed bit and the capability-token
\* cache so we re-handshake against the new launch token": once the tab has
\* booted, the token it uses is the one it was launched with.
FreshLaunchTaken ==
    url = None /\ turn = None /\ home # None => home = launched[Len(launched)]
=============================================================================
