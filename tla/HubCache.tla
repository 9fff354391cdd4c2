------------------------------ MODULE HubCache ------------------------------
(***************************************************************************)
(* The stale-while-revalidate layer for Plex hub payloads:                 *)
(* src/src/hub_cache.rs, its request path cached_hubs_response in          *)
(* src/src/routes.rs, and the two places that mark every hub stale         *)
(* (proxy_request and webhook_plex in src/src/routes.rs).                  *)
(*                                                                         *)
(* Three kinds of actor fetch hubs concurrently: client requests that find *)
(* no payload, refresh tasks spawned by requests that find an old one, and *)
(* the background warmer.  Only the last two claim their key.  A fetch is  *)
(* several steps (send, upstream read, insert, age record, release), and   *)
(* every other actor may move between any two of them.                     *)
(*                                                                         *)
(* Content is abstracted to the upstream version it shows and the account  *)
(* whose token fetched it.                                                 *)
(*                                                                         *)
(* Operators named Fault_... are seeded bugs: each is put in the place of  *)
(* the definition that follows it, to see that the property named with it  *)
(* notices.  The specification itself uses none of them.                   *)
(***************************************************************************)
EXTENDS Naturals, FiniteSets

CONSTANTS
    Accounts,       \* account tokens
    Paths,          \* canonical hub paths (cache_key_for_request)
    MergedPaths,    \* the /hubs/promoted* and /hubs/home* paths
    Global,         \* the scope of the merged paths' keys
    Requests,       \* slots for concurrent client requests
    Tasks,          \* slots for concurrent refresh tasks
    Warmer,         \* the one warmer task
    WarmTokens,     \* config.warm_tokens, or the admin token
    FirstToken,     \* the first of them
    StaleTTL,       \* config.hub_stale_ttl in ticks; 0 disables refreshing
    MinInterval,    \* REFRESH_MIN_INTERVAL in ticks
    FetchTimeout,   \* the upstream client's response timeout in ticks
    NoPayload, NoJob,
    ProxyEvents,    \* playback events pass through the proxy
    Webhooks,       \* the optional Plex webhook is configured
    MaxChanges,     \* bound: playback changes
    MaxMarks,       \* bound: times the hubs are marked stale
    MaxFailures,    \* bound: failed upstream fetches
    MaxEvictions    \* bound: payloads expired, evicted or purged

ASSUME ScopeAssumption == Global \notin Accounts
ASSUME MergedAssumption == MergedPaths \subseteq Paths
ASSUME ActorAssumption ==
    /\ Requests \cap Tasks = {}
    /\ Warmer \notin Requests \cup Tasks
ASSUME WarmAssumption == WarmTokens \subseteq Accounts /\ FirstToken \in Accounts
ASSUME TimeAssumption ==
    StaleTTL \in Nat /\ MinInterval \in Nat /\ FetchTimeout \in Nat
ASSUME SwitchAssumption == ProxyEvents \in BOOLEAN /\ Webhooks \in BOOLEAN

Background == Tasks \cup {Warmer}
Fetchers == Requests \cup Background

\* hub_cache_key: the merged promoted/home payloads share one key.
HubCacheKey(path, account) ==
    IF path \in MergedPaths THEN <<Global, path>> ELSE <<account, path>>

Keys == {HubCacheKey(p, a) : p \in Paths, a \in Accounts}

\* A payload's age since upstream produced it is capped: past Horizon no
\* property tells two ages apart.
Horizon == StaleTTL + FetchTimeout + 1

(***************************************************************************)
(* ver and owner are the content; seen (ticks since upstream produced it)  *)
(* and mark (how often the hubs had been marked stale when it was          *)
(* requested) are history.                                                 *)
(***************************************************************************)
Payload == [owner : Accounts, ver : Nat, seen : 0..Horizon, mark : Nat]

Job == [account : Accounts, path : Paths,
        payload : Payload \cup {NoPayload}, mark : Nat]

ASSUME NullAssumption == NoPayload \notin Payload /\ NoJob \notin Job

VARIABLES
    cache,      \* AppState.metadata_cache, its hubcache: keys
    fetchedAge, \* HUB_FETCHED_AT as an age; StaleTTL is "old or no record"
    attemptAge, \* HUB_LAST_REFRESH_ATTEMPT; MinInterval is "old or none"
    inflight,   \* REFRESH_INFLIGHT
    pc, job,    \* where each fetcher stands, and for whom
    todo,       \* what is left of the warmer's cycle
    upstream,   \* playback changes Plex has applied
    proxied,    \* events whose mark is done and whose proxying is not
    webhooks,   \* webhook calls on their way
    observed,   \* history: changes that Replex has been told of
    marks,      \* history: times the hubs were marked stale
    written,    \* history: version of the last background write per key
    failures, evictions

storeVars == <<cache, fetchedAge, attemptAge>>
eventVars == <<upstream, proxied, webhooks, observed, marks>>
boundVars == <<failures, evictions>>
vars == <<cache, fetchedAge, attemptAge, inflight, pc, job, todo, upstream,
          proxied, webhooks, observed, marks, written, failures, evictions>>

KeyOf(f) == HubCacheKey(job[f].path, job[f].account)

\* is_stale: no age record, or one at least hub_stale_ttl old.
IsStale(k) == fetchedAge[k] >= StaleTTL

NewJob(a, p) == [account |-> a, path |-> p, payload |-> NoPayload, mark |-> marks]

Goto(f, place) == pc' = [pc EXCEPT ![f] = place]

Finish(f) == Goto(f, "idle") /\ job' = [job EXCEPT ![f] = NoJob]

Init ==
    /\ cache = [k \in Keys |-> NoPayload]
    /\ fetchedAge = [k \in Keys |-> StaleTTL]
    /\ attemptAge = [k \in Keys |-> MinInterval]
    /\ inflight = {}
    /\ pc = [f \in Fetchers |-> "idle"]
    /\ job = [f \in Fetchers |-> NoJob]
    /\ todo = {}
    /\ upstream = 0 /\ proxied = 0 /\ webhooks = 0
    /\ observed = 0 /\ marks = 0
    /\ written = [k \in Keys |-> 0]
    /\ failures = 0 /\ evictions = 0

-----------------------------------------------------------------------------
(***************************************************************************)
(* Requests: cached_hubs_response.                                         *)
(***************************************************************************)

\* A hit keeps its copy of the payload; the age is looked at afterwards.
RequestHit(r, a, p) ==
    LET k == HubCacheKey(p, a) IN
    /\ pc[r] = "idle"
    /\ cache[k] # NoPayload
    /\ Goto(r, "hit")
    /\ job' = [job EXCEPT ![r] = [NewJob(a, p) EXCEPT !.payload = cache[k]]]
    /\ UNCHANGED <<storeVars, inflight, todo, eventVars, written, boundVars>>

\* A miss goes upstream itself: it neither claims the key nor is limited.
RequestMiss(r, a, p) ==
    /\ pc[r] = "idle"
    /\ cache[HubCacheKey(p, a)] = NoPayload
    /\ Goto(r, "sent")
    /\ job' = [job EXCEPT ![r] = NewJob(a, p)]
    /\ UNCHANGED <<storeVars, inflight, todo, eventVars, written, boundVars>>

ServeFresh(r) ==
    /\ pc[r] = "hit"
    /\ StaleTTL = 0 \/ ~IsStale(KeyOf(r))
    /\ Finish(r)
    /\ UNCHANGED <<storeVars, inflight, todo, eventVars, written, boundVars>>

\* spawn_hub_refresh with the request's own client (token) and path.
ServeStale(r, t) ==
    /\ pc[r] = "hit"
    /\ StaleTTL > 0 /\ IsStale(KeyOf(r))
    /\ pc[t] = "idle"
    /\ pc' = [pc EXCEPT ![r] = "idle", ![t] = "spawned"]
    /\ job' = [job EXCEPT ![r] = NoJob,
                          ![t] = NewJob(job[r].account, job[r].path)]
    /\ UNCHANGED <<storeVars, inflight, todo, eventVars, written, boundVars>>

\* The timeout hoop, or a client that hangs up, drops the handler's future.
CancelRequest(r) ==
    /\ pc[r] # "idle"
    /\ Finish(r)
    /\ UNCHANGED <<storeVars, inflight, todo, eventVars, written, boundVars>>

-----------------------------------------------------------------------------
(***************************************************************************)
(* Refresh tasks: spawn_hub_refresh.                                       *)
(***************************************************************************)

TaskCheckRate(t) ==
    /\ pc[t] = "spawned"
    /\ IF attemptAge[KeyOf(t)] < MinInterval
       THEN Finish(t)
       ELSE Goto(t, "checked") /\ UNCHANGED job
    /\ UNCHANGED <<storeVars, inflight, todo, eventVars, written, boundVars>>

\* The set's answer is not looked at: SingleFlight.
Fault_Claimed(k) == FALSE

Claimed(k) == k \in inflight

\* claim_refresh: test and insert under one lock.
TaskClaim(t) ==
    /\ pc[t] = "checked"
    /\ IF Claimed(KeyOf(t))
       THEN Finish(t) /\ UNCHANGED inflight
       ELSE /\ inflight' = inflight \cup {KeyOf(t)}
            /\ Goto(t, "claimed")
            /\ UNCHANGED job
    /\ UNCHANGED <<storeVars, todo, eventVars, written, boundVars>>

TaskStartFetch(t) ==
    /\ pc[t] = "claimed"
    /\ attemptAge' = [attemptAge EXCEPT ![KeyOf(t)] = 0]
    /\ Goto(t, "sent")
    /\ job' = [job EXCEPT ![t].mark = marks]
    /\ UNCHANGED <<cache, fetchedAge, inflight, todo, eventVars, written, boundVars>>

-----------------------------------------------------------------------------
(***************************************************************************)
(* The warmer: warm_cycle and warm_hubs_for_token.  The merged paths are   *)
(* warmed once with the first token, the rest with every token.            *)
(***************************************************************************)

MergedWork == {FirstToken} \X MergedPaths
AccountWork(a) == {a} \X (Paths \ MergedPaths)
WarmWork == MergedWork \cup UNION {AccountWork(a) : a \in WarmTokens}

WarmCycleStart ==
    /\ pc[Warmer] = "idle"
    /\ todo = {}
    /\ todo' = WarmWork
    /\ UNCHANGED <<storeVars, inflight, pc, job, eventVars, written, boundVars>>

\* warm_paths returns no paths when a token's sections cannot be listed.
WarmListFailed(work) ==
    /\ pc[Warmer] = "idle"
    /\ work # {} /\ work \subseteq todo
    /\ failures < MaxFailures
    /\ failures' = failures + 1
    /\ todo' = todo \ work
    /\ UNCHANGED <<storeVars, inflight, pc, job, eventVars, written, evictions>>

\* Only the refresh tasks respect claims: BackgroundWritesInOrder.
Fault_WarmSkipsNone(k) == FALSE

\* Paths that have a payload are taken for warm: WarmKeysHeal.
Fault_WarmSkipsPresent(k) == Claimed(k) \/ cache[k] # NoPayload

\* No age and no attempt is consulted, only the claim.
WarmSkips(k) == Claimed(k)

\* Claim the key or skip it; no attempt is recorded.
WarmNext(a, p) ==
    LET k == HubCacheKey(p, a) IN
    /\ pc[Warmer] = "idle"
    /\ <<a, p>> \in todo
    /\ todo' = todo \ {<<a, p>>}
    /\ IF WarmSkips(k)
       THEN UNCHANGED <<inflight, pc, job>>
       ELSE /\ inflight' = inflight \cup {k}
            /\ Goto(Warmer, "sent")
            /\ job' = [job EXCEPT ![Warmer] = NewJob(a, p)]
    /\ UNCHANGED <<storeVars, eventVars, written, boundVars>>

-----------------------------------------------------------------------------
(***************************************************************************)
(* A fetch, common to the three: fetch_hubs_payload, then the insert, then *)
(* track_fetched; background fetchers release their claim at the end.      *)
(***************************************************************************)

\* The client is built from the configured token, not the caller's:
\* ScopedResponsesOwnContent.
Fault_Answer(f) ==
    [owner |-> FirstToken, ver |-> upstream, seen |-> 0, mark |-> job[f].mark]

Answer(f) ==
    [owner |-> job[f].account, ver |-> upstream, seen |-> 0, mark |-> job[f].mark]

\* Upstream produces the answer; it may still be long on its way.
UpstreamRead(f) ==
    /\ pc[f] = "sent"
    /\ Goto(f, "read")
    /\ job' = [job EXCEPT ![f].payload = Answer(f)]
    /\ UNCHANGED <<storeVars, inflight, todo, eventVars, written, boundVars>>

\* The error path returns before the release: ClaimsEnd.
Fault_Leave(f) == Finish(f)

\* A request responds, a background fetcher goes on to its release.
Leave(f) ==
    IF f \in Background
    THEN Goto(f, "release") /\ UNCHANGED job
    ELSE Finish(f)

\* The old payload is given up with the failure: PayloadsSurvive.
Fault_FailureClears(f) ==
    /\ cache' = [cache EXCEPT ![KeyOf(f)] = NoPayload]
    /\ UNCHANGED <<fetchedAge, attemptAge>>

\* A failure is tracked like a success, to spare upstream: BoundedStaleness.
Fault_FailureTracks(f) ==
    /\ fetchedAge' = [fetchedAge EXCEPT ![KeyOf(f)] = 0]
    /\ UNCHANGED <<cache, attemptAge>>

\* A failure keeps the payload and its age.
FailureKeeps(f) == UNCHANGED storeVars

\* Transport error, timeout, non-200 or unparseable body.
FetchFail(f) ==
    /\ pc[f] \in {"sent", "read"}
    /\ failures < MaxFailures
    /\ failures' = failures + 1
    /\ FailureKeeps(f)
    /\ Leave(f)
    /\ UNCHANGED <<inflight, todo, eventVars, written, evictions>>

InsertPayload(f) ==
    /\ pc[f] = "read"
    /\ cache' = [cache EXCEPT ![KeyOf(f)] = job[f].payload]
    /\ Goto(f, "inserted")
    /\ written' = IF f \in Background
                  THEN [written EXCEPT ![KeyOf(f)] = job[f].payload.ver]
                  ELSE written
    /\ UNCHANGED <<fetchedAge, attemptAge, inflight, job, todo, eventVars, boundVars>>

\* track_fetched; a request then responds.
TrackFetched(f) ==
    /\ pc[f] = "inserted"
    /\ fetchedAge' = [fetchedAge EXCEPT ![KeyOf(f)] = 0]
    /\ Leave(f)
    /\ UNCHANGED <<cache, attemptAge, inflight, todo, eventVars, written, boundVars>>

Release(f) ==
    /\ pc[f] = "release"
    /\ inflight' = inflight \ {KeyOf(f)}
    /\ Finish(f)
    /\ UNCHANGED <<storeVars, todo, eventVars, written, boundVars>>

-----------------------------------------------------------------------------
(***************************************************************************)
(* Playback changes and what Replex hears of them.                         *)
(***************************************************************************)

MarkAllHubsStale ==
    /\ marks < MaxMarks
    /\ marks' = marks + 1
    /\ fetchedAge' = [k \in Keys |-> StaleTTL]

\* proxy_request marks first and proxies the event afterwards.
ProxyMark ==
    /\ ProxyEvents
    /\ upstream + proxied < MaxChanges
    /\ MarkAllHubsStale
    /\ proxied' = proxied + 1
    /\ UNCHANGED <<cache, attemptAge, inflight, pc, job, todo, upstream,
                   webhooks, observed, written, boundVars>>

Announce == IF Webhooks THEN webhooks + 1 ELSE webhooks

ProxyApply ==
    /\ proxied > 0
    /\ proxied' = proxied - 1
    /\ upstream' = upstream + 1
    /\ observed' = upstream + 1
    /\ webhooks' = Announce
    /\ UNCHANGED <<storeVars, inflight, pc, job, todo, marks, written, boundVars>>

\* The proxied event does not reach upstream, or upstream refuses it.
ProxyDrop ==
    /\ proxied > 0
    /\ proxied' = proxied - 1
    /\ UNCHANGED <<storeVars, inflight, pc, job, todo, upstream, webhooks,
                   observed, marks, written, boundVars>>

\* Playback through some other route to the same Plex server.
ExternalChange ==
    /\ upstream + proxied < MaxChanges
    /\ upstream' = upstream + 1
    /\ webhooks' = Announce
    /\ UNCHANGED <<storeVars, inflight, pc, job, todo, proxied, observed,
                   marks, written, boundVars>>

\* webhook_plex on a media.* event.
WebhookPlex ==
    /\ webhooks > 0
    /\ webhooks' = webhooks - 1
    /\ MarkAllHubsStale
    /\ observed' = upstream
    /\ UNCHANGED <<cache, attemptAge, inflight, pc, job, todo, upstream,
                   proxied, written, boundVars>>

LoseWebhook ==
    /\ webhooks > 0
    /\ webhooks' = webhooks - 1
    /\ UNCHANGED <<storeVars, inflight, pc, job, todo, upstream, proxied,
                   observed, marks, written, boundVars>>

-----------------------------------------------------------------------------
(***************************************************************************)
(* The payload cache and the clock.                                        *)
(***************************************************************************)

\* cache_ttl, the capacity limit or an admin purge; age records stay.
Evict(k) ==
    /\ cache[k] # NoPayload
    /\ evictions < MaxEvictions
    /\ evictions' = evictions + 1
    /\ cache' = [cache EXCEPT ![k] = NoPayload]
    /\ UNCHANGED <<fetchedAge, attemptAge, inflight, pc, job, todo, eventVars,
                   written, failures>>

\* Ages run past their cap: TypeOK.
Fault_Older(n, limit) == IF n <= limit THEN n + 1 ELSE limit

Older(n, limit) == IF n < limit THEN n + 1 ELSE limit

OlderPayload(p) ==
    IF p = NoPayload THEN p ELSE [p EXCEPT !.seen = Older(@, Horizon)]

(***************************************************************************)
(* The upstream client gives up on a response after FetchTimeout; nothing  *)
(* waits for the network between an insert and its age record.             *)
(***************************************************************************)
Tick ==
    /\ \A f \in Fetchers :
          /\ pc[f] # "inserted"
          /\ pc[f] = "read" => job[f].payload.seen < FetchTimeout
    /\ fetchedAge' = [k \in Keys |-> Older(fetchedAge[k], StaleTTL)]
    /\ attemptAge' = [k \in Keys |-> Older(attemptAge[k], MinInterval)]
    /\ cache' = [k \in Keys |-> OlderPayload(cache[k])]
    /\ job' = [f \in Fetchers |->
                  IF job[f] = NoJob THEN NoJob
                  ELSE [job[f] EXCEPT !.payload = OlderPayload(@)]]
    /\ UNCHANGED <<inflight, pc, todo, eventVars, written, boundVars>>

-----------------------------------------------------------------------------
RequestStep(r) ==
    \/ \E a \in Accounts, p \in Paths : RequestHit(r, a, p) \/ RequestMiss(r, a, p)
    \/ ServeFresh(r)
    \/ \E t \in Tasks : ServeStale(r, t)
    \/ CancelRequest(r)

FetchStep(f) ==
    \/ UpstreamRead(f)
    \/ FetchFail(f)
    \/ InsertPayload(f)
    \/ TrackFetched(f)

TaskStep(t) ==
    \/ TaskCheckRate(t)
    \/ TaskClaim(t)
    \/ TaskStartFetch(t)
    \/ FetchStep(t)
    \/ Release(t)

WarmerStep ==
    \/ WarmCycleStart
    \/ WarmListFailed(MergedWork)
    \/ \E a \in WarmTokens : WarmListFailed(AccountWork(a))
    \/ \E a \in Accounts, p \in Paths : WarmNext(a, p)
    \/ FetchStep(Warmer)
    \/ Release(Warmer)

EventStep ==
    \/ ProxyMark \/ ProxyApply \/ ProxyDrop
    \/ ExternalChange \/ WebhookPlex \/ LoseWebhook

Next ==
    \/ \E r \in Requests : RequestStep(r) \/ FetchStep(r)
    \/ \E t \in Tasks : TaskStep(t)
    \/ WarmerStep
    \/ EventStep
    \/ \E k \in Keys : Evict(k)
    \/ Tick

Spec == Init /\ [][Next]_vars

(***************************************************************************)
(* Spawned tasks are never cancelled, every upstream fetch ends (120 s     *)
(* client timeout), and the warmer loops forever.  Clients, playback and   *)
(* the clock owe nothing.                                                  *)
(***************************************************************************)
Fairness ==
    /\ \A t \in Tasks : WF_vars(TaskStep(t))
    /\ WF_vars(WarmerStep)

FairSpec == Spec /\ Fairness

-----------------------------------------------------------------------------
Places == {"idle", "hit", "spawned", "checked", "claimed",
           "sent", "read", "inserted", "release"}

\* The shape of the state: who can be where, and what a fetcher carries.
TypeOK ==
    /\ cache \in [Keys -> Payload \cup {NoPayload}]
    /\ fetchedAge \in [Keys -> 0..StaleTTL]
    /\ attemptAge \in [Keys -> 0..MinInterval]
    /\ inflight \subseteq Keys
    /\ pc \in [Fetchers -> Places]
    /\ job \in [Fetchers -> Job \cup {NoJob}]
    /\ todo \subseteq Accounts \X Paths
    /\ upstream \in Nat /\ proxied \in Nat /\ webhooks \in Nat
    /\ observed \in Nat /\ marks \in Nat
    /\ written \in [Keys -> Nat]
    /\ failures \in Nat /\ evictions \in Nat
    /\ \A f \in Fetchers :
          /\ pc[f] # "idle" => job[f] \in Job
          /\ pc[f] \in {"hit", "read", "inserted"} => job[f].payload \in Payload
    /\ \A r \in Requests : pc[r] \in {"idle", "hit", "sent", "read", "inserted"}
    /\ \A t \in Tasks : pc[t] # "hit"
    /\ pc[Warmer] \in {"idle", "sent", "read", "inserted", "release"}

\* A background fetcher holds its key from the claim to the release.
Holds(f, k) ==
    /\ f \in Background
    /\ pc[f] \in {"claimed", "sent", "read", "inserted", "release"}
    /\ KeyOf(f) = k

(***************************************************************************)
(* Single flight: at any time at most one background fetch works on a key, *)
(* and a key is in REFRESH_INFLIGHT exactly while one does.  A claim that  *)
(* outlived its fetch would disable refreshing of that key for good.       *)
(***************************************************************************)
SingleFlight ==
    /\ \A f, g \in Background, k \in Keys : Holds(f, k) /\ Holds(g, k) => f = g
    /\ \A k \in Keys : k \in inflight <=> \E f \in Background : Holds(f, k)

(***************************************************************************)
(* The background fetches of a key write in upstream order, however slow   *)
(* their answers are: a later write never shows older content.  It rests   *)
(* on holding the claim across read and insert.                            *)
(***************************************************************************)
BackgroundWritesInOrder ==
    [][\A k \in Keys : written'[k] >= written[k]]_vars

\* Where the one refresh of a key stands, told from its holder.
Phase(k) ==
    IF k \notin inflight THEN "idle"
    ELSE IF \E f \in Background : Holds(f, k) /\ pc[f] \in {"inserted", "release"}
         THEN "done" ELSE "running"

Serial == INSTANCE SerialRefresh WITH phase <- [k \in Keys |-> Phase(k)]

(***************************************************************************)
(* Refresh tasks and warmer together implement one serial refresher per    *)
(* key: requests, evictions and stale marks cannot make two overlap, write *)
(* twice or write out of order.                                            *)
(***************************************************************************)
RefreshIsSerial == Serial!SerialSpec

(***************************************************************************)
(* A response for a path outside the merged ones shows content fetched     *)
(* with the requester's own token, whoever filled the cache (request,      *)
(* refresh task or warmer).                                                *)
(***************************************************************************)
ScopedResponsesOwnContent ==
    \A r \in Requests :
        pc[r] \in {"hit", "inserted"} /\ job[r].path \notin MergedPaths
            => job[r].payload.owner = job[r].account

(***************************************************************************)
(* An age record never flatters: a payload counted as k ticks old was      *)
(* produced at most k + FetchTimeout ticks ago, so a response served       *)
(* without a refresh is never older than hub_stale_ttl plus one fetch.     *)
(***************************************************************************)
BoundedStaleness ==
    \A k \in Keys :
        cache[k] # NoPayload /\ ~IsStale(k)
            => cache[k].seen <= fetchedAge[k] + FetchTimeout

(***************************************************************************)
(* A failed fetch or a stale mark never costs a payload: entries go only   *)
(* by expiry, capacity or purge ("stale data beats no data").              *)
(***************************************************************************)
PayloadsSurvive ==
    [][evictions' = evictions =>
          \A k \in Keys : cache[k] # NoPayload => cache'[k] # NoPayload]_vars

(***************************************************************************)
(* Every claim is given up again, so a key can always be refreshed later.  *)
(***************************************************************************)
ClaimsEnd == \A k \in Keys : k \in inflight ~> k \notin inflight

WarmKeys == {HubCacheKey(w[2], w[1]) : w \in WarmWork}

(***************************************************************************)
(* Once playback is quiet, upstream answers and nothing is evicted, the    *)
(* warmed keys come to hold, and keep, the current content, even when a    *)
(* slow fetch overwrote it or a stale mark was lost on the way.            *)
(***************************************************************************)
WarmKeysHeal ==
    <>[](\A k \in WarmKeys : cache[k] # NoPayload /\ cache[k].ver = upstream)

-----------------------------------------------------------------------------
(***************************************************************************)
(* Claims of the documentation that the code does not keep.                *)
(***************************************************************************)

\* "mark every hub entry stale" (hub_cache.rs:12): a payload requested
\* before the last mark, and without a change Replex was told of, is not
\* taken for fresh.
MarkedPayloadsStayStale ==
    \A k \in Keys :
        cache[k] # NoPayload /\ ~IsStale(k) /\ cache[k].mark < marks
            => cache[k].ver >= observed
=============================================================================
