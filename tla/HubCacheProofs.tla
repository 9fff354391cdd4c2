--------------------------- MODULE HubCacheProofs ---------------------------
(***************************************************************************)
(* Proofs about HubCache, for every set of accounts, paths, requests and   *)
(* tasks and every value of the times.  The assumptions are those HubCache *)
(* states about its constants.                                             *)
(***************************************************************************)
EXTENDS HubCache, TLAPS

\* The key of a path and an account is one of the keys.
LEMMA KeyInKeys ==
    ASSUME NEW p \in Paths, NEW a \in Accounts
    PROVE  HubCacheKey(p, a) \in Keys
BY DEF Keys

LEMMA KeyOfInKeys ==
    ASSUME TypeOK, NEW f \in Fetchers, pc[f] # "idle"
    PROVE  KeyOf(f) \in Keys
<1>1. job[f] \in Job
    BY DEF TypeOK
<1>2. job[f].path \in Paths /\ job[f].account \in Accounts
    BY <1>1 DEF Job
<1> QED
    BY <1>2, KeyInKeys DEF KeyOf

LEMMA OlderType ==
    ASSUME NEW limit \in Nat, NEW n \in 0..limit
    PROVE  Older(n, limit) \in 0..limit
BY DEF Older

LEMMA OlderPayloadType ==
    ASSUME NEW p \in Payload \cup {NoPayload}
    PROVE  /\ OlderPayload(p) \in Payload \cup {NoPayload}
           /\ p \in Payload => OlderPayload(p) \in Payload
<1>1. Horizon \in Nat
    BY TimeAssumption DEF Horizon
<1>2. CASE p = NoPayload
    BY <1>2, NullAssumption DEF OlderPayload
<1>3. CASE p \in Payload
    <2>1. p.seen \in 0..Horizon
        BY <1>3 DEF Payload
    <2>2. Older(p.seen, Horizon) \in 0..Horizon
        BY <1>1, <2>1, OlderType
    <2> QED
        BY <1>3, <2>2, NullAssumption DEF OlderPayload, Payload
<1> QED
    BY <1>2, <1>3

LEMMA NewJobType ==
    ASSUME TypeOK, NEW a \in Accounts, NEW p \in Paths
    PROVE  NewJob(a, p) \in Job
BY DEF TypeOK, NewJob, Job

-----------------------------------------------------------------------------
(***************************************************************************)
(* Type correctness.                                                       *)
(***************************************************************************)

LEMMA InitType == Init => TypeOK
BY TimeAssumption DEF Init, TypeOK, Places, Fetchers, Background

LEMMA RequestStepType ==
    ASSUME TypeOK, NEW r \in Requests, RequestStep(r)
    PROVE  TypeOK'
<1> r \in Fetchers /\ r \notin Tasks /\ r # Warmer
    BY ActorAssumption DEF Fetchers, Background
<1>1. ASSUME NEW a \in Accounts, NEW p \in Paths, RequestHit(r, a, p)
      PROVE  TypeOK'
    <2>1. cache[HubCacheKey(p, a)] \in Payload
        BY <1>1, KeyInKeys DEF TypeOK, RequestHit
    <2>2. NewJob(a, p) \in Job
        BY NewJobType
    <2>3. [NewJob(a, p) EXCEPT !.payload = cache[HubCacheKey(p, a)]] \in Job
        BY <2>1, <2>2 DEF Job
    <2>4. [NewJob(a, p) EXCEPT !.payload = cache[HubCacheKey(p, a)]].payload \in Payload
        BY <2>1 DEF NewJob
    <2> QED
        BY <1>1, <2>3, <2>4 DEF TypeOK, RequestHit, Goto, Places, storeVars, eventVars, boundVars
<1>2. ASSUME NEW a \in Accounts, NEW p \in Paths, RequestMiss(r, a, p)
      PROVE  TypeOK'
    BY <1>2, NewJobType DEF TypeOK, RequestMiss, Goto, Places, storeVars, eventVars, boundVars
<1>3. CASE ServeFresh(r)
    BY <1>3 DEF TypeOK, ServeFresh, Finish, Goto, Places, storeVars, eventVars, boundVars
<1>4. ASSUME NEW t \in Tasks, ServeStale(r, t)
      PROVE  TypeOK'
    <2>1. job[r] \in Job /\ t \in Fetchers /\ t # r /\ t # Warmer
        BY <1>4, ActorAssumption DEF TypeOK, ServeStale, Fetchers, Background
    <2>2. NewJob(job[r].account, job[r].path) \in Job
        BY <2>1, NewJobType DEF Job
    <2>3. /\ pc' \in [Fetchers -> Places]
          /\ job' \in [Fetchers -> Job \cup {NoJob}]
        BY <1>4, <2>2 DEF TypeOK, ServeStale, Places
    <2>4. /\ pc'[r] = "idle" /\ pc'[t] = "spawned" /\ job'[t] \in Job
          /\ \A f \in Fetchers \ {r, t} : pc'[f] = pc[f] /\ job'[f] = job[f]
        BY <1>4, <2>1, <2>2 DEF TypeOK, ServeStale
    <2>5. Requests \cap Tasks = {} /\ Warmer \notin {r, t}
          /\ Requests \subseteq Fetchers /\ Tasks \subseteq Fetchers /\ Warmer \in Fetchers
        BY <2>1, ActorAssumption DEF Fetchers, Background
    <2>6. UNCHANGED <<storeVars, inflight, todo, eventVars, written, boundVars>>
        BY <1>4 DEF ServeStale
    <2> QED
        BY <2>3, <2>4, <2>5, <2>6 DEF TypeOK, storeVars, eventVars, boundVars
<1>5. CASE CancelRequest(r)
    BY <1>5 DEF TypeOK, CancelRequest, Finish, Goto, Places, storeVars, eventVars, boundVars
<1> QED
    BY <1>1, <1>2, <1>3, <1>4, <1>5 DEF RequestStep

LEMMA FetchStepType ==
    ASSUME TypeOK, NEW f \in Fetchers, FetchStep(f)
    PROVE  TypeOK'
<1>1. job[f] \in Job /\ pc[f] # "idle" /\ KeyOf(f) \in Keys
    BY KeyOfInKeys DEF TypeOK, FetchStep, UpstreamRead, FetchFail, InsertPayload, TrackFetched
<1>2. CASE UpstreamRead(f)
    <2>1. Answer(f) \in Payload
        BY <1>1, TimeAssumption DEF Answer, Payload, Job, TypeOK, Horizon
    <2>2. [job[f] EXCEPT !.payload = Answer(f)] \in Job
        BY <1>1, <2>1 DEF Job
    <2>3. [job[f] EXCEPT !.payload = Answer(f)].payload \in Payload
        BY <1>1, <2>1 DEF Job
    <2> QED
        BY <1>2, <2>2, <2>3 DEF TypeOK, UpstreamRead, Goto, Places, storeVars, eventVars, boundVars
<1>3. CASE FetchFail(f)
    BY <1>3, ActorAssumption
    DEF TypeOK, FetchFail, FailureKeeps, Leave, Finish, Goto, Places, Background, Fetchers,
        storeVars, eventVars
<1>4. CASE InsertPayload(f)
    BY <1>1, <1>4, ActorAssumption
    DEF TypeOK, InsertPayload, Goto, Places, Payload, eventVars, boundVars
<1>5. CASE TrackFetched(f)
    BY <1>1, <1>5, ActorAssumption, TimeAssumption
    DEF TypeOK, TrackFetched, Leave, Finish, Goto, Places, Background, Fetchers, eventVars, boundVars
<1> QED
    BY <1>2, <1>3, <1>4, <1>5 DEF FetchStep

LEMMA TaskStepType ==
    ASSUME TypeOK, NEW t \in Tasks, TaskStep(t)
    PROVE  TypeOK'
<1> t \in Fetchers /\ t \notin Requests /\ t # Warmer
    BY ActorAssumption DEF Fetchers, Background
<1>1. CASE TaskCheckRate(t)
    <2>1. CASE Finish(t)
        BY <1>1, <2>1 DEF TypeOK, TaskCheckRate, Finish, Goto, Places, storeVars, eventVars, boundVars
    <2>2. CASE Goto(t, "checked") /\ UNCHANGED job
        BY <1>1, <2>2 DEF TypeOK, TaskCheckRate, Goto, Places, storeVars, eventVars, boundVars
    <2> QED
        BY <1>1, <2>1, <2>2 DEF TaskCheckRate
<1>2. CASE TaskClaim(t)
    <2>1. CASE Finish(t) /\ UNCHANGED inflight
        BY <1>2, <2>1 DEF TypeOK, TaskClaim, Finish, Goto, Places, storeVars, eventVars, boundVars
    <2>2. CASE Goto(t, "claimed") /\ UNCHANGED job /\ inflight' = inflight \cup {KeyOf(t)}
        <3>1. KeyOf(t) \in Keys
            BY <1>2, KeyOfInKeys DEF TaskClaim
        <3> QED
            BY <1>2, <2>2, <3>1 DEF TypeOK, TaskClaim, Goto, Places, storeVars, eventVars, boundVars
    <2> QED
        BY <1>2, <2>1, <2>2 DEF TaskClaim
<1>3. CASE TaskStartFetch(t)
    <2>1. job[t] \in Job /\ KeyOf(t) \in Keys
        BY <1>3, KeyOfInKeys DEF TypeOK, TaskStartFetch
    <2>2. [job[t] EXCEPT !.mark = marks] \in Job
        BY <2>1 DEF Job, TypeOK
    <2> QED
        BY <1>3, <2>1, <2>2, TimeAssumption
        DEF TypeOK, TaskStartFetch, Goto, Places, eventVars, boundVars
<1>4. CASE FetchStep(t)
    BY <1>4, FetchStepType
<1>5. CASE Release(t)
    BY <1>5 DEF TypeOK, Release, Finish, Goto, Places, storeVars, eventVars, boundVars
<1> QED
    BY <1>1, <1>2, <1>3, <1>4, <1>5 DEF TaskStep

LEMMA WarmerStepType ==
    ASSUME TypeOK, WarmerStep
    PROVE  TypeOK'
<1> Warmer \in Fetchers /\ Warmer \notin Requests /\ Warmer \notin Tasks
    BY ActorAssumption DEF Fetchers, Background
<1>1. CASE WarmCycleStart
    <2>1. WarmWork \subseteq Accounts \X Paths
        BY WarmAssumption, MergedAssumption DEF WarmWork, MergedWork, AccountWork
    <2> QED
        BY <1>1, <2>1 DEF TypeOK, WarmCycleStart, storeVars, eventVars, boundVars
<1>2. ASSUME NEW work, WarmListFailed(work)
      PROVE  TypeOK'
    BY <1>2 DEF TypeOK, WarmListFailed, storeVars, eventVars
<1>3. ASSUME NEW a \in Accounts, NEW p \in Paths, WarmNext(a, p)
      PROVE  TypeOK'
    <2>1. HubCacheKey(p, a) \in Keys /\ NewJob(a, p) \in Job
        BY KeyInKeys, NewJobType
    <2>2. CASE UNCHANGED <<inflight, pc, job>>
        BY <1>3, <2>2 DEF TypeOK, WarmNext, storeVars, eventVars, boundVars
    <2>3. CASE /\ inflight' = inflight \cup {HubCacheKey(p, a)}
               /\ Goto(Warmer, "sent")
               /\ job' = [job EXCEPT ![Warmer] = NewJob(a, p)]
        BY <1>3, <2>1, <2>3 DEF TypeOK, WarmNext, Goto, Places, storeVars, eventVars, boundVars
    <2> QED
        BY <1>3, <2>2, <2>3 DEF WarmNext
<1>4. CASE FetchStep(Warmer)
    BY <1>4, FetchStepType
<1>5. CASE Release(Warmer)
    BY <1>5 DEF TypeOK, Release, Finish, Goto, Places, storeVars, eventVars, boundVars
<1> QED
    BY <1>1, <1>2, <1>3, <1>4, <1>5 DEF WarmerStep

LEMMA EventStepType ==
    ASSUME TypeOK, EventStep
    PROVE  TypeOK'
<1> USE DEF TypeOK, storeVars, boundVars, Announce
<1>1. CASE ProxyMark
    BY <1>1, TimeAssumption DEF ProxyMark, MarkAllHubsStale
<1>2. CASE ProxyApply
    BY <1>2 DEF ProxyApply
<1>3. CASE ProxyDrop
    BY <1>3 DEF ProxyDrop
<1>4. CASE ExternalChange
    BY <1>4 DEF ExternalChange
<1>5. CASE WebhookPlex
    BY <1>5, TimeAssumption DEF WebhookPlex, MarkAllHubsStale
<1>6. CASE LoseWebhook
    BY <1>6 DEF LoseWebhook
<1> QED
    BY <1>1, <1>2, <1>3, <1>4, <1>5, <1>6 DEF EventStep

LEMMA EvictType ==
    ASSUME TypeOK, NEW k \in Keys, Evict(k)
    PROVE  TypeOK'
BY DEF TypeOK, Evict, eventVars

\* What the clock does to a job: nothing but the age of its payload.
LEMMA TickJob ==
    ASSUME TypeOK, Tick, NEW f \in Fetchers, job[f] \in Job
    PROVE  /\ job'[f] \in Job
           /\ job'[f].account = job[f].account
           /\ job'[f].path = job[f].path
           /\ job'[f].mark = job[f].mark
           /\ job'[f].payload = OlderPayload(job[f].payload)
<1>1. job'[f] = [job[f] EXCEPT !.payload = OlderPayload(@)]
    BY NullAssumption DEF Tick
<1>2. job[f].payload \in Payload \cup {NoPayload}
    BY DEF Job
<1>3. OlderPayload(job[f].payload) \in Payload \cup {NoPayload}
    BY <1>2, OlderPayloadType
<1> QED
    BY <1>1, <1>3 DEF Job

LEMMA TickType ==
    ASSUME TypeOK, Tick
    PROVE  TypeOK'
<1>1. cache' \in [Keys -> Payload \cup {NoPayload}]
    BY OlderPayloadType DEF Tick, TypeOK
<1>2. fetchedAge' \in [Keys -> 0..StaleTTL] /\ attemptAge' \in [Keys -> 0..MinInterval]
    BY OlderType, TimeAssumption DEF Tick, TypeOK
<1>3. job' \in [Fetchers -> Job \cup {NoJob}]
    <2>1. ASSUME NEW f \in Fetchers
          PROVE  job'[f] \in Job \cup {NoJob}
        <3>1. CASE job[f] = NoJob
            BY <3>1 DEF Tick
        <3>2. CASE job[f] \in Job
            BY <3>2, TickJob
        <3> QED
            BY <3>1, <3>2 DEF TypeOK
    <2> QED
        BY <2>1 DEF Tick
<1>4. ASSUME NEW f \in Fetchers
      PROVE  /\ pc'[f] # "idle" => job'[f] \in Job
             /\ pc'[f] \in {"hit", "read", "inserted"} => job'[f].payload \in Payload
    <2>1. pc'[f] = pc[f]
        BY DEF Tick
    <2>2. pc[f] # "idle" => job'[f] \in Job
        BY TickJob DEF TypeOK
    <2>3. ASSUME pc[f] \in {"hit", "read", "inserted"}
          PROVE  job'[f].payload \in Payload
        BY <2>3, TickJob, OlderPayloadType DEF TypeOK
    <2> QED
        BY <2>1, <2>2, <2>3
<1> QED
    BY <1>1, <1>2, <1>3, <1>4 DEF Tick, TypeOK, eventVars, boundVars

LEMMA NextType == TypeOK /\ [Next]_vars => TypeOK'
<1> SUFFICES ASSUME TypeOK, [Next]_vars
             PROVE  TypeOK'
    OBVIOUS
<1>1. ASSUME NEW r \in Requests, RequestStep(r) \/ FetchStep(r)
      PROVE  TypeOK'
    BY <1>1, RequestStepType, FetchStepType DEF Fetchers
<1>2. ASSUME NEW t \in Tasks, TaskStep(t)
      PROVE  TypeOK'
    BY <1>2, TaskStepType
<1>3. CASE WarmerStep
    BY <1>3, WarmerStepType
<1>4. CASE EventStep
    BY <1>4, EventStepType
<1>5. ASSUME NEW k \in Keys, Evict(k)
      PROVE  TypeOK'
    BY <1>5, EvictType
<1>6. CASE Tick
    BY <1>6, TickType
<1>7. CASE UNCHANGED vars
    BY <1>7 DEF TypeOK, vars
<1> QED
    BY <1>1, <1>2, <1>3, <1>4, <1>5, <1>6, <1>7 DEF Next

(***************************************************************************)
(* Every reachable state is well formed: who can stand where, what a       *)
(* fetcher carries, and ages within their caps.                            *)
(***************************************************************************)
THEOREM TypeCorrect == Spec => []TypeOK
BY InitType, NextType, PTL DEF Spec
-----------------------------------------------------------------------------
(***************************************************************************)
(* Single flight.  Every step is of one of four kinds for the background   *)
(* fetchers: it leaves claims and progress alone, or one fetcher claims,   *)
(* or ends its fetch, or releases.                                         *)
(***************************************************************************)
HeldPlaces == {"claimed", "sent", "read", "inserted", "release"}
DonePlaces == {"inserted", "release"}

Held(f) == pc[f] \in HeldPlaces
Done(f) == pc[f] \in DonePlaces

Steady(f) ==
    /\ Held(f)' <=> Held(f)
    /\ Done(f)' <=> Done(f)
    /\ Held(f) => KeyOf(f)' = KeyOf(f)

OthersSteady(f) == \A g \in Background \ {f} : Steady(g)

Quiet ==
    /\ \A g \in Background : Steady(g)
    /\ UNCHANGED <<inflight, written>>
    /\ upstream' \in {upstream, upstream + 1}

Claims(f, k) ==
    /\ ~Held(f) /\ Held(f)' /\ ~Done(f)' /\ KeyOf(f)' = k
    /\ k \notin inflight /\ inflight' = inflight \cup {k}
    /\ UNCHANGED <<written, upstream>>
    /\ OthersSteady(f)

Ends(f) ==
    /\ Held(f) /\ ~Done(f) /\ Held(f)' /\ Done(f)'
    /\ KeyOf(f)' = KeyOf(f)
    /\ UNCHANGED <<inflight, upstream>>
    /\ \/ UNCHANGED written
       \/ /\ pc[f] = "read"
          /\ written' = [written EXCEPT ![KeyOf(f)] = job[f].payload.ver]
    /\ OthersSteady(f)

Releases(f) ==
    /\ Held(f) /\ Done(f) /\ ~Held(f)' /\ ~Done(f)'
    /\ inflight' = inflight \ {KeyOf(f)}
    /\ UNCHANGED <<written, upstream>>
    /\ OthersSteady(f)

StepKind ==
    \/ Quiet
    \/ \E f \in Background, k \in Keys : Claims(f, k)
    \/ \E f \in Background : Ends(f) \/ Releases(f)

\* A fetcher that neither moves nor changes its job is steady.
LEMMA SteadyFrame ==
    ASSUME NEW g, pc'[g] = pc[g], job'[g] = job[g]
    PROVE  Steady(g)
BY DEF Steady, Held, Done, KeyOf

\* A step that moves at most the fetcher f leaves the others steady.
LEMMA OthersFrame ==
    ASSUME NEW f, \A g \in Fetchers \ {f} : pc'[g] = pc[g] /\ job'[g] = job[g]
    PROVE  OthersSteady(f)
BY SteadyFrame DEF OthersSteady, Fetchers

LEMMA RequestKind ==
    ASSUME TypeOK, NEW r \in Requests, RequestStep(r) \/ FetchStep(r)
    PROVE  Quiet
<1> r \in Fetchers /\ r \notin Background
    BY ActorAssumption DEF Fetchers, Background
<1>1. /\ UNCHANGED <<inflight, written, upstream>>
    BY DEF RequestStep, RequestHit, RequestMiss, ServeFresh, ServeStale, CancelRequest,
           FetchStep, UpstreamRead, FetchFail, InsertPayload, TrackFetched, eventVars
<1>2. ASSUME NEW g \in Background
      PROVE  Steady(g)
    <2> g \in Fetchers /\ g # r
        BY DEF Fetchers
    <2>1. CASE pc'[g] = pc[g] /\ job'[g] = job[g]
        BY <2>1, SteadyFrame
    <2>2. ASSUME NEW t \in Tasks, ServeStale(r, t)
          PROVE  Steady(g)
        <3>1. CASE g = t
            BY <2>2, <3>1 DEF ServeStale, Steady, Held, Done, HeldPlaces, DonePlaces, TypeOK
        <3>2. CASE g # t
            BY <2>2, <3>2, SteadyFrame DEF ServeStale, TypeOK
        <3> QED
            BY <3>1, <3>2
    <2>3. CASE RequestStep(r) /\ ~ \E t \in Tasks : ServeStale(r, t)
        <3>1. pc'[g] = pc[g] /\ job'[g] = job[g]
            BY <2>3 DEF RequestStep, RequestHit, RequestMiss, ServeFresh, CancelRequest,
                        Finish, Goto, TypeOK
        <3> QED
            BY <3>1, <2>1
    <2>4. CASE FetchStep(r)
        <3>1. pc'[g] = pc[g] /\ job'[g] = job[g]
            BY <2>4 DEF FetchStep, UpstreamRead, FetchFail, InsertPayload, TrackFetched,
                        Leave, Finish, Goto, TypeOK
        <3> QED
            BY <3>1, <2>1
    <2> QED
        BY <2>2, <2>3, <2>4
<1> QED
    BY <1>1, <1>2 DEF Quiet

LEMMA FetchKind ==
    ASSUME TypeOK, NEW f \in Background, FetchStep(f)
    PROVE  Quiet \/ Ends(f)
<1> f \in Fetchers /\ f \notin Requests
    BY ActorAssumption DEF Fetchers, Background
<1>1. job[f] \in Job
    BY DEF TypeOK, FetchStep, UpstreamRead, FetchFail, InsertPayload, TrackFetched
<1>2. \A g \in Fetchers \ {f} : pc'[g] = pc[g] /\ job'[g] = job[g]
    BY DEF FetchStep, UpstreamRead, FetchFail, InsertPayload, TrackFetched, Leave, Finish, Goto, TypeOK
<1>3. OthersSteady(f)
    BY <1>2, OthersFrame
<1>4. CASE UpstreamRead(f)
    <2>1. Steady(f)
        BY <1>1, <1>4 DEF UpstreamRead, Goto, Steady, Held, Done, HeldPlaces, DonePlaces, KeyOf, TypeOK, Job
    <2> QED
        BY <1>3, <1>4, <2>1 DEF UpstreamRead, Quiet, OthersSteady, eventVars
<1>5. CASE FetchFail(f)
    BY <1>3, <1>5 DEF FetchFail, Leave, Goto, Ends, Held, Done, HeldPlaces, DonePlaces, KeyOf, TypeOK, eventVars
<1>6. CASE InsertPayload(f)
    BY <1>3, <1>6 DEF InsertPayload, Goto, Ends, Held, Done, HeldPlaces, DonePlaces, KeyOf, TypeOK, eventVars
<1>7. CASE TrackFetched(f)
    <2>1. Steady(f)
        BY <1>7 DEF TrackFetched, Leave, Goto, Steady, Held, Done, HeldPlaces, DonePlaces, KeyOf, TypeOK
    <2> QED
        BY <1>3, <1>7, <2>1 DEF TrackFetched, Quiet, OthersSteady, eventVars
<1> QED
    BY <1>4, <1>5, <1>6, <1>7 DEF FetchStep

LEMMA ReleaseKind ==
    ASSUME TypeOK, NEW f \in Background, Release(f)
    PROVE  Releases(f)
<1> f \in Fetchers
    BY DEF Fetchers
<1>1. \A g \in Fetchers \ {f} : pc'[g] = pc[g] /\ job'[g] = job[g]
    BY DEF Release, Finish, Goto, TypeOK
<1>2. OthersSteady(f)
    BY <1>1, OthersFrame
<1> QED
    BY <1>2 DEF Release, Finish, Goto, Releases, Held, Done, HeldPlaces, DonePlaces, TypeOK, eventVars

LEMMA TaskKind ==
    ASSUME TypeOK, NEW t \in Tasks, TaskStep(t)
    PROVE  Quiet \/ Ends(t) \/ Releases(t) \/ \E k \in Keys : Claims(t, k)
<1> t \in Fetchers /\ t \in Background
    BY DEF Fetchers, Background
<1>1. ASSUME TaskCheckRate(t) \/ TaskClaim(t) \/ TaskStartFetch(t)
      PROVE  /\ \A g \in Fetchers \ {t} : pc'[g] = pc[g] /\ job'[g] = job[g]
             /\ OthersSteady(t)
             /\ UNCHANGED <<written, upstream>>
    <2>1. \A g \in Fetchers \ {t} : pc'[g] = pc[g] /\ job'[g] = job[g]
        BY <1>1 DEF TaskCheckRate, TaskClaim, TaskStartFetch, Finish, Goto, TypeOK
    <2>2. UNCHANGED <<written, upstream>>
        BY <1>1 DEF TaskCheckRate, TaskClaim, TaskStartFetch, eventVars
    <2> QED
        BY <2>1, <2>2, OthersFrame
<1>2. CASE TaskCheckRate(t)
    <2>1. Steady(t)
        BY <1>2 DEF TaskCheckRate, Finish, Goto, Steady, Held, Done, HeldPlaces, DonePlaces, TypeOK
    <2> QED
        BY <1>1, <1>2, <2>1 DEF TaskCheckRate, Quiet, OthersSteady
<1>3. CASE TaskClaim(t) /\ Claimed(KeyOf(t))
    <2>1. Steady(t)
        BY <1>3 DEF TaskClaim, Finish, Goto, Steady, Held, Done, HeldPlaces, DonePlaces, TypeOK
    <2> QED
        BY <1>1, <1>3, <2>1 DEF TaskClaim, Quiet, OthersSteady
<1>4. CASE TaskClaim(t) /\ ~Claimed(KeyOf(t))
    <2>1. KeyOf(t) \in Keys
        BY <1>4, KeyOfInKeys DEF TaskClaim
    <2>2. KeyOf(t)' = KeyOf(t)
        BY <1>4 DEF TaskClaim, KeyOf
    <2>3. ~Held(t) /\ Held(t)' /\ ~Done(t)'
        BY <1>4 DEF TaskClaim, Goto, Held, Done, HeldPlaces, DonePlaces, TypeOK
    <2>4. KeyOf(t) \notin inflight /\ inflight' = inflight \cup {KeyOf(t)}
        BY <1>4 DEF TaskClaim, Claimed
    <2>5. Claims(t, KeyOf(t))
        BY <1>1, <1>4, <2>2, <2>3, <2>4 DEF Claims
    <2> QED
        BY <2>1, <2>5
<1>5. CASE TaskStartFetch(t)
    <2>1. job[t] \in Job
        BY <1>5 DEF TaskStartFetch, TypeOK
    <2>2. Steady(t)
        BY <1>5, <2>1 DEF TaskStartFetch, Goto, Steady, Held, Done, HeldPlaces, DonePlaces, KeyOf, TypeOK, Job
    <2> QED
        BY <1>1, <1>5, <2>2 DEF TaskStartFetch, Quiet, OthersSteady
<1>6. CASE FetchStep(t)
    BY <1>6, FetchKind
<1>7. CASE Release(t)
    BY <1>7, ReleaseKind
<1> QED
    BY <1>2, <1>3, <1>4, <1>5, <1>6, <1>7 DEF TaskStep

LEMMA WarmerKind ==
    ASSUME TypeOK, WarmerStep
    PROVE  Quiet \/ Ends(Warmer) \/ Releases(Warmer) \/ \E k \in Keys : Claims(Warmer, k)
<1> Warmer \in Fetchers /\ Warmer \in Background
    BY DEF Fetchers, Background
<1>1. CASE UNCHANGED <<pc, job, inflight, written, upstream>>
    BY <1>1, SteadyFrame DEF Quiet
<1>2. ASSUME WarmCycleStart \/ \E work : WarmListFailed(work)
      PROVE  UNCHANGED <<pc, job, inflight, written, upstream>>
    BY <1>2 DEF WarmCycleStart, WarmListFailed, eventVars
<1>3. ASSUME NEW a \in Accounts, NEW p \in Paths, WarmNext(a, p), WarmSkips(HubCacheKey(p, a))
      PROVE  UNCHANGED <<pc, job, inflight, written, upstream>>
    BY <1>3 DEF WarmNext, eventVars
<1>4. ASSUME NEW a \in Accounts, NEW p \in Paths, WarmNext(a, p), ~WarmSkips(HubCacheKey(p, a))
      PROVE  \E k \in Keys : Claims(Warmer, k)
    <2> DEFINE k == HubCacheKey(p, a)
    <2>1. k \in Keys
        BY KeyInKeys
    <2>2. \A g \in Fetchers \ {Warmer} : pc'[g] = pc[g] /\ job'[g] = job[g]
        BY <1>4 DEF WarmNext, Goto, TypeOK
    <2>3. OthersSteady(Warmer)
        BY <2>2, OthersFrame
    <2>4. /\ ~Held(Warmer) /\ Held(Warmer)' /\ ~Done(Warmer)'
          /\ k \notin inflight /\ inflight' = inflight \cup {k}
          /\ UNCHANGED <<written, upstream>>
        BY <1>4 DEF WarmNext, WarmSkips, Claimed, Goto, Held, Done, HeldPlaces, DonePlaces, TypeOK, eventVars
    <2>5. job'[Warmer] = NewJob(a, p)
        BY <1>4 DEF WarmNext, TypeOK
    <2>6. KeyOf(Warmer)' = k
        BY <2>5 DEF KeyOf, NewJob
    <2>7. Claims(Warmer, k)
        BY <2>3, <2>4, <2>6 DEF Claims
    <2> QED
        BY <2>1, <2>7
<1>5. CASE FetchStep(Warmer)
    BY <1>5, FetchKind
<1>6. CASE Release(Warmer)
    BY <1>6, ReleaseKind
<1> QED
    BY <1>1, <1>2, <1>3, <1>4, <1>5, <1>6 DEF WarmerStep

LEMMA TickKind ==
    ASSUME TypeOK, Tick
    PROVE  Quiet
<1>1. ASSUME NEW g \in Background
      PROVE  Steady(g)
    <2> g \in Fetchers
        BY DEF Fetchers
    <2>1. CASE job[g] = NoJob
        BY <2>1, SteadyFrame DEF Tick
    <2>2. CASE job[g] \in Job
        BY <2>2, TickJob DEF Tick, Steady, Held, Done, KeyOf
    <2> QED
        BY <2>1, <2>2 DEF TypeOK
<1> QED
    BY <1>1 DEF Tick, Quiet, eventVars

LEMMA NextKind ==
    ASSUME TypeOK, [Next]_vars
    PROVE  StepKind
<1>1. CASE UNCHANGED <<pc, job, inflight, written>> /\ upstream' \in {upstream, upstream + 1}
    BY <1>1, SteadyFrame DEF Quiet, StepKind
<1>2. ASSUME NEW r \in Requests, RequestStep(r) \/ FetchStep(r)
      PROVE  StepKind
    BY <1>2, RequestKind DEF StepKind
<1>3. ASSUME NEW t \in Tasks, TaskStep(t)
      PROVE  StepKind
    BY <1>3, TaskKind DEF StepKind, Background
<1>4. CASE WarmerStep
    BY <1>4, WarmerKind DEF StepKind, Background
<1>5. CASE EventStep
    BY <1>1, <1>5 DEF EventStep, ProxyMark, ProxyApply, ProxyDrop, ExternalChange, WebhookPlex, LoseWebhook
<1>6. ASSUME NEW k \in Keys, Evict(k)
      PROVE  StepKind
    BY <1>1, <1>6 DEF Evict, eventVars
<1>7. CASE Tick
    BY <1>7, TickKind DEF StepKind
<1>8. CASE UNCHANGED vars
    BY <1>1, <1>8 DEF vars
<1> QED
    BY <1>2, <1>3, <1>4, <1>5, <1>6, <1>7, <1>8 DEF Next

LEMMA HoldsIsHeld ==
    ASSUME NEW f \in Background, NEW k
    PROVE  Holds(f, k) <=> Held(f) /\ KeyOf(f) = k
BY DEF Holds, Held, HeldPlaces

\* A steady fetcher holds what it held.
LEMMA SteadyHolds ==
    ASSUME NEW f \in Background, NEW k, Steady(f)
    PROVE  Holds(f, k)' <=> Holds(f, k)
BY DEF Steady, Holds, Held, HeldPlaces

LEMMA SingleFlightStep ==
    ASSUME TypeOK, SingleFlight, [Next]_vars
    PROVE  SingleFlight'
<1>1. CASE Quiet
    <2>1. \A f \in Background, k \in Keys : Holds(f, k)' <=> Holds(f, k)
        BY <1>1, SteadyHolds DEF Quiet
    <2> QED
        BY <1>1, <2>1 DEF Quiet, SingleFlight
<1>2. ASSUME NEW f \in Background, NEW c \in Keys, Claims(f, c)
      PROVE  SingleFlight'
    <2>1. \A g \in Background \ {f}, k \in Keys : Holds(g, k)' <=> Holds(g, k)
        BY <1>2, SteadyHolds DEF Claims, OthersSteady
    <2>2. \A k \in Keys : ~Holds(f, k) /\ (Holds(f, k)' <=> k = c)
        BY <1>2 DEF Claims, Holds, Held, HeldPlaces
    <2>3. \A g \in Background : ~Holds(g, c)
        BY <1>2 DEF Claims, SingleFlight
    <2> QED
        BY <1>2, <2>1, <2>2, <2>3 DEF Claims, SingleFlight
<1>3. ASSUME NEW f \in Background, Ends(f)
      PROVE  SingleFlight'
    <2>1. \A g \in Background, k \in Keys : Holds(g, k)' <=> Holds(g, k)
        BY <1>3, SteadyHolds DEF Ends, OthersSteady, Holds, Held, HeldPlaces
    <2> QED
        BY <1>3, <2>1 DEF Ends, SingleFlight
<1>4. ASSUME NEW f \in Background, Releases(f)
      PROVE  SingleFlight'
    <2>1. \A g \in Background \ {f}, k \in Keys : Holds(g, k)' <=> Holds(g, k)
        BY <1>4, SteadyHolds DEF Releases, OthersSteady
    <2>2. \A k \in Keys : ~Holds(f, k)' /\ (Holds(f, k) <=> k = KeyOf(f))
        BY <1>4 DEF Releases, Holds, Held, HeldPlaces
    <2> QED
        BY <1>4, <2>1, <2>2 DEF Releases, SingleFlight
<1> QED
    BY <1>1, <1>2, <1>3, <1>4, NextKind DEF StepKind

(***************************************************************************)
(* Single flight for every number of clients, refresh tasks and keys.      *)
(***************************************************************************)
THEOREM SingleFlightCorrect == Spec => []SingleFlight
<1>1. Init => SingleFlight
    BY DEF Init, SingleFlight, Holds, Fetchers
<1>2. TypeOK /\ SingleFlight /\ [Next]_vars => SingleFlight'
    BY SingleFlightStep
<1> QED
    BY <1>1, <1>2, TypeCorrect, PTL DEF Spec
-----------------------------------------------------------------------------
(***************************************************************************)
(* Order of the background writes.  The inductive invariant says why: what *)
(* the holder of a key has read is no older than the last write, and stays *)
(* so because nobody else may write the key before the holder releases it. *)
(***************************************************************************)
OrderInv ==
    /\ \A k \in Keys : written[k] <= upstream
    /\ \A f \in Background :
          pc[f] = "read" => /\ written[KeyOf(f)] <= job[f].payload.ver
                            /\ job[f].payload.ver <= upstream

\* A background fetcher that carries an answer carries it on unchanged, or
\* has just received it.
LEMMA ReadPersists ==
    ASSUME TypeOK, [Next]_vars, NEW f \in Background, pc'[f] = "read"
    PROVE  \/ /\ pc[f] = "read" /\ KeyOf(f)' = KeyOf(f)
              /\ job'[f].payload.ver = job[f].payload.ver
           \/ /\ pc[f] = "sent" /\ KeyOf(f)' = KeyOf(f)
              /\ job'[f].payload.ver = upstream
              /\ UNCHANGED <<written, upstream>>
<1> f \in Fetchers /\ f \notin Requests
    BY ActorAssumption DEF Fetchers, Background
<1> DEFINE Kept == pc[f] = "read" /\ KeyOf(f)' = KeyOf(f)
                   /\ job'[f].payload.ver = job[f].payload.ver
<1> USE DEF TypeOK
<1>1. CASE pc'[f] = pc[f] /\ job'[f] = job[f]
    BY <1>1 DEF KeyOf
<1>2. ASSUME NEW r \in Requests, RequestStep(r) \/ FetchStep(r)
      PROVE  pc'[f] = pc[f] /\ job'[f] = job[f]
    <2> r \in Fetchers /\ r # f
        BY DEF Fetchers
    <2>1. CASE RequestStep(r)
        BY <2>1 DEF RequestStep, RequestHit, RequestMiss, ServeFresh, ServeStale, CancelRequest,
                    Finish, Goto
    <2>2. CASE FetchStep(r)
        BY <2>2 DEF FetchStep, UpstreamRead, FetchFail, InsertPayload, TrackFetched,
                    Leave, Finish, Goto
    <2> QED
        BY <1>2, <2>1, <2>2
<1>3. ASSUME NEW t \in Tasks, t # f, TaskStep(t)
      PROVE  pc'[f] = pc[f] /\ job'[f] = job[f]
    BY <1>3 DEF TaskStep, TaskCheckRate, TaskClaim, TaskStartFetch, FetchStep, UpstreamRead,
                FetchFail, InsertPayload, TrackFetched, Leave, Release, Finish, Goto
<1>4. ASSUME f # Warmer, WarmerStep
      PROVE  pc'[f] = pc[f] /\ job'[f] = job[f]
    BY <1>4 DEF WarmerStep, WarmCycleStart, WarmListFailed, WarmNext, FetchStep, UpstreamRead,
                FetchFail, InsertPayload, TrackFetched, Leave, Release, Finish, Goto
<1>5. CASE FetchStep(f)
    <2>1. CASE UpstreamRead(f)
        <3>1. job[f] \in Job /\ job'[f] = [job[f] EXCEPT !.payload = Answer(f)]
            BY <2>1 DEF UpstreamRead
        <3>2. KeyOf(f)' = KeyOf(f) /\ job'[f].payload = Answer(f)
            BY <3>1 DEF KeyOf, Job
        <3> QED
            BY <2>1, <3>2 DEF UpstreamRead, Answer, eventVars
    <2>2. CASE FetchFail(f) \/ InsertPayload(f) \/ TrackFetched(f)
        BY <2>2 DEF FetchFail, InsertPayload, TrackFetched, Leave, Finish, Goto
    <2> QED
        BY <1>5, <2>1, <2>2 DEF FetchStep
<1>6. CASE TaskStep(f) /\ f \in Tasks
    <2>1. CASE TaskCheckRate(f) \/ TaskClaim(f) \/ TaskStartFetch(f) \/ Release(f)
        BY <2>1 DEF TaskCheckRate, TaskClaim, TaskStartFetch, Release, Finish, Goto
    <2> QED
        BY <1>5, <1>6, <2>1 DEF TaskStep
<1>7. CASE WarmerStep /\ f = Warmer
    <2>1. CASE WarmCycleStart \/ \E work : WarmListFailed(work)
        BY <1>1, <2>1 DEF WarmCycleStart, WarmListFailed
    <2>2. ASSUME NEW a \in Accounts, NEW p \in Paths, WarmNext(a, p)
          PROVE  FALSE
        BY <1>7, <2>2 DEF WarmNext, Goto
    <2>3. CASE Release(Warmer)
        BY <1>7, <2>3 DEF Release, Finish, Goto
    <2> QED
        BY <1>5, <1>7, <2>1, <2>2, <2>3 DEF WarmerStep
<1>8. CASE EventStep
    BY <1>1, <1>8 DEF EventStep, ProxyMark, ProxyApply, ProxyDrop, ExternalChange, WebhookPlex, LoseWebhook
<1>9. ASSUME NEW k \in Keys, Evict(k)
      PROVE  pc'[f] = pc[f] /\ job'[f] = job[f]
    BY <1>9 DEF Evict
<1>10. CASE Tick
    <2>1. pc[f] = "read" /\ job[f] \in Job /\ job[f].payload \in Payload
        BY <1>10 DEF Tick
    <2>2. /\ job'[f].account = job[f].account /\ job'[f].path = job[f].path
          /\ job'[f].payload = OlderPayload(job[f].payload)
        BY <1>10, <2>1, TickJob
    <2>3. OlderPayload(job[f].payload).ver = job[f].payload.ver
        BY <2>1, NullAssumption DEF OlderPayload, Payload
    <2> QED
        BY <2>1, <2>2, <2>3 DEF KeyOf
<1>11. CASE UNCHANGED vars
    BY <1>1, <1>11 DEF vars
<1> QED
    BY <1>1, <1>2, <1>3, <1>4, <1>6, <1>7, <1>8, <1>9, <1>10, <1>11 DEF Next, Background

LEMMA UpstreamGrows ==
    ASSUME TypeOK, [Next]_vars
    PROVE  upstream' \in Nat /\ upstream <= upstream'
<1>1. StepKind
    BY NextKind
<1> QED
    BY <1>1 DEF StepKind, Quiet, Claims, Ends, Releases, TypeOK

\* What a write does to a key, and that it comes from the key's holder.
LEMMA WriteFacts ==
    ASSUME TypeOK, OrderInv, [Next]_vars, NEW k \in Keys, written'[k] # written[k]
    PROVE  \E f \in Background :
              /\ Ends(f) /\ Holds(f, k) /\ KeyOf(f) = k /\ pc[f] = "read"
              /\ written' = [written EXCEPT ![k] = job[f].payload.ver]
              /\ written[k] <= job[f].payload.ver /\ job[f].payload.ver <= upstream
<1>1. PICK f \in Background : Ends(f) /\ written' # written
    BY NextKind DEF StepKind, Quiet, Claims, Releases
<1>2. pc[f] = "read" /\ written' = [written EXCEPT ![KeyOf(f)] = job[f].payload.ver]
    BY <1>1 DEF Ends
<1>3. k = KeyOf(f)
    BY <1>2 DEF TypeOK
<1>4. Holds(f, k)
    BY <1>2, <1>3 DEF Holds
<1> QED
    BY <1>1, <1>2, <1>3, <1>4 DEF OrderInv

LEMMA OrderStep ==
    ASSUME TypeOK, TypeOK', SingleFlight, OrderInv, [Next]_vars
    PROVE  OrderInv'
<1>1. ASSUME NEW k \in Keys
      PROVE  written'[k] <= upstream'
    BY WriteFacts, UpstreamGrows DEF OrderInv, TypeOK
<1>2. ASSUME NEW f \in Background, pc'[f] = "read"
      PROVE  /\ written'[KeyOf(f)'] <= job'[f].payload.ver
             /\ job'[f].payload.ver <= upstream'
    <2> f \in Fetchers
        BY DEF Fetchers
    <2>1. CASE /\ pc[f] = "read" /\ KeyOf(f)' = KeyOf(f)
               /\ job'[f].payload.ver = job[f].payload.ver
        <3>1. KeyOf(f) \in Keys /\ Holds(f, KeyOf(f)) /\ job[f].payload \in Payload
            BY <2>1, KeyOfInKeys DEF Holds, TypeOK
        <3>2. job[f].payload.ver \in Nat
            BY <3>1 DEF Payload
        <3>3. written'[KeyOf(f)] = written[KeyOf(f)]
            <4> SUFFICES ASSUME written'[KeyOf(f)] # written[KeyOf(f)]
                         PROVE  FALSE
                OBVIOUS
            <4>1. PICK g \in Background : Ends(g) /\ Holds(g, KeyOf(f))
                BY <3>1, WriteFacts
            <4>2. g = f
                BY <3>1, <4>1 DEF SingleFlight
            <4> QED
                BY <1>2, <4>1, <4>2 DEF Ends, Done, DonePlaces
        <3> QED
            BY <2>1, <3>1, <3>2, <3>3, UpstreamGrows DEF OrderInv, TypeOK
    <2>2. CASE /\ pc[f] = "sent" /\ KeyOf(f)' = KeyOf(f)
               /\ job'[f].payload.ver = upstream
               /\ UNCHANGED <<written, upstream>>
        <3>1. KeyOf(f) \in Keys
            BY <2>2, KeyOfInKeys
        <3> QED
            BY <2>2, <3>1 DEF OrderInv, TypeOK
    <2> QED
        BY <1>2, <2>1, <2>2, ReadPersists
<1> QED
    BY <1>1, <1>2 DEF OrderInv

LEMMA OrderCorrect == Spec => []OrderInv
<1>1. Init => OrderInv
    BY DEF Init, OrderInv, Fetchers
<1>2. TypeOK /\ TypeOK' /\ SingleFlight /\ OrderInv /\ [Next]_vars => OrderInv'
    BY OrderStep
<1> QED
    BY <1>1, <1>2, TypeCorrect, SingleFlightCorrect, PTL DEF Spec

(***************************************************************************)
(* The background writes of a key come in upstream order.                  *)
(***************************************************************************)
THEOREM WritesInOrder == Spec => BackgroundWritesInOrder
<1>1. ASSUME TypeOK, OrderInv, [Next]_vars
      PROVE  [\A k \in Keys : written'[k] >= written[k]]_vars
    <2>1. ASSUME NEW k \in Keys
          PROVE  written'[k] >= written[k]
        <3>1. CASE written'[k] = written[k]
            BY <1>1, <3>1 DEF TypeOK
        <3>2. CASE written'[k] # written[k]
            <4>1. PICK f \in Background :
                      /\ pc[f] = "read"
                      /\ written' = [written EXCEPT ![k] = job[f].payload.ver]
                      /\ written[k] <= job[f].payload.ver
                BY <1>1, <3>2, WriteFacts
            <4>2. job[f].payload.ver \in Nat /\ written[k] \in Nat
                BY <1>1, <4>1 DEF TypeOK, Payload, Fetchers
            <4>3. written'[k] = job[f].payload.ver
                BY <1>1, <4>1 DEF TypeOK
            <4> QED
                BY <4>1, <4>2, <4>3
        <3> QED
            BY <3>1, <3>2
    <2> QED
        BY <2>1
<1> QED
    BY <1>1, TypeCorrect, OrderCorrect, PTL DEF Spec, BackgroundWritesInOrder
-----------------------------------------------------------------------------
(***************************************************************************)
(* Refinement of SerialRefresh.                                            *)
(***************************************************************************)

LEMMA PhaseNow ==
    ASSUME SingleFlight, NEW f \in Background, NEW k \in Keys, Holds(f, k)
    PROVE  k \in inflight /\ Phase(k) = IF Done(f) THEN "done" ELSE "running"
BY DEF SingleFlight, Phase, Done, DonePlaces

LEMMA PhaseThen ==
    ASSUME SingleFlight', NEW f \in Background, NEW k \in Keys, Holds(f, k)'
    PROVE  k \in inflight' /\ Phase(k)' = IF Done(f)' THEN "done" ELSE "running"
BY DEF SingleFlight, Phase, Done, DonePlaces

\* A step that leaves a key's claim and its possible holders alone leaves
\* its phase alone.
LEMMA PhaseFrame ==
    ASSUME NEW k \in Keys, k \in inflight' <=> k \in inflight,
           \A f \in Background : (Holds(f, k) /\ Done(f))' <=> (Holds(f, k) /\ Done(f))
    PROVE  Phase(k)' = Phase(k)
BY DEF Phase, Done, DonePlaces

LEMMA SteadyPhase ==
    ASSUME NEW f \in Background, NEW k, Steady(f)
    PROVE  (Holds(f, k) /\ Done(f))' <=> (Holds(f, k) /\ Done(f))
BY SteadyHolds DEF Steady

LEMMA SerialStep ==
    ASSUME TypeOK, SingleFlight, SingleFlight', OrderInv, [Next]_vars
    PROVE  [Serial!SerialNext]_(Serial!serialVars)
<1> DEFINE ph == [k \in Keys |-> Phase(k)]
<1> USE DEF Serial!SerialNext, Serial!serialVars
<1>1. CASE Quiet
    <2>1. \A k \in Keys : Phase(k)' = Phase(k)
        BY <1>1, PhaseFrame, SteadyPhase DEF Quiet
    <2>2. ph' = ph
        BY <2>1
    <2> QED
        BY <1>1, <2>2 DEF Quiet, Serial!Change
<1>2. ASSUME NEW f \in Background, NEW c \in Keys, Claims(f, c)
      PROVE  Serial!Begin(c)
    <2>1. ASSUME NEW k \in Keys \ {c}
          PROVE  Phase(k)' = Phase(k)
        <3>1. ~Holds(f, k) /\ ~Holds(f, k)'
            BY <1>2 DEF Claims, Holds, Held, HeldPlaces
        <3>2. \A g \in Background : (Holds(g, k) /\ Done(g))' <=> (Holds(g, k) /\ Done(g))
            BY <1>2, <3>1, SteadyPhase DEF Claims, OthersSteady
        <3> QED
            BY <1>2, <3>2, PhaseFrame DEF Claims
    <2>2. Phase(c) = "idle"
        BY <1>2 DEF Claims, Phase
    <2>3. Phase(c)' = "running"
        BY <1>2, PhaseThen DEF Claims, Holds, Held, HeldPlaces
    <2>4. ph' = [ph EXCEPT ![c] = "running"]
        BY <2>1, <2>3
    <2> QED
        BY <1>2, <2>2, <2>4 DEF Claims, Serial!Begin, Serial!Move
<1>3. ASSUME NEW f \in Background, Ends(f)
      PROVE  \E k \in Keys : Serial!Write(k) \/ Serial!Fail(k)
    <2> PICK c \in Keys : c = KeyOf(f)
        BY <1>3, KeyOfInKeys DEF Ends, Held, HeldPlaces, Fetchers
    <2>1. Holds(f, c) /\ Holds(f, c)'
        BY <1>3 DEF Ends, Holds, Held, HeldPlaces
    <2>2. ASSUME NEW k \in Keys \ {c}
          PROVE  Phase(k)' = Phase(k)
        <3>1. ~Holds(f, k) /\ ~Holds(f, k)'
            BY <1>3 DEF Ends, Holds
        <3>2. \A g \in Background : (Holds(g, k) /\ Done(g))' <=> (Holds(g, k) /\ Done(g))
            BY <1>3, <3>1, SteadyPhase DEF Ends, OthersSteady
        <3> QED
            BY <1>3, <3>2, PhaseFrame DEF Ends
    <2>3. Phase(c) = "running" /\ Phase(c)' = "done"
        BY <1>3, <2>1, PhaseNow, PhaseThen DEF Ends
    <2>4. ph' = [ph EXCEPT ![c] = "done"]
        BY <2>2, <2>3
    <2>5. Serial!Move(c, "running", "done")
        BY <2>1, <2>3, <2>4 DEF Serial!Move
    <2>6. CASE UNCHANGED written
        BY <1>3, <2>1, <2>5, <2>6 DEF Ends, Serial!Fail
    <2>7. CASE pc[f] = "read" /\ written' = [written EXCEPT ![c] = job[f].payload.ver]
        <3>1. job[f].payload.ver \in Nat
            BY <2>7 DEF TypeOK, Payload, Fetchers
        <3>2. job[f].payload.ver \in written[c]..upstream
            BY <2>1, <2>7, <3>1 DEF OrderInv, TypeOK
        <3>3. Serial!Write(c)
            BY <1>3, <2>5, <2>7, <3>2 DEF Ends, Serial!Write
        <3> QED
            BY <2>1, <3>3
    <2> QED
        BY <1>3, <2>6, <2>7 DEF Ends
<1>4. ASSUME NEW f \in Background, Releases(f)
      PROVE  \E k \in Keys : Serial!End(k)
    <2> PICK c \in Keys : c = KeyOf(f)
        BY <1>4, KeyOfInKeys DEF Releases, Held, HeldPlaces, Fetchers
    <2>1. Holds(f, c)
        BY <1>4 DEF Releases, Holds, Held, HeldPlaces
    <2>2. ASSUME NEW k \in Keys \ {c}
          PROVE  Phase(k)' = Phase(k)
        <3>1. ~Holds(f, k) /\ ~Holds(f, k)'
            BY <1>4 DEF Releases, Holds, Held, HeldPlaces
        <3>2. \A g \in Background : (Holds(g, k) /\ Done(g))' <=> (Holds(g, k) /\ Done(g))
            BY <1>4, <3>1, SteadyPhase DEF Releases, OthersSteady
        <3> QED
            BY <1>4, <3>2, PhaseFrame DEF Releases
    <2>3. Phase(c) = "done"
        BY <1>4, <2>1, PhaseNow DEF Releases
    <2>4. Phase(c)' = "idle"
        BY <1>4 DEF Releases, Phase
    <2>5. ph' = [ph EXCEPT ![c] = "idle"]
        BY <2>2, <2>4
    <2> QED
        BY <1>4, <2>1, <2>3, <2>5 DEF Releases, Serial!End, Serial!Move
<1> QED
    BY <1>1, <1>2, <1>3, <1>4, NextKind DEF StepKind

(***************************************************************************)
(* Tasks, warmer, claims and requests together implement one serial        *)
(* refresher per key.                                                      *)
(***************************************************************************)
THEOREM HubCacheIsSerial == Spec => RefreshIsSerial
<1>1. Init => Serial!SerialInit
    BY DEF Init, Serial!SerialInit, Phase
<1>2. TypeOK /\ SingleFlight /\ SingleFlight' /\ OrderInv /\ [Next]_vars
          => [Serial!SerialNext]_(Serial!serialVars)
    BY SerialStep
<1> QED
    BY <1>1, <1>2, TypeCorrect, SingleFlightCorrect, OrderCorrect, PTL
    DEF Spec, RefreshIsSerial, Serial!SerialSpec
-----------------------------------------------------------------------------
(***************************************************************************)
(* What the steps do to payloads and ages: the four that produce, copy or  *)
(* date a payload, the clock, and all the others, which at most lose       *)
(* payloads, make records old and end what a fetcher carries.              *)
(***************************************************************************)
Carrying == {"hit", "read", "inserted"}

Keeps ==
    /\ \A k \in Keys : cache'[k] \in {cache[k], NoPayload}
    /\ cache' = cache \/ evictions' # evictions
    /\ \A k \in Keys : fetchedAge'[k] \in {fetchedAge[k], StaleTTL}
    /\ \A f \in Fetchers :
          pc'[f] \in Carrying => pc'[f] = pc[f] /\ job'[f] = job[f]

Moves ==
    \/ Keeps
    \/ \E r \in Requests, a \in Accounts, p \in Paths : RequestHit(r, a, p)
    \/ \E f \in Fetchers : UpstreamRead(f) \/ InsertPayload(f) \/ TrackFetched(f)
    \/ Tick

LEMMA FetchMoves ==
    ASSUME TypeOK, NEW f \in Fetchers, FetchStep(f)
    PROVE  Moves
<1>1. CASE FetchFail(f)
    BY <1>1 DEF Moves, Keeps, TypeOK, FetchFail, FailureKeeps, Leave, Finish, Goto, Carrying, storeVars
<1> QED
    BY <1>1 DEF FetchStep, Moves

LEMMA NextMoves ==
    ASSUME TypeOK, [Next]_vars
    PROVE  Moves
<1> USE DEF TypeOK, Carrying, storeVars
<1>1. ASSUME NEW r \in Requests, RequestStep(r)
      PROVE  Moves
    <2>1. CASE ServeFresh(r) \/ CancelRequest(r)
        BY <2>1 DEF Moves, Keeps, ServeFresh, CancelRequest, Finish, Goto
    <2>2. ASSUME NEW t \in Tasks, ServeStale(r, t)
          PROVE  Moves
        BY <2>2 DEF Moves, Keeps, ServeStale
    <2>3. ASSUME NEW a \in Accounts, NEW p \in Paths, RequestMiss(r, a, p)
          PROVE  Moves
        BY <2>3 DEF Moves, Keeps, RequestMiss, Goto
    <2> QED
        BY <1>1, <2>1, <2>2, <2>3 DEF RequestStep, Moves
<1>2. ASSUME NEW t \in Tasks, TaskStep(t)
      PROVE  Moves
    <2>1. CASE TaskCheckRate(t) \/ TaskClaim(t)
        BY <2>1 DEF Moves, Keeps, TaskCheckRate, TaskClaim, Finish, Goto
    <2>2. CASE TaskStartFetch(t) \/ Release(t)
        BY <2>2 DEF Moves, Keeps, TaskStartFetch, Release, Finish, Goto
    <2> QED
        BY <1>2, <2>1, <2>2, FetchMoves DEF TaskStep, Fetchers, Background
<1>3. CASE WarmerStep
    <2>1. CASE WarmCycleStart \/ Release(Warmer)
        BY <2>1 DEF Moves, Keeps, WarmCycleStart, Release, Finish, Goto
    <2>2. ASSUME NEW work, WarmListFailed(work)
          PROVE  Moves
        BY <2>2 DEF Moves, Keeps, WarmListFailed
    <2>3. ASSUME NEW a \in Accounts, NEW p \in Paths, WarmNext(a, p)
          PROVE  Moves
        BY <2>3 DEF Moves, Keeps, WarmNext, Goto
    <2> QED
        BY <1>3, <2>1, <2>2, <2>3, FetchMoves DEF WarmerStep, Fetchers, Background
<1>4. CASE EventStep
    BY <1>4 DEF Moves, Keeps, EventStep, ProxyMark, ProxyApply, ProxyDrop, ExternalChange,
                WebhookPlex, LoseWebhook, MarkAllHubsStale
<1>5. ASSUME NEW k \in Keys, Evict(k)
      PROVE  Moves
    BY <1>5 DEF Moves, Keeps, Evict
<1>6. CASE UNCHANGED vars
    BY <1>6 DEF Moves, Keeps, vars
<1> QED
    BY <1>1, <1>2, <1>3, <1>4, <1>5, <1>6, FetchMoves DEF Next, Moves, Fetchers

(***************************************************************************)
(* Without expiry, eviction or purge no step empties a cached key.         *)
(***************************************************************************)
THEOREM PayloadsAreKept == Spec => PayloadsSurvive
<1>1. ASSUME TypeOK, [Next]_vars, evictions' = evictions,
             NEW k \in Keys, cache[k] # NoPayload
      PROVE  cache'[k] # NoPayload
    <2>1. CASE Keeps
        BY <1>1, <2>1 DEF Keeps
    <2>2. ASSUME NEW r \in Requests, NEW a \in Accounts, NEW p \in Paths, RequestHit(r, a, p)
          PROVE  cache'[k] # NoPayload
        BY <1>1, <2>2 DEF RequestHit, storeVars
    <2>3. ASSUME NEW f \in Fetchers, UpstreamRead(f) \/ TrackFetched(f)
          PROVE  cache'[k] # NoPayload
        BY <1>1, <2>3 DEF UpstreamRead, TrackFetched, storeVars
    <2>4. ASSUME NEW f \in Fetchers, InsertPayload(f)
          PROVE  cache'[k] # NoPayload
        BY <1>1, <2>4, NullAssumption DEF InsertPayload, TypeOK
    <2>5. CASE Tick
        <3>1. cache[k] \in Payload /\ cache'[k] = OlderPayload(cache[k])
            BY <1>1, <2>5 DEF Tick, TypeOK
        <3> QED
            BY <3>1, OlderPayloadType, NullAssumption
    <2> QED
        BY <1>1, <2>1, <2>2, <2>3, <2>4, <2>5, NextMoves DEF Moves
<1>2. TypeOK /\ [Next]_vars
        => [evictions' = evictions =>
               \A k \in Keys : cache[k] # NoPayload => cache'[k] # NoPayload]_vars
    BY <1>1
<1> QED
    BY <1>2, TypeCorrect, PTL DEF Spec, PayloadsSurvive

-----------------------------------------------------------------------------
(***************************************************************************)
(* Whose content is where.  Outside the merged paths a key belongs to one  *)
(* account, every payload under it was fetched for that account, and so    *)
(* was every payload a fetcher carries.                                    *)
(***************************************************************************)
Owned(p, a, payload) == p \in MergedPaths \/ payload.owner = a

ScopeInv ==
    /\ \A a \in Accounts, p \in Paths :
          cache[HubCacheKey(p, a)] # NoPayload => Owned(p, a, cache[HubCacheKey(p, a)])
    /\ \A f \in Fetchers :
          pc[f] \in Carrying => Owned(job[f].path, job[f].account, job[f].payload)

\* Only the merged paths share a key.
LEMMA KeysApart ==
    ASSUME NEW a \in Accounts, NEW b \in Accounts, NEW p \in Paths, NEW q \in Paths,
           HubCacheKey(p, a) = HubCacheKey(q, b), p \notin MergedPaths
    PROVE  q = p /\ b = a
BY ScopeAssumption DEF HubCacheKey

LEMMA CarriesJob ==
    ASSUME TypeOK, NEW f \in Fetchers, pc[f] # "idle"
    PROVE  job[f].account \in Accounts /\ job[f].path \in Paths
BY DEF TypeOK, Job

LEMMA ScopeStep ==
    ASSUME TypeOK, ScopeInv, [Next]_vars
    PROVE  ScopeInv'
<1>1. CASE Keeps
    BY <1>1, KeyInKeys DEF Keeps, ScopeInv, Owned, HubCacheKey
<1>2. ASSUME NEW r \in Requests, NEW a \in Accounts, NEW p \in Paths, RequestHit(r, a, p)
      PROVE  ScopeInv'
    <2>1. r \in Fetchers /\ job'[r].account = a /\ job'[r].path = p
          /\ job'[r].payload = cache[HubCacheKey(p, a)]
        BY <1>2 DEF RequestHit, NewJob, TypeOK, Fetchers
    <2>2. \A f \in Fetchers \ {r} : pc'[f] = pc[f] /\ job'[f] = job[f]
        BY <1>2 DEF RequestHit, Goto, TypeOK
    <2> QED
        BY <1>2, <2>1, <2>2 DEF ScopeInv, Owned, RequestHit, storeVars, HubCacheKey
<1>3. ASSUME NEW f \in Fetchers, UpstreamRead(f)
      PROVE  ScopeInv'
    <2>1. job[f] \in Job /\ job'[f] = [job[f] EXCEPT !.payload = Answer(f)]
        BY <1>3 DEF UpstreamRead, TypeOK
    <2>2. /\ job'[f].account = job[f].account /\ job'[f].path = job[f].path
          /\ job'[f].payload.owner = job[f].account
        BY <2>1 DEF Job, Answer
    <2>3. \A g \in Fetchers \ {f} : pc'[g] = pc[g] /\ job'[g] = job[g]
        BY <1>3 DEF UpstreamRead, Goto, TypeOK
    <2> QED
        BY <1>3, <2>2, <2>3 DEF ScopeInv, Owned, UpstreamRead, storeVars, HubCacheKey
<1>4. ASSUME NEW f \in Fetchers, InsertPayload(f)
      PROVE  ScopeInv'
    <2>1. Owned(job[f].path, job[f].account, job[f].payload)
        BY <1>4 DEF ScopeInv, InsertPayload, Carrying
    <2>2. \A g \in Fetchers : job'[g] = job[g] /\ (pc'[g] \in Carrying => pc[g] \in Carrying)
        BY <1>4 DEF InsertPayload, Goto, TypeOK, Carrying
    <2>3. ASSUME NEW a \in Accounts, NEW p \in Paths, p \notin MergedPaths,
                 cache'[HubCacheKey(p, a)] # NoPayload
          PROVE  cache'[HubCacheKey(p, a)].owner = a
        <3>1. HubCacheKey(p, a) \in Keys
            BY KeyInKeys
        <3>2. CASE HubCacheKey(p, a) = KeyOf(f)
            <4>1. job[f].path = p /\ job[f].account = a
                BY <1>4, <2>3, <3>2, CarriesJob, KeysApart DEF KeyOf, InsertPayload
            <4> QED
                BY <1>4, <2>1, <2>3, <3>1, <3>2, <4>1 DEF InsertPayload, Owned, TypeOK
        <3>3. CASE HubCacheKey(p, a) # KeyOf(f)
            BY <1>4, <2>3, <3>1, <3>3 DEF InsertPayload, ScopeInv, Owned, TypeOK
        <3> QED
            BY <3>2, <3>3
    <2> QED
        BY <2>2, <2>3 DEF ScopeInv, Owned, HubCacheKey
<1>5. ASSUME NEW f \in Fetchers, TrackFetched(f)
      PROVE  ScopeInv'
    BY <1>5 DEF ScopeInv, Owned, TrackFetched, Leave, Finish, Goto, TypeOK, Carrying, HubCacheKey
<1>6. CASE Tick
    <2>1. ASSUME NEW x \in Payload
          PROVE  OlderPayload(x).owner = x.owner
        BY <2>1, NullAssumption DEF OlderPayload, Payload
    <2>2. ASSUME NEW a \in Accounts, NEW p \in Paths, cache'[HubCacheKey(p, a)] # NoPayload
          PROVE  Owned(p, a, cache'[HubCacheKey(p, a)])
        <3>1. cache'[HubCacheKey(p, a)] = OlderPayload(cache[HubCacheKey(p, a)])
            BY <1>6, KeyInKeys DEF Tick
        <3>2. cache[HubCacheKey(p, a)] \in Payload
            BY <2>2, <3>1, KeyInKeys DEF TypeOK, OlderPayload
        <3> QED
            BY <2>1, <3>1, <3>2, NullAssumption DEF ScopeInv, Owned
    <2>3. ASSUME NEW f \in Fetchers, pc'[f] \in Carrying
          PROVE  Owned(job'[f].path, job'[f].account, job'[f].payload)
        <3>1. pc[f] \in Carrying /\ job[f] \in Job /\ job[f].payload \in Payload
            BY <1>6, <2>3 DEF Tick, TypeOK, Carrying
        <3> QED
            BY <1>6, <2>1, <3>1, TickJob DEF ScopeInv, Owned
    <2> QED
        BY <2>2, <2>3 DEF ScopeInv, Owned, HubCacheKey
<1> QED
    BY <1>1, <1>2, <1>3, <1>4, <1>5, <1>6, NextMoves DEF Moves

(***************************************************************************)
(* Outside the merged paths a response shows the requester's own content.  *)
(***************************************************************************)
THEOREM ScopedCorrect == Spec => []ScopedResponsesOwnContent
<1>1. Init => ScopeInv
    <2> SUFFICES ASSUME Init PROVE ScopeInv
        OBVIOUS
    <2> QED
        BY KeyInKeys DEF Init, ScopeInv, Carrying
<1>2. TypeOK /\ ScopeInv /\ [Next]_vars => ScopeInv'
    BY ScopeStep
<1>3. ScopeInv => ScopedResponsesOwnContent
    BY DEF ScopeInv, Owned, ScopedResponsesOwnContent, Carrying, Fetchers
<1> QED
    BY <1>1, <1>2, <1>3, TypeCorrect, PTL DEF Spec

-----------------------------------------------------------------------------
(***************************************************************************)
(* Age.  A payload is at most FetchTimeout old while a fetcher carries it  *)
(* to the cache, and between the insert and the age record no time passes, *)
(* so whatever stands under the key then is that young when the record is  *)
(* made, whoever inserted it.                                              *)
(***************************************************************************)
Young(payload) == payload.seen <= FetchTimeout

AgeInv ==
    /\ BoundedStaleness
    /\ \A f \in Fetchers : pc[f] \in {"read", "inserted"} => Young(job[f].payload)
    /\ \A f \in Fetchers :
          pc[f] = "inserted" /\ cache[KeyOf(f)] # NoPayload => Young(cache[KeyOf(f)])

LEMMA AgeStep ==
    ASSUME TypeOK, TypeOK', AgeInv, [Next]_vars
    PROVE  AgeInv'
<1> USE DEF Young
<1>1. CASE Keeps
    <2>1. BoundedStaleness'
        BY <1>1 DEF Keeps, AgeInv, BoundedStaleness, IsStale, TypeOK
    <2>2. ASSUME NEW f \in Fetchers, pc'[f] \in {"read", "inserted"}
          PROVE  pc[f] = pc'[f] /\ job'[f] = job[f] /\ KeyOf(f)' = KeyOf(f)
        BY <1>1, <2>2 DEF Keeps, Carrying, KeyOf
    <2>3. ASSUME NEW f \in Fetchers, pc'[f] = "inserted"
          PROVE  cache'[KeyOf(f)'] \in {cache[KeyOf(f)], NoPayload}
        BY <1>1, <2>2, <2>3, KeyOfInKeys DEF Keeps
    <2> QED
        BY <2>1, <2>2, <2>3 DEF AgeInv
<1>2. ASSUME NEW r \in Requests, NEW a \in Accounts, NEW p \in Paths, RequestHit(r, a, p)
      PROVE  AgeInv'
    <2>1. \A f \in Fetchers :
              pc'[f] \in {"read", "inserted"} => pc'[f] = pc[f] /\ job'[f] = job[f]
        BY <1>2 DEF RequestHit, Goto, TypeOK
    <2> QED
        BY <1>2, <2>1 DEF AgeInv, BoundedStaleness, IsStale, RequestHit, storeVars, KeyOf
<1>3. ASSUME NEW f \in Fetchers, UpstreamRead(f)
      PROVE  AgeInv'
    <2>1. job[f] \in Job /\ job'[f] = [job[f] EXCEPT !.payload = Answer(f)]
        BY <1>3 DEF UpstreamRead, TypeOK
    <2>2. job'[f].payload.seen = 0
        BY <2>1 DEF Job, Answer
    <2>3. \A g \in Fetchers \ {f} : pc'[g] = pc[g] /\ job'[g] = job[g]
        BY <1>3 DEF UpstreamRead, Goto, TypeOK
    <2>4. pc'[f] = "read"
        BY <1>3 DEF UpstreamRead, Goto, TypeOK
    <2>5. UNCHANGED <<cache, fetchedAge>>
        BY <1>3 DEF UpstreamRead, storeVars
    <2>6. \A g \in Fetchers : pc'[g] = "inserted" => pc[g] = "inserted" /\ KeyOf(g)' = KeyOf(g)
        BY <2>3, <2>4 DEF KeyOf
    <2>7. \A g \in Fetchers : pc'[g] \in {"read", "inserted"} => Young(job'[g].payload)
        BY <2>2, <2>3, TimeAssumption DEF AgeInv
    <2> QED
        BY <2>5, <2>6, <2>7 DEF AgeInv, BoundedStaleness, IsStale
<1>4. ASSUME NEW f \in Fetchers, InsertPayload(f)
      PROVE  AgeInv'
    <2>1. Young(job[f].payload) /\ KeyOf(f) \in Keys /\ job[f].payload \in Payload
        BY <1>4, KeyOfInKeys DEF AgeInv, InsertPayload, TypeOK
    <2>2. /\ \A g \in Fetchers : job'[g] = job[g] /\ KeyOf(g)' = KeyOf(g)
          /\ \A g \in Fetchers \ {f} : pc'[g] = pc[g]
          /\ pc[f] = "read" /\ pc'[f] = "inserted"
        BY <1>4 DEF InsertPayload, Goto, TypeOK, KeyOf
    <2>3. /\ cache'[KeyOf(f)] = job[f].payload
          /\ \A k \in Keys \ {KeyOf(f)} : cache'[k] = cache[k]
          /\ UNCHANGED fetchedAge
        BY <1>4, <2>1 DEF InsertPayload, TypeOK
    <2>4. ASSUME NEW k \in Keys, cache'[k] # NoPayload, ~IsStale(k)'
          PROVE  cache'[k].seen <= fetchedAge'[k] + FetchTimeout
        <3>1. CASE k = KeyOf(f)
            BY <2>1, <2>3, <3>1, TimeAssumption DEF TypeOK, Payload
        <3>2. CASE k # KeyOf(f)
            BY <2>3, <2>4, <3>2 DEF AgeInv, BoundedStaleness, IsStale
        <3> QED
            BY <3>1, <3>2
    <2>5. ASSUME NEW g \in Fetchers, pc'[g] = "inserted", cache'[KeyOf(g)] # NoPayload
          PROVE  Young(cache'[KeyOf(g)])
        <3>1. CASE KeyOf(g) = KeyOf(f)
            BY <2>1, <2>3, <3>1
        <3>2. CASE KeyOf(g) # KeyOf(f)
            BY <2>2, <2>3, <2>5, <3>2, KeyOfInKeys DEF AgeInv
        <3> QED
            BY <3>1, <3>2
    <2>6. \A g \in Fetchers : pc'[g] \in {"read", "inserted"} => Young(job'[g].payload)
        BY <2>1, <2>2 DEF AgeInv
    <2> QED
        BY <2>2, <2>4, <2>5, <2>6 DEF AgeInv, BoundedStaleness
<1>5. ASSUME NEW f \in Fetchers, TrackFetched(f)
      PROVE  AgeInv'
    <2>1. KeyOf(f) \in Keys /\ pc[f] = "inserted"
        BY <1>5, KeyOfInKeys DEF TrackFetched
    <2>2. /\ fetchedAge'[KeyOf(f)] = 0
          /\ \A k \in Keys \ {KeyOf(f)} : fetchedAge'[k] = fetchedAge[k]
          /\ UNCHANGED cache
        BY <1>5, <2>1 DEF TrackFetched, TypeOK
    <2>3. \A g \in Fetchers :
              pc'[g] \in {"read", "inserted"} => pc'[g] = pc[g] /\ job'[g] = job[g]
        BY <1>5 DEF TrackFetched, Leave, Finish, Goto, TypeOK
    <2>4. ASSUME NEW k \in Keys, cache'[k] # NoPayload, ~IsStale(k)'
          PROVE  cache'[k].seen <= fetchedAge'[k] + FetchTimeout
        <3>1. CASE k = KeyOf(f)
            BY <2>1, <2>2, <2>4, <3>1, TimeAssumption DEF AgeInv
        <3>2. CASE k # KeyOf(f)
            BY <2>2, <2>4, <3>2 DEF AgeInv, BoundedStaleness, IsStale
        <3> QED
            BY <3>1, <3>2
    <2> QED
        BY <2>2, <2>3, <2>4 DEF AgeInv, BoundedStaleness, KeyOf
<1>6. CASE Tick
    <2>1. UNCHANGED pc /\ \A f \in Fetchers : pc[f] # "inserted"
        BY <1>6 DEF Tick
    <2>2. ASSUME NEW x \in Payload
          PROVE  OlderPayload(x).seen <= x.seen + 1
        <3>1. OlderPayload(x).seen = Older(x.seen, Horizon)
            BY NullAssumption DEF OlderPayload, Payload
        <3>2. x.seen \in Nat /\ x.seen <= Horizon /\ Horizon \in Nat
            BY TimeAssumption DEF Payload, Horizon
        <3> QED
            BY <3>1, <3>2 DEF Older
    <2>3. ASSUME NEW k \in Keys, cache'[k] # NoPayload, ~IsStale(k)'
          PROVE  cache'[k].seen <= fetchedAge'[k] + FetchTimeout
        <3>1. cache'[k] = OlderPayload(cache[k]) /\ fetchedAge'[k] = Older(fetchedAge[k], StaleTTL)
            BY <1>6 DEF Tick
        <3>2. cache[k] \in Payload
            BY <2>3, <3>1 DEF TypeOK, OlderPayload
        <3>3. /\ fetchedAge[k] \in Nat /\ fetchedAge[k] < StaleTTL
              /\ fetchedAge'[k] = fetchedAge[k] + 1
            BY <2>3, <3>1, TimeAssumption DEF TypeOK, IsStale, Older
        <3>4. cache[k].seen <= fetchedAge[k] + FetchTimeout
            BY <3>2, <3>3, NullAssumption, TimeAssumption DEF AgeInv, BoundedStaleness, IsStale
        <3>5. cache[k].seen \in Nat /\ cache'[k].seen \in Nat
            BY <2>3, <3>2 DEF TypeOK, Payload
        <3> QED
            BY <2>2, <3>1, <3>2, <3>3, <3>4, <3>5, TimeAssumption
    <2>4. ASSUME NEW f \in Fetchers, pc[f] = "read"
          PROVE  Young(job'[f].payload)
        <3>1. /\ job[f] \in Job /\ job[f].payload \in Payload
              /\ job[f].payload.seen < FetchTimeout
            BY <1>6, <2>4 DEF TypeOK, Tick
        <3>2. job'[f].payload = OlderPayload(job[f].payload)
            BY <1>6, <3>1, TickJob
        <3>3. job'[f].payload \in Payload
            BY <3>1, <3>2, OlderPayloadType
        <3> QED
            BY <2>2, <3>1, <3>2, <3>3, TimeAssumption DEF Payload
    <2> QED
        BY <2>1, <2>3, <2>4 DEF AgeInv, BoundedStaleness
<1> QED
    BY <1>1, <1>2, <1>3, <1>4, <1>5, <1>6, NextMoves DEF Moves

(***************************************************************************)
(* A payload counted as fresh is at most its counted age plus one fetch    *)
(* old.                                                                    *)
(***************************************************************************)
THEOREM StalenessBounded == Spec => []BoundedStaleness
<1>1. Init => AgeInv
    BY DEF Init, AgeInv, BoundedStaleness
<1>2. TypeOK /\ TypeOK' /\ AgeInv /\ [Next]_vars => AgeInv'
    BY AgeStep
<1>3. AgeInv => BoundedStaleness
    BY DEF AgeInv
<1> QED
    BY <1>1, <1>2, <1>3, TypeCorrect, PTL DEF Spec
=============================================================================
