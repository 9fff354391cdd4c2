-------------------------------- MODULE Pages --------------------------------
(***************************************************************************)
(* The caches between clients and Plex: library pages on disk              *)
(* (library_cache_lookup, library_cache_store, and the policy transforms   *)
(* after them), artwork in memory and on disk (photo_cache_hoop and the    *)
(* handlers of its route), Plex Web assets in memory (serve_web_asset);    *)
(* the warmer that fills the first two, expiry, and the administrator's    *)
(* purges.  Records are written whole or not at all: DiskCache shows it.   *)
(*                                                                         *)
(* A hoop that returns without skip_rest lets the handlers after it run,   *)
(* unless the response has an error status.                                *)
(***************************************************************************)
EXTENDS Naturals, FiniteSets

CONSTANTS
    Requests,   \* request slots
    Inputs,     \* the requests clients send: records of Input
    Accounts,   \* token scopes; Anonymous among them
    Anonymous,
    Public,     \* the owner of what is fetched without a token
    Items,      \* what is asked for: a page by the query that defines it
    Servers,    \* the approved servers, to one of which a request is routed
    Home,       \* the configured one: the warmer and Plex Web use no other
    WarmAccounts,  \* whose tokens the warmer has
    WarmItems,     \* pages of the first 250 items, posters of the hubs
    MaxFiles, MaxImages,  \* how much the disk and PHOTO_CACHE hold
    HeroItems,  \* artwork that names /replex/image/hero
    Policies,
    Raw,        \* not filtered
    Failed, Pending, Nothing

Input == [kind : {"page", "photo", "asset"}, server : Servers, account : Accounts, item : Items,
          shaped : BOOLEAN,  \* asks for fewer fields
          skips : BOOLEAN]   \* Plexamp or Live TV

ASSUME WorldAssumption ==
    /\ Inputs \subseteq Input
    /\ Public \notin Accounts /\ Anonymous \in Accounts
    /\ WarmAccounts \subseteq Accounts \ {Anonymous} /\ WarmItems \subseteq Items
    /\ Raw \notin Policies /\ Home \in Servers

\* "ok" is status 200, "other" any other success; it is told of pages only.
Statuses == {"ok", "other"}

Record == [server : Servers, account : Accounts \cup {Public}, item : Items,
           whole : BOOLEAN, sound : BOOLEAN, status : Statuses]

Key == [class : {"library", "photo"}, scope : Accounts, item : Items]

\* What a client gets: a record, and the policy that filtered it.
Shown == [server : Servers, account : Accounts \cup {Public}, item : Items,
          whole : BOOLEAN, sound : BOOLEAN, status : Statuses, under : Policies \cup {Raw}]

ASSUME MarksAssumption ==
    /\ Nothing \notin Record /\ Nothing \notin [key : Key, record : Record]
    /\ Failed \notin Record /\ Pending \notin Shown /\ Pending # Failed

VARIABLES
    disk,       \* the disk cache, by key
    memory,     \* PHOTO_CACHE
    assets,     \* GLOBAL_CACHE, as far as it holds web assets
    warm,       \* what the warmer has fetched and not stored on disk yet
    pc, req, snap,
    body        \* the body of each response

vars == <<disk, memory, assets, warm, pc, req, snap, body>>

-----------------------------------------------------------------------------
Fault_LibraryKey(account, item) ==
    [class |-> "library", scope |-> Anonymous, item |-> item]

\* Tokens, client noise and field shaping are no part of a key; the scope is.
\* Nor is the server that the request was routed to.
LibraryKey(account, item) == [class |-> "library", scope |-> account, item |-> item]

PhotoKey(account, item) == [class |-> "photo", scope |-> account, item |-> item]

KeyOf(x) == IF x.kind = "page" THEN LibraryKey(x.account, x.item) ELSE PhotoKey(x.account, x.item)

\* normalize_library_fetch asks for all fields, whatever the client asked.
Whole(x) == TRUE

FromPlex(server, account, item, whole, sound, status) ==
    [server |-> server, account |-> account, item |-> item, whole |-> whole, sound |-> sound,
     status |-> status]

\* Without a policy it is shown as it is.
Show(record, under) ==
    [server |-> record.server, account |-> record.account, item |-> record.item,
     whole |-> record.whole, sound |-> record.sound, status |-> record.status, under |-> under]

\* A status is not stored; what a cache has is served with 200.
Stored(record) == [record EXCEPT !.status = "ok"]

\* What becomes of a cache that is given a record: a full one keeps what it
\* has, and makes room by eviction, which may happen at any time.
Keeping(cache, key, record, max) ==
    IF cache[key] # Nothing \/ Cardinality({k \in Key : cache[k] # Nothing}) < max
    THEN [cache EXCEPT ![key] = Stored(record)]
    ELSE cache

Init ==
    /\ disk = [k \in Key |-> Nothing]
    /\ memory = [k \in Key |-> Nothing]
    /\ assets = [i \in Items |-> Nothing]
    /\ warm = Nothing
    /\ pc = [r \in Requests |-> "done"]
    /\ req \in [Requests -> Inputs]
    /\ snap \in [Requests -> Policies]
    /\ body = [r \in Requests |-> Failed]

Goto(r, place) == pc' = [pc EXCEPT ![r] = place]

Caches == <<disk, memory, assets>>

Rest == <<warm, req, snap>>

\* The response is complete.
Reply(r, with) ==
    /\ body' = [body EXCEPT ![r] = with]
    /\ Goto(r, "done")

\* Plex is asked, and the body is what it answers.
Fetch(r, record, place) ==
    /\ body' = [body EXCEPT ![r] = record]
    /\ Goto(r, place)

-----------------------------------------------------------------------------
\* The middlewares take the snapshot of the policy then in force (Access);
\* the router picks the route.
Ask(r, x) ==
    /\ pc[r] = "done"
    /\ req' = [req EXCEPT ![r] = x]
    /\ \E policy \in Policies : snap' = [snap EXCEPT ![r] = policy]
    /\ body' = [body EXCEPT ![r] = Nothing]
    /\ Goto(r, "lookup")
    /\ UNCHANGED <<warm, Caches>>

At(r, kind, place) == pc[r] = place /\ req[r].kind = kind

\* The transforms need a body that parses and a client with a token.
Transforms(r, record) == record.sound /\ req[r].account # Anonymous

Fault_AfterHit == "fetch"

\* library_cache_lookup ends with skip_rest.
AfterHit == "done"

\* A hit is filtered by the policy of the request; one that cannot be
\* transformed is removed first.
PageLookup(r) ==
    /\ At(r, "page", "lookup")
    /\ LET found == disk[KeyOf(req[r])] IN
       CASE found = Nothing -> Goto(r, "fetch") /\ UNCHANGED body
         [] found # Nothing /\ Transforms(r, found) ->
               body' = [body EXCEPT ![r] = Show(found, snap[r])] /\ Goto(r, AfterHit)
         [] found # Nothing /\ ~Transforms(r, found) -> Goto(r, "remove") /\ UNCHANGED body
    /\ UNCHANGED <<Caches, Rest>>

PageRemove(r) ==
    /\ At(r, "page", "remove")
    /\ disk' = [disk EXCEPT ![KeyOf(req[r])] = Nothing]
    /\ Goto(r, "fetch")
    /\ UNCHANGED <<memory, assets, Rest, body>>

\* proxy_for_transform; an error status ends the chain.
PageFetch(r) ==
    /\ At(r, "page", "fetch")
    /\ \/ \E sound \in BOOLEAN, status \in Statuses :
             Fetch(r, FromPlex(req[r].server, req[r].account, req[r].item, Whole(req[r]), sound, status),
                   "store")
       \/ Fetch(r, Failed, "done")
    /\ UNCHANGED <<Caches, Rest>>

\* library_cache_store writes the raw payload of every success, whatever its
\* status.  Writing may fail; an empty body is not written.
PageStore(r) ==
    /\ At(r, "page", "store")
    /\ disk' \in {disk, Keeping(disk, KeyOf(req[r]), body[r], MaxFiles)}
    /\ Goto(r, "transform")
    /\ UNCHANGED <<memory, assets, Rest, body>>

\* transform_policy_response lets everything but 200 pass; of the rest, what
\* cannot be transformed is an error.
PageTransform(r) ==
    /\ At(r, "page", "transform")
    /\ Reply(r, IF body[r].status # "ok" THEN Show(body[r], Raw)
                ELSE IF Transforms(r, body[r]) THEN Show(body[r], snap[r])
                ELSE Failed)
    /\ UNCHANGED <<Caches, Rest>>

-----------------------------------------------------------------------------
Artwork(r, sound) == FromPlex(req[r].server, req[r].account, req[r].item, TRUE, sound, "ok")

\* Plexamp and Live TV are proxied, and that is the end of it.
PhotoSkip(r) ==
    /\ At(r, "photo", "lookup") /\ req[r].skips
    /\ \E with \in {Failed} \cup {Show(Artwork(r, sound), Raw) : sound \in BOOLEAN} :
          Fetch(r, with, "done")
    /\ UNCHANGED <<Caches, Rest>>

PhotoDiskLookup(r) ==
    /\ At(r, "photo", "lookup") /\ ~req[r].skips
    /\ LET found == disk[KeyOf(req[r])] IN
       IF found = Nothing THEN Goto(r, "memory") /\ UNCHANGED body
       ELSE body' = [body EXCEPT ![r] = found] /\ Goto(r, "resolve")
    /\ UNCHANGED <<Caches, Rest>>

PhotoMemoryLookup(r) ==
    /\ At(r, "photo", "memory")
    /\ LET found == memory[KeyOf(req[r])] IN
       IF found = Nothing THEN Goto(r, "fetch") /\ UNCHANGED body
       ELSE body' = [body EXCEPT ![r] = found] /\ Goto(r, "resolve")
    /\ UNCHANGED <<Caches, Rest>>

Fault_AfterStream == "keep"

AfterStream == "resolve"

\* An answer that is no image is left in place, a streamed one is dropped;
\* only a buffered image goes on to the caches.
PhotoFetch(r) ==
    /\ At(r, "photo", "fetch")
    /\ \/ Fetch(r, Failed, "done")
       \/ Fetch(r, Artwork(r, FALSE), "resolve")
       \/ Fetch(r, Nothing, AfterStream)
       \/ Fetch(r, Artwork(r, TRUE), "keep")
    /\ UNCHANGED <<Caches, Rest>>

PhotoKeep(r) ==
    /\ At(r, "photo", "keep")
    /\ memory' = Keeping(memory, KeyOf(req[r]), body[r], MaxImages)
    /\ Goto(r, "store")
    /\ UNCHANGED <<disk, assets, Rest, body>>

PhotoStore(r) ==
    /\ At(r, "photo", "store")
    /\ disk' \in {disk, Keeping(disk, KeyOf(req[r]), body[r], MaxFiles)}
    /\ Goto(r, "resolve")
    /\ UNCHANGED <<memory, assets, Rest, body>>

\* resolve_local_media_path: hero artwork is looked up with a token only.
PhotoResolve(r) ==
    /\ At(r, "photo", "resolve")
    /\ IF req[r].item \in HeroItems /\ req[r].account = Anonymous
       THEN Reply(r, Failed)
       ELSE Goto(r, "proxy") /\ UNCHANGED body
    /\ UNCHANGED <<Caches, Rest>>

\* proxy_request, the goal of the route: over whatever the body was.
PhotoProxy(r) ==
    /\ At(r, "photo", "proxy")
    /\ \E with \in {Failed} \cup {Show(Artwork(r, sound), Raw) : sound \in BOOLEAN} :
          Fetch(r, with, "done")
    /\ UNCHANGED <<Caches, Rest>>

-----------------------------------------------------------------------------
AssetLookup(r) ==
    /\ At(r, "asset", "lookup")
    /\ LET found == assets[req[r].item] IN
       IF found = Nothing THEN Goto(r, "fetch") /\ UNCHANGED body
       ELSE Reply(r, Show(found, Raw))
    /\ UNCHANGED <<Caches, Rest>>

\* fetch_upstream: anything but 200 becomes 502.
AssetFetch(r) ==
    /\ At(r, "asset", "fetch")
    /\ \/ Fetch(r, FromPlex(Home, Public, req[r].item, TRUE, TRUE, "ok"), "store")
       \/ Fetch(r, Failed, "done")
    /\ UNCHANGED <<Caches, Rest>>

AssetStore(r) ==
    /\ At(r, "asset", "store")
    /\ assets' = [assets EXCEPT ![req[r].item] = body[r]]
    /\ Reply(r, Show(body[r], Raw))
    /\ UNCHANGED <<disk, memory, Rest>>

\* The handler is dropped at an await: the client is gone.
Drop(r) ==
    /\ pc[r] # "done"
    /\ Reply(r, Failed)
    /\ UNCHANGED <<Caches, Rest>>

-----------------------------------------------------------------------------
(***************************************************************************)
(* The warmer, one item at a time with the token of the account it warms:  *)
(* a page the disk does not have, artwork the memory does not have.  It    *)
(* stores nothing but answers of status 200.                               *)
(***************************************************************************)
Warming(key, record) == [key |-> key, record |-> record]

WarmPage(a, i) ==
    /\ warm = Nothing /\ disk[LibraryKey(a, i)] = Nothing
    /\ \E sound \in BOOLEAN : warm' = Warming(LibraryKey(a, i), FromPlex(Home, a, i, TRUE, sound, "ok"))
    /\ UNCHANGED <<Caches, pc, req, snap, body>>

WarmPhoto(a, i) ==
    /\ warm = Nothing /\ memory[PhotoKey(a, i)] = Nothing
    /\ warm' = Warming(PhotoKey(a, i), FromPlex(Home, a, i, TRUE, TRUE, "ok"))
    /\ memory' = Keeping(memory, PhotoKey(a, i), FromPlex(Home, a, i, TRUE, TRUE, "ok"), MaxImages)
    /\ UNCHANGED <<disk, assets, pc, req, snap, body>>

WarmStore ==
    /\ warm # Nothing
    /\ disk' \in {disk, Keeping(disk, warm.key, warm.record, MaxFiles)}
    /\ warm' = Nothing
    /\ UNCHANGED <<memory, assets, pc, req, snap, body>>

-----------------------------------------------------------------------------
\* Eviction, expiry, and cache_purge, which is a sequence of these.
ForgetDisk(k) ==
    /\ disk[k] # Nothing
    /\ disk' = [disk EXCEPT ![k] = Nothing]
    /\ UNCHANGED <<memory, assets, warm, pc, req, snap, body>>

ForgetPhoto(k) ==
    /\ memory[k] # Nothing
    /\ memory' = [memory EXCEPT ![k] = Nothing]
    /\ UNCHANGED <<disk, assets, warm, pc, req, snap, body>>

ForgetAsset(i) ==
    /\ assets[i] # Nothing
    /\ assets' = [assets EXCEPT ![i] = Nothing]
    /\ UNCHANGED <<disk, memory, warm, pc, req, snap, body>>

RequestStep(r) ==
    \/ \E x \in Inputs : Ask(r, x)
    \/ PageLookup(r) \/ PageRemove(r) \/ PageFetch(r) \/ PageStore(r) \/ PageTransform(r)
    \/ PhotoSkip(r) \/ PhotoDiskLookup(r) \/ PhotoMemoryLookup(r) \/ PhotoFetch(r)
    \/ PhotoKeep(r) \/ PhotoStore(r) \/ PhotoResolve(r) \/ PhotoProxy(r)
    \/ AssetLookup(r) \/ AssetFetch(r) \/ AssetStore(r)
    \/ Drop(r)

Next ==
    \/ \E r \in Requests : RequestStep(r)
    \/ \E a \in WarmAccounts, i \in WarmItems : WarmPage(a, i) \/ WarmPhoto(a, i)
    \/ WarmStore
    \/ \E k \in Key : ForgetDisk(k) \/ ForgetPhoto(k)
    \/ \E i \in Items : ForgetAsset(i)

Spec == Init /\ [][Next]_vars

-----------------------------------------------------------------------------
Places == {"lookup", "remove", "memory", "fetch", "keep", "store", "transform", "resolve",
           "proxy", "done"}

\* The shape of the state: what is to be stored or transformed is a record.
TypeOK ==
    /\ disk \in [Key -> Record \cup {Nothing}] /\ memory \in [Key -> Record \cup {Nothing}]
    /\ assets \in [Items -> Record \cup {Nothing}]
    /\ warm \in [key : Key, record : Record] \cup {Nothing}
    /\ pc \in [Requests -> Places] /\ req \in [Requests -> Inputs]
    /\ snap \in [Requests -> Policies]
    /\ body \in [Requests -> Record \cup Shown \cup {Nothing, Failed}]
    /\ \A r \in Requests :
          /\ pc[r] \in {"keep", "store", "transform"} => body[r] \in Record
          /\ pc[r] = "done" => body[r] \in Shown \cup {Failed}

(***************************************************************************)
(* The caches cannot be told from Plex (FEATURES.md:150 to :153): whatever *)
(* was warmed, stored, evicted or purged by whom, an answer is the         *)
(* account's own, in full, under its own snapshot of the policy; or it is  *)
(* a page of another status than 200, as the server sent it.  A page may   *)
(* be that of any approved server: with one server it is the one asked.    *)
(***************************************************************************)
Direct == INSTANCE DirectService
          WITH answer <- [r \in Requests |-> IF pc[r] = "done" THEN body[r] ELSE Pending]

AnswersDirectly == Direct!Spec

(***************************************************************************)
(* A request never asks Plex for what it already has: a page or an asset   *)
(* the cache had is the answer, and nothing is fetched twice.              *)
(***************************************************************************)
OneSource ==
    \A r \in Requests :
        pc[r] = "fetch" => body[r] = Nothing

-----------------------------------------------------------------------------
\* "Cache-aside layer for /photo/:/transcode responses" (routes.rs:784):
\* artwork that a cache had is the answer.
PhotoHitsAnswer ==
    [][\A r \in Requests :
          req[r].kind = "photo" /\ pc[r] \in {"lookup", "memory"} /\ body'[r] # Nothing
              => pc'[r] = "done"]_vars
=============================================================================
