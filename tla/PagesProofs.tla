------------------------------ MODULE PagesProofs ------------------------------
(***************************************************************************)
(* Proofs about Pages, for every set of requests, accounts, items and      *)
(* policies and every size of the caches.                                  *)
(***************************************************************************)
EXTENDS Pages, TLAPS

\* Every entry was fetched for the scope and the item of its key, in full.
Own(record, account, item) ==
    record.account = account /\ record.item = item /\ record.whole = TRUE

\* Its status is not kept; the server is any.
AllOwn(cache) ==
    \A k \in Key : cache[k] # Nothing => Own(cache[k], k.scope, k.item) /\ cache[k].status = "ok"

EntriesOwn ==
    /\ AllOwn(disk) /\ AllOwn(memory)
    /\ \A i \in Items : assets[i] # Nothing =>
          /\ Own(assets[i], Public, i) /\ assets[i].sound = TRUE
          /\ assets[i].server = Home /\ assets[i].status = "ok"
    /\ warm # Nothing => Own(warm.record, warm.key.scope, warm.key.item)

OwnerOf(x) == IF x.kind = "asset" THEN Public ELSE x.account

ServerOf(x) == IF x.kind = "asset" THEN Home ELSE x.server

\* What has just come from Plex, from the server that was asked, and counts
\* as an answer to x.
Fresh(record, x) ==
    /\ Own(record, OwnerOf(x), x.item)
    /\ record.server = ServerOf(x)
    /\ x.kind = "asset" => record.sound = TRUE /\ record.status = "ok"

\* A body is that on its way to a photo cache, to the disk, or to the transforms.
BodyOwn(r) ==
    pc[r] \in {"keep", "store", "transform"} => Fresh(body[r], req[r])

BodiesOwn == \A r \in Requests : BodyOwn(r)

Empty == {"lookup", "remove", "memory", "fetch"}

\* Before Plex is asked there is no body: NothingYet, and what it rests on.
NothingYet == \A r \in Requests : pc[r] \in Empty => body[r] = Nothing

IInv == TypeOK /\ NothingYet /\ EntriesOwn /\ BodiesOwn

CacheType == [Key -> Record \cup {Nothing}]

-----------------------------------------------------------------------------
(***************************************************************************)
(* Keys, records and caches.                                               *)
(***************************************************************************)
LEMMA KeyFacts ==
    ASSUME NEW x \in Inputs
    PROVE  /\ KeyOf(x) \in Key /\ KeyOf(x).scope = x.account /\ KeyOf(x).item = x.item
           /\ x.account \in Accounts /\ x.item \in Items
           /\ x.kind \in {"page", "photo", "asset"} /\ x.server \in Servers
BY WorldAssumption DEF KeyOf, LibraryKey, PhotoKey, Key, Input

LEMMA FromPlexType ==
    ASSUME NEW v \in Servers, NEW a \in Accounts \cup {Public}, NEW i \in Items,
           NEW w \in BOOLEAN, NEW s \in BOOLEAN, NEW t \in Statuses
    PROVE  FromPlex(v, a, i, w, s, t) \in Record
BY DEF FromPlex, Record

LEMMA FromPlexOwn ==
    ASSUME NEW v, NEW a, NEW i, NEW s, NEW t
    PROVE  /\ Own(FromPlex(v, a, i, TRUE, s, t), a, i)
           /\ FromPlex(v, a, i, TRUE, s, t).sound = s
           /\ FromPlex(v, a, i, TRUE, s, t).server = v
           /\ FromPlex(v, a, i, TRUE, s, t).status = t
BY DEF FromPlex, Own

LEMMA ShowType ==
    ASSUME NEW record \in Record, NEW under \in Policies \cup {Raw}
    PROVE  Show(record, under) \in Shown
BY DEF Show, Record, Shown

\* A record that is put into a cache of own records leaves only such.
LEMMA KeepingCorrect ==
    ASSUME NEW cache \in CacheType, NEW key \in Key, NEW record \in Record, NEW max
    PROVE  /\ Keeping(cache, key, record, max) \in CacheType
           /\ AllOwn(cache) /\ Own(record, key.scope, key.item)
                 => AllOwn(Keeping(cache, key, record, max))
<1> DEFINE with == [cache EXCEPT ![key] = Stored(record)]
<1>0. Stored(record) \in Record /\ Stored(record).status = "ok"
      /\ \A a, i : Own(record, a, i) => Own(Stored(record), a, i)
    BY DEF Stored, Record, Own, Statuses
<1>1. with \in CacheType
    BY <1>0 DEF CacheType
<1>2. AllOwn(cache) /\ Own(record, key.scope, key.item) => AllOwn(with)
    BY <1>0 DEF AllOwn, CacheType
<1>3. Keeping(cache, key, record, max) \in {cache, with}
    BY DEF Keeping
<1> QED
    BY <1>1, <1>2, <1>3

-----------------------------------------------------------------------------
(***************************************************************************)
(* The invariant.  A step of a request changes its own slot, its key and   *)
(* its asset; Slot says what has to be shown of the slot.                  *)
(***************************************************************************)
Slot(r) ==
    /\ pc[r] \in Places /\ req[r] \in Inputs /\ snap[r] \in Policies
    /\ body[r] \in Record \cup Shown \cup {Nothing, Failed}
    /\ pc[r] \in {"keep", "store", "transform"} => body[r] \in Record
    /\ pc[r] = "done" => body[r] \in Shown \cup {Failed}
    /\ pc[r] \in Empty => body[r] = Nothing
    /\ BodyOwn(r)

\* The functions of the state, without what Slot says of their values.
Functions == /\ pc = [r \in Requests |-> pc[r]] /\ req = [r \in Requests |-> req[r]]
             /\ snap = [r \in Requests |-> snap[r]] /\ body = [r \in Requests |-> body[r]]

Stores == /\ disk \in CacheType /\ memory \in CacheType
          /\ assets \in [Items -> Record \cup {Nothing}]
          /\ warm \in [key : Key, record : Record] \cup {Nothing}
          /\ EntriesOwn

LEMMA InvParts == IInv <=> Functions /\ Stores /\ \A r \in Requests : Slot(r)
<1>1. IInv => Functions /\ Stores /\ \A r \in Requests : Slot(r)
    BY DEF IInv, TypeOK, NothingYet, BodiesOwn, Functions, Stores, Slot, CacheType
<1>2. ASSUME Functions, Stores, \A r \in Requests : Slot(r) PROVE IInv
    BY <1>2 DEF IInv, TypeOK, NothingYet, BodiesOwn, Functions, Stores, Slot, CacheType
<1> QED
    BY <1>1, <1>2

\* A slot that a step leaves alone stays as it is.
LEMMA SlotKept ==
    ASSUME NEW s, Slot(s), pc'[s] = pc[s], req'[s] = req[s], snap'[s] = snap[s], body'[s] = body[s]
    PROVE  Slot(s)'
BY DEF Slot, BodyOwn, Fresh, Own, OwnerOf, ServerOf

\* A step of r that moves r to a place with a body.
Moves(r, place, with) ==
    /\ pc' = [pc EXCEPT ![r] = place] /\ body' = [body EXCEPT ![r] = with]
    /\ UNCHANGED <<req, snap>>

\* What a place asks of the body.
Fits(x, place, with) ==
    /\ with \in Record \cup Shown \cup {Nothing, Failed}
    /\ place \in {"keep", "store", "transform"} =>
          with \in Record /\ Fresh(with, x)
    /\ place = "done" => with \in Shown \cup {Failed}
    /\ place \in Empty => with = Nothing

LEMMA MovesCorrect ==
    ASSUME IInv, NEW r \in Requests, NEW place \in Places, NEW with,
           Moves(r, place, with), Fits(req[r], place, with), Stores'
    PROVE  IInv'
<1> USE InvParts
<1>1. Functions'
    BY DEF Moves, Functions
<1>2. Slot(r)'
    BY DEF Moves, Functions, Slot, Fits, BodyOwn
<1>3. ASSUME NEW s \in Requests, s # r PROVE Slot(s)'
    BY <1>3, SlotKept DEF Moves, Functions
<1>4. (\A s \in Requests : Slot(s))'
    BY <1>2, <1>3
<1> QED
    BY <1>1, <1>4 DEF IInv, TypeOK, NothingYet, BodiesOwn, Functions, Stores, Slot, CacheType

\* A step of the warmer or of the caches.
LEMMA StoresCorrect ==
    ASSUME IInv, UNCHANGED <<pc, req, snap, body>>, Stores'
    PROVE  IInv'
BY DEF IInv, TypeOK, NothingYet, BodiesOwn, BodyOwn, Fresh, Own, OwnerOf, ServerOf, Stores, CacheType

LEMMA StoresSame ==
    ASSUME IInv, UNCHANGED <<disk, memory, assets, warm>>
    PROVE  Stores'
BY InvParts DEF Stores, EntriesOwn, AllOwn, Own, CacheType

LEMMA DiskStores ==
    ASSUME IInv, disk' \in CacheType, AllOwn(disk)', UNCHANGED <<memory, assets, warm>>
    PROVE  Stores'
BY InvParts DEF Stores, EntriesOwn, AllOwn, Own, CacheType

LEMMA MemoryStores ==
    ASSUME IInv, memory' \in CacheType, AllOwn(memory)', UNCHANGED <<disk, assets, warm>>
    PROVE  Stores'
BY InvParts DEF Stores, EntriesOwn, AllOwn, Own, CacheType

-----------------------------------------------------------------------------
LEMMA InitInv == Init => IInv
BY MarksAssumption
   DEF Init, IInv, TypeOK, NothingYet, EntriesOwn, AllOwn, BodiesOwn, BodyOwn, Places, Empty

LEMMA AskInv ==
    ASSUME IInv, NEW r \in Requests, NEW x \in Inputs, Ask(r, x)
    PROVE  IInv'
<1>1. Stores'
    BY StoresSame DEF Ask, Caches
<1>2. Slot(r)'
    BY DEF Ask, Goto, Slot, BodyOwn, Places, Empty, IInv, TypeOK
<1>3. ASSUME NEW s \in Requests, s # r PROVE Slot(s)'
    BY <1>3, SlotKept, InvParts DEF Ask, Goto, Functions
<1>4. (\A s \in Requests : Slot(s))'
    BY <1>2, <1>3
<1>5. Functions'
    BY DEF Ask, Goto, Functions, IInv, TypeOK
<1> QED
    BY <1>1, <1>4, <1>5
       DEF IInv, TypeOK, NothingYet, BodiesOwn, Functions, Stores, Slot, CacheType

\* What a step of r knows of r.
LEMMA Known ==
    ASSUME IInv, NEW r \in Requests
    PROVE  /\ req[r] \in Inputs /\ snap[r] \in Policies /\ Slot(r) /\ Functions /\ Stores
           /\ KeyOf(req[r]) \in Key /\ KeyOf(req[r]).scope = req[r].account
           /\ KeyOf(req[r]).item = req[r].item
           /\ req[r].account \in Accounts /\ req[r].item \in Items /\ req[r].server \in Servers
           /\ disk[KeyOf(req[r])] \in Record \cup {Nothing}
           /\ memory[KeyOf(req[r])] \in Record \cup {Nothing}
           /\ assets[req[r].item] \in Record \cup {Nothing}
BY KeyFacts, InvParts DEF IInv, TypeOK

\* A body that is not yet, or not any more, bound for a cache may move on.
LEMMA GotoCorrect ==
    ASSUME IInv, NEW r \in Requests, NEW place \in Places \ {"done"},
           Goto(r, place), UNCHANGED <<body, req, snap>>, Stores',
           place \in {"keep", "store", "transform"} => pc[r] \in {"keep", "store", "transform"},
           place \in Empty => pc[r] \in Empty
    PROVE  IInv'
<1>1. Moves(r, place, body[r])
    <2>1. Functions
        BY InvParts
    <2> QED
        BY <2>1 DEF Goto, Moves, Functions
<1>2. Fits(req[r], place, body[r])
    BY Known DEF Fits, Slot, BodyOwn
<1> QED
    BY <1>1, <1>2, MovesCorrect

\* What Plex answers for the request fits every place that wants a record.
LEMMA FetchCorrect ==
    ASSUME IInv, NEW r \in Requests, NEW sound \in BOOLEAN, NEW status \in Statuses,
           NEW place \in Places \ (Empty \cup {"done"}),
           Fetch(r, FromPlex(ServerOf(req[r]), OwnerOf(req[r]), req[r].item, TRUE, sound, status), place),
           UNCHANGED <<disk, memory, assets, warm, req, snap>>,
           req[r].kind = "asset" => sound = TRUE /\ status = "ok"
    PROVE  IInv'
<1> DEFINE record == FromPlex(ServerOf(req[r]), OwnerOf(req[r]), req[r].item, TRUE, sound, status)
<1>0. /\ ServerOf(req[r]) \in Servers /\ OwnerOf(req[r]) \in Accounts \cup {Public}
      /\ req[r].item \in Items
    BY Known, WorldAssumption DEF OwnerOf, ServerOf
<1>1. record \in Record /\ Fresh(record, req[r])
    <2>1. record \in Record
        BY ONLY <1>0, sound \in BOOLEAN, status \in Statuses, FromPlexType, TRUE \in BOOLEAN, Zenon
    <2>2. /\ Own(record, OwnerOf(req[r]), req[r].item) /\ record.sound = sound
          /\ record.server = ServerOf(req[r]) /\ record.status = status
        BY DEF FromPlex, Own
    <2> QED
        BY <2>1, <2>2 DEF Fresh
<1>2. Moves(r, place, record)
    BY DEF Fetch, Goto, Moves
<1>3. Fits(req[r], place, record)
    BY <1>1 DEF Fits
<1> QED
    BY <1>2, <1>3, MovesCorrect, StoresSame

\* An answer.
LEMMA ReplyCorrect ==
    ASSUME IInv, NEW r \in Requests, NEW with \in Shown \cup {Failed},
           Reply(r, with), UNCHANGED <<req, snap>>, Stores'
    PROVE  IInv'
<1>1. Moves(r, "done", with) /\ "done" \in Places
    BY DEF Reply, Goto, Moves, Places
<1>2. Fits(req[r], "done", with)
    BY DEF Fits, Empty
<1> QED
    BY <1>1, <1>2, MovesCorrect

-----------------------------------------------------------------------------
LEMMA PageLookupInv ==
    ASSUME IInv, NEW r \in Requests, PageLookup(r)
    PROVE  IInv'
<1> DEFINE found == disk[KeyOf(req[r])]
<1>1. Stores'
    BY StoresSame DEF PageLookup, Caches, Rest
<1>2. CASE found = Nothing
    BY <1>1, <1>2, GotoCorrect DEF PageLookup, At, Places, Empty, Rest
<1>3. CASE found # Nothing /\ Transforms(r, found)
    <2>1. Reply(r, Show(found, snap[r])) /\ Show(found, snap[r]) \in Shown
        BY <1>3, Known, ShowType DEF PageLookup, AfterHit, Reply
    <2> QED
        BY <1>1, <2>1, ReplyCorrect DEF PageLookup, Rest
<1>4. CASE found # Nothing /\ ~Transforms(r, found)
    BY <1>1, <1>4, GotoCorrect DEF PageLookup, At, Places, Empty, Rest
<1> QED
    BY <1>2, <1>3, <1>4

LEMMA PageRemoveInv ==
    ASSUME IInv, NEW r \in Requests, PageRemove(r)
    PROVE  IInv'
<1>1. disk' \in CacheType /\ AllOwn(disk)'
    BY Known DEF PageRemove, Stores, CacheType, EntriesOwn, AllOwn
<1>2. Stores'
    BY <1>1, DiskStores DEF PageRemove, Rest
<1> QED
    BY <1>2, GotoCorrect DEF PageRemove, At, Places, Empty, Rest

LEMMA PageFetchInv ==
    ASSUME IInv, NEW r \in Requests, PageFetch(r)
    PROVE  IInv'
<1>1. CASE Fetch(r, Failed, "done")
    BY <1>1, ReplyCorrect, StoresSame DEF PageFetch, Fetch, Reply, Caches, Rest
<1>2. ASSUME NEW sound \in BOOLEAN, NEW status \in Statuses,
             Fetch(r, FromPlex(req[r].server, req[r].account, req[r].item, Whole(req[r]), sound, status),
                   "store")
      PROVE  IInv'
    <2>1. Fetch(r, FromPlex(ServerOf(req[r]), OwnerOf(req[r]), req[r].item, TRUE, sound, status),
                "store") /\ req[r].kind # "asset"
        BY <1>2 DEF PageFetch, At, Whole, OwnerOf, ServerOf
    <2> QED
        BY <2>1, FetchCorrect DEF PageFetch, Places, Empty, Caches, Rest
<1> QED
    BY <1>1, <1>2 DEF PageFetch

\* The body of a page or of an image goes to the disk under its own key.
LEMMA DiskWrite ==
    ASSUME IInv, NEW r \in Requests, pc[r] = "store", req[r].kind # "asset",
           disk' \in {disk, Keeping(disk, KeyOf(req[r]), body[r], MaxFiles)},
           UNCHANGED <<memory, assets, warm>>
    PROVE  Stores'
<1>1. body[r] \in Record /\ Own(body[r], req[r].account, req[r].item)
    BY Known DEF Slot, BodyOwn, Fresh, OwnerOf
<1>2. disk \in CacheType /\ AllOwn(disk)
    BY Known DEF Stores, EntriesOwn
<1>3. disk' \in CacheType /\ AllOwn(disk')
    BY <1>1, <1>2, Known, KeepingCorrect
<1> QED
    BY <1>3, DiskStores DEF AllOwn

LEMMA PageStoreInv ==
    ASSUME IInv, NEW r \in Requests, PageStore(r)
    PROVE  IInv'
<1>1. Stores'
    BY DiskWrite DEF PageStore, At, Rest
<1> QED
    BY <1>1, GotoCorrect DEF PageStore, At, Places, Empty, Rest

LEMMA PageTransformInv ==
    ASSUME IInv, NEW r \in Requests, PageTransform(r)
    PROVE  IInv'
<1>1. body[r] \in Record
    BY Known DEF PageTransform, At, Slot
<1>2. Show(body[r], Raw) \in Shown /\ Show(body[r], snap[r]) \in Shown
    BY <1>1, Known, ShowType
<1>3. PICK with \in Shown \cup {Failed} : Reply(r, with)
    BY <1>2 DEF PageTransform
<1> QED
    BY <1>3, ReplyCorrect, StoresSame DEF PageTransform, Caches, Rest

-----------------------------------------------------------------------------
LEMMA ArtworkFacts ==
    ASSUME IInv, NEW r \in Requests, req[r].kind = "photo", NEW sound \in BOOLEAN
    PROVE  /\ Artwork(r, sound)
                 = FromPlex(ServerOf(req[r]), OwnerOf(req[r]), req[r].item, TRUE, sound, "ok")
           /\ "ok" \in Statuses
           /\ Show(Artwork(r, sound), Raw) \in Shown
<1>1. Artwork(r, sound) = FromPlex(req[r].server, req[r].account, req[r].item, TRUE, sound, "ok")
    BY DEF Artwork
<1>2. "ok" \in Statuses
    BY DEF Statuses
<1>3. Artwork(r, sound) \in Record
    <2>1. req[r].server \in Servers /\ req[r].account \in Accounts \cup {Public} /\ req[r].item \in Items
        BY Known
    <2> QED
        BY <1>1, <1>2, <2>1 DEF FromPlex, Record
<1> QED
    BY <1>1, <1>2, <1>3, ShowType DEF ServerOf, OwnerOf

LEMMA ProxyInv ==
    ASSUME IInv, NEW r \in Requests, PhotoSkip(r) \/ PhotoProxy(r)
    PROVE  IInv'
<1>1. PICK with \in {Failed} \cup {Show(Artwork(r, sound), Raw) : sound \in BOOLEAN} :
          Fetch(r, with, "done")
    BY DEF PhotoSkip, PhotoProxy
<1>2. with \in Shown \cup {Failed} /\ Reply(r, with)
    BY <1>1, ArtworkFacts DEF PhotoSkip, PhotoProxy, At, Fetch, Reply
<1> QED
    BY <1>2, ReplyCorrect, StoresSame DEF PhotoSkip, PhotoProxy, Caches, Rest

LEMMA PhotoHitInv ==
    ASSUME IInv, NEW r \in Requests, PhotoDiskLookup(r) \/ PhotoMemoryLookup(r)
    PROVE  IInv'
<1>1. Stores' /\ UNCHANGED <<req, snap>>
    BY StoresSame DEF PhotoDiskLookup, PhotoMemoryLookup, Caches, Rest
<1>2. CASE UNCHANGED body
    <2>1. PICK place \in {"memory", "fetch", "resolve"} : Goto(r, place)
        BY DEF PhotoDiskLookup, PhotoMemoryLookup
    <2>2. pc[r] \in {"lookup", "memory"}
        BY DEF PhotoDiskLookup, PhotoMemoryLookup, At
    <2> QED
        BY <1>1, <1>2, <2>1, <2>2, GotoCorrect DEF Places, Empty
<1>3. ASSUME NEW found \in Record, body' = [body EXCEPT ![r] = found], Goto(r, "resolve")
      PROVE  IInv'
    <2>1. Moves(r, "resolve", found) /\ "resolve" \in Places /\ Fits(req[r], "resolve", found)
        BY <1>1, <1>3 DEF Goto, Moves, Fits, Places, Empty
    <2> QED
        BY <1>1, <2>1, MovesCorrect
<1>4. \/ UNCHANGED body
      \/ \E found \in Record : body' = [body EXCEPT ![r] = found] /\ Goto(r, "resolve")
    BY Known DEF PhotoDiskLookup, PhotoMemoryLookup
<1> QED
    BY <1>2, <1>3, <1>4

LEMMA PhotoFetchInv ==
    ASSUME IInv, NEW r \in Requests, PhotoFetch(r)
    PROVE  IInv'
<1>1. req[r].kind = "photo" /\ UNCHANGED <<disk, memory, assets, warm, req, snap>> /\ Stores'
    BY StoresSame DEF PhotoFetch, At, Caches, Rest
<1>2. CASE Fetch(r, Failed, "done")
    BY <1>1, <1>2, ReplyCorrect DEF Fetch, Reply
<1>3. CASE Fetch(r, Artwork(r, FALSE), "resolve")
    BY <1>1, <1>3, ArtworkFacts, FetchCorrect DEF Places, Empty
<1>4. CASE Fetch(r, Nothing, AfterStream)
    <2>1. /\ Moves(r, "resolve", Nothing) /\ "resolve" \in Places
          /\ Fits(req[r], "resolve", Nothing)
        BY <1>1, <1>4 DEF Fetch, Goto, Moves, Fits, Places, Empty, AfterStream
    <2> QED
        BY <1>1, <2>1, MovesCorrect
<1>5. CASE Fetch(r, Artwork(r, TRUE), "keep")
    BY <1>1, <1>5, ArtworkFacts, FetchCorrect DEF Places, Empty
<1> QED
    BY <1>2, <1>3, <1>4, <1>5 DEF PhotoFetch

LEMMA PhotoKeepInv ==
    ASSUME IInv, NEW r \in Requests, PhotoKeep(r)
    PROVE  IInv'
<1>1. body[r] \in Record /\ Own(body[r], req[r].account, req[r].item)
    BY Known DEF PhotoKeep, At, Slot, BodyOwn, Fresh, OwnerOf
<1>2. memory \in CacheType /\ AllOwn(memory)
    BY Known DEF Stores, EntriesOwn
<1>3. memory' \in CacheType /\ AllOwn(memory')
    BY <1>1, <1>2, Known, KeepingCorrect DEF PhotoKeep
<1>4. Stores'
    BY <1>3, MemoryStores DEF AllOwn, PhotoKeep, Rest
<1> QED
    BY <1>4, GotoCorrect DEF PhotoKeep, At, Places, Empty, Rest

LEMMA PhotoStoreInv ==
    ASSUME IInv, NEW r \in Requests, PhotoStore(r)
    PROVE  IInv'
<1>1. Stores'
    BY DiskWrite DEF PhotoStore, At, Rest
<1> QED
    BY <1>1, GotoCorrect DEF PhotoStore, At, Places, Empty, Rest

LEMMA PhotoResolveInv ==
    ASSUME IInv, NEW r \in Requests, PhotoResolve(r)
    PROVE  IInv'
<1>1. Stores' /\ UNCHANGED <<req, snap>>
    BY StoresSame DEF PhotoResolve, Caches, Rest
<1>2. CASE Reply(r, Failed)
    BY <1>1, <1>2, ReplyCorrect
<1>3. CASE Goto(r, "proxy") /\ UNCHANGED body
    BY <1>1, <1>3, GotoCorrect DEF Places, Empty
<1> QED
    BY <1>2, <1>3 DEF PhotoResolve

-----------------------------------------------------------------------------
LEMMA AssetLookupInv ==
    ASSUME IInv, NEW r \in Requests, AssetLookup(r)
    PROVE  IInv'
<1> DEFINE found == assets[req[r].item]
<1>1. Stores' /\ UNCHANGED <<req, snap>>
    BY StoresSame DEF AssetLookup, Caches, Rest
<1>2. CASE found = Nothing
    BY <1>1, <1>2, GotoCorrect DEF AssetLookup, At, Places, Empty
<1>3. CASE found # Nothing
    BY <1>1, <1>3, Known, ShowType, ReplyCorrect DEF AssetLookup
<1> QED
    BY <1>2, <1>3

LEMMA AssetFetchInv ==
    ASSUME IInv, NEW r \in Requests, AssetFetch(r)
    PROVE  IInv'
<1>1. CASE Fetch(r, Failed, "done")
    BY <1>1, ReplyCorrect, StoresSame DEF AssetFetch, Fetch, Reply, Caches, Rest
<1>2. CASE Fetch(r, FromPlex(Home, Public, req[r].item, TRUE, TRUE, "ok"), "store")
    <2>1. Fetch(r, FromPlex(ServerOf(req[r]), OwnerOf(req[r]), req[r].item, TRUE, TRUE, "ok"), "store")
        BY <1>2 DEF AssetFetch, At, OwnerOf, ServerOf
    <2> QED
        BY <2>1, FetchCorrect DEF AssetFetch, Places, Empty, Statuses, Caches, Rest
<1> QED
    BY <1>1, <1>2 DEF AssetFetch

LEMMA AssetStoreInv ==
    ASSUME IInv, NEW r \in Requests, AssetStore(r)
    PROVE  IInv'
<1>1. /\ body[r] \in Record /\ Own(body[r], Public, req[r].item) /\ body[r].sound = TRUE
      /\ body[r].server = Home /\ body[r].status = "ok" /\ req[r].item \in Items
    BY Known DEF AssetStore, At, Slot, BodyOwn, Fresh, OwnerOf, ServerOf
<1>2. Stores'
    BY <1>1, Known DEF AssetStore, Rest, Stores, EntriesOwn, AllOwn, Own, CacheType
<1> QED
    BY <1>1, <1>2, Known, ShowType, ReplyCorrect DEF AssetStore, Rest

LEMMA DropInv ==
    ASSUME IInv, NEW r \in Requests, Drop(r)
    PROVE  IInv'
BY ReplyCorrect, StoresSame DEF Drop, Caches, Rest

-----------------------------------------------------------------------------
LEMMA WarmInv ==
    ASSUME IInv, NEW a \in WarmAccounts, NEW i \in WarmItems, WarmPage(a, i) \/ WarmPhoto(a, i)
    PROVE  IInv'
<1>1. a \in Accounts /\ i \in Items /\ Stores /\ Home \in Servers /\ "ok" \in Statuses
    BY WorldAssumption, InvParts DEF Statuses
<1>2. UNCHANGED <<pc, req, snap, body>>
    BY DEF WarmPage, WarmPhoto
<1>3. CASE WarmPage(a, i)
    <2>1. PICK sound \in BOOLEAN :
              warm' = Warming(LibraryKey(a, i), FromPlex(Home, a, i, TRUE, sound, "ok"))
        BY <1>3 DEF WarmPage
    <2>2. /\ LibraryKey(a, i) \in Key /\ LibraryKey(a, i).scope = a /\ LibraryKey(a, i).item = i
        BY <1>1 DEF LibraryKey, Key
    <2>3. FromPlex(Home, a, i, TRUE, sound, "ok") \in Record /\ Own(FromPlex(Home, a, i, TRUE, sound, "ok"), a, i)
        BY <1>1, FromPlexType, FromPlexOwn
    <2>4. warm' \in [key : Key, record : Record] /\ Own(warm'.record, warm'.key.scope, warm'.key.item)
        BY <2>1, <2>2, <2>3 DEF Warming
    <2>5. UNCHANGED <<disk, memory, assets>>
        BY <1>3 DEF WarmPage, Caches
    <2>6. Stores'
        BY <1>1, <2>4, <2>5 DEF Stores, EntriesOwn, AllOwn, Own
    <2> QED
        BY <1>2, <2>6, StoresCorrect
<1>4. CASE WarmPhoto(a, i)
    <2> DEFINE record == FromPlex(Home, a, i, TRUE, TRUE, "ok")
               key == PhotoKey(a, i)
    <2>1. key \in Key /\ key.scope = a /\ key.item = i
        BY <1>1 DEF PhotoKey, Key
    <2>2. record \in Record /\ Own(record, a, i)
        BY <1>1, FromPlexType, FromPlexOwn
    <2>3. memory' \in CacheType /\ AllOwn(memory')
        BY <1>1, <1>4, <2>1, <2>2, KeepingCorrect DEF WarmPhoto, Stores, EntriesOwn
    <2>4. warm' = [key |-> key, record |-> record] /\ UNCHANGED <<disk, assets>>
        BY <1>4 DEF WarmPhoto, Warming
    <2>5. Stores'
        BY <1>1, <2>1, <2>2, <2>3, <2>4 DEF Stores, EntriesOwn, AllOwn, Own
    <2> QED
        BY <1>2, <2>5, StoresCorrect
<1> QED
    BY <1>3, <1>4

LEMMA WarmStoreInv ==
    ASSUME IInv, WarmStore
    PROVE  IInv'
<1>1. Stores /\ warm \in [key : Key, record : Record] /\ Own(warm.record, warm.key.scope, warm.key.item)
    BY InvParts DEF WarmStore, Stores, EntriesOwn
<1>2. disk' \in CacheType /\ AllOwn(disk')
    BY <1>1, KeepingCorrect DEF WarmStore, Stores, EntriesOwn
<1>3. Stores'
    BY <1>1, <1>2 DEF WarmStore, Stores, EntriesOwn, AllOwn, Own, CacheType
<1> QED
    BY <1>3, StoresCorrect DEF WarmStore

LEMMA ForgetInv ==
    ASSUME IInv,
           \/ \E k \in Key : ForgetDisk(k) \/ ForgetPhoto(k)
           \/ \E i \in Items : ForgetAsset(i)
    PROVE  IInv'
<1>1. Stores
    BY InvParts
<1>2. ASSUME NEW k \in Key, ForgetDisk(k) \/ ForgetPhoto(k) PROVE IInv'
    <2>1. Stores'
        BY <1>1, <1>2 DEF ForgetDisk, ForgetPhoto, Stores, EntriesOwn, AllOwn, Own, CacheType
    <2> QED
        BY <1>2, <2>1, StoresCorrect DEF ForgetDisk, ForgetPhoto
<1>3. ASSUME NEW i \in Items, ForgetAsset(i) PROVE IInv'
    <2>1. Stores'
        BY <1>1, <1>3 DEF ForgetAsset, Stores, EntriesOwn, AllOwn, Own, CacheType
    <2> QED
        BY <1>3, <2>1, StoresCorrect DEF ForgetAsset
<1> QED
    BY <1>2, <1>3

LEMMA StepInv == IInv /\ [Next]_vars => IInv'
<1> SUFFICES ASSUME IInv, [Next]_vars PROVE IInv'
    OBVIOUS
<1>1. ASSUME NEW r \in Requests, RequestStep(r) PROVE IInv'
    BY <1>1, AskInv, PageLookupInv, PageRemoveInv, PageFetchInv, PageStoreInv, PageTransformInv,
       ProxyInv, PhotoHitInv, PhotoFetchInv, PhotoKeepInv, PhotoStoreInv, PhotoResolveInv,
       AssetLookupInv, AssetFetchInv, AssetStoreInv, DropInv
       DEF RequestStep
<1>2. ASSUME NEW a \in WarmAccounts, NEW i \in WarmItems, WarmPage(a, i) \/ WarmPhoto(a, i)
      PROVE  IInv'
    BY <1>2, WarmInv
<1>3. CASE UNCHANGED vars
    BY <1>3, StoresSame, StoresCorrect DEF vars
<1> QED
    BY <1>1, <1>2, <1>3, WarmStoreInv, ForgetInv DEF Next

LEMMA InvHolds == Spec => []IInv
<1> QED
    BY InitInv, StepInv, PTL DEF Spec

\* The state keeps its shape: what is stored or transformed is a record.
THEOREM TypeCorrect == Spec => []TypeOK
<1>1. IInv => TypeOK
    BY DEF IInv
<1> QED
    BY <1>1, InvHolds, PTL

\* Plex is never asked for what a request already has.
THEOREM OneSourceCorrect == Spec => []OneSource
<1>1. IInv => OneSource
    BY DEF IInv, NothingYet, OneSource, Empty
<1> QED
    BY <1>1, InvHolds, PTL

-----------------------------------------------------------------------------
(***************************************************************************)
(* The refinement.  A step of a request asks, answers, or is not seen.     *)
(***************************************************************************)
Answers == [r \in Requests |-> IF pc[r] = "done" THEN body[r] ELSE Pending]

Unseen == UNCHANGED <<req, snap, Answers>>

LEMMA UnseenStutters == Unseen <=> UNCHANGED Direct!vars
BY DEF Unseen, Answers, Direct!vars

\* What a request may be shown.
LEMMA OwnShown ==
    ASSUME IInv, NEW r \in Requests, NEW record \in Record,
           Own(record, OwnerOf(req[r]), req[r].item)
    PROVE  /\ req[r].kind = "page" /\ record.sound = TRUE /\ record.status = "ok"
                 => Show(record, snap[r]) \in Direct!Shown(req[r], snap[r])
           /\ req[r].kind = "page" /\ record.server = req[r].server /\ record.status # "ok"
                 => Show(record, Raw) \in Direct!Shown(req[r], snap[r])
           /\ req[r].kind = "asset" /\ record.sound = TRUE /\ record.server = Home /\ record.status = "ok"
                 => Show(record, Raw) \in Direct!Shown(req[r], snap[r])
           /\ req[r].kind = "photo" /\ record.server = req[r].server /\ record.status = "ok"
                 => Show(record, Raw) \in Direct!Shown(req[r], snap[r])
<1>1. record.sound \in BOOLEAN /\ record.server \in Servers /\ record.status \in {"ok", "other"}
    BY DEF Record, Statuses
<1>2. /\ record.account = Direct!Owner(req[r]) /\ record.item = req[r].item /\ record.whole = TRUE
    BY DEF Own, OwnerOf, Direct!Owner
<1>3. ASSUME req[r].kind = "page", record.sound = TRUE, record.status = "ok"
      PROVE  Show(record, snap[r]) \in Direct!Shown(req[r], snap[r])
    <2>1. Show(record, snap[r])
              \in Direct!Of(req[r], Servers, {TRUE}, "ok", snap[r])
        BY <1>1, <1>2, <1>3 DEF Show, Direct!Of
    <2> QED
        BY <1>3, <2>1 DEF Direct!Shown, Direct!Server
<1>4. ASSUME req[r].kind = "page", record.server = req[r].server, record.status # "ok"
      PROVE  Show(record, Raw) \in Direct!Shown(req[r], snap[r])
    <2>1. Show(record, Raw)
              \in Direct!Of(req[r], {req[r].server}, BOOLEAN, "other", Raw)
        BY <1>1, <1>2, <1>4 DEF Show, Direct!Of
    <2> QED
        BY <1>4, <2>1 DEF Direct!Shown, Direct!Server
<1>5. ASSUME req[r].kind = "asset", record.sound = TRUE, record.server = Home,
             record.status = "ok"
      PROVE  Show(record, Raw) \in Direct!Shown(req[r], snap[r])
    <2>1. Show(record, Raw)
              \in Direct!Of(req[r], {Home}, {TRUE}, "ok", Raw)
        BY <1>1, <1>2, <1>5 DEF Show, Direct!Of
    <2> QED
        BY <1>5, <2>1 DEF Direct!Shown, Direct!Server
<1>6. ASSUME req[r].kind = "photo", record.server = req[r].server, record.status = "ok"
      PROVE  Show(record, Raw) \in Direct!Shown(req[r], snap[r])
    <2>1. Show(record, Raw)
              \in Direct!Of(req[r], {req[r].server}, BOOLEAN, "ok", Raw)
        BY <1>1, <1>2, <1>6 DEF Show, Direct!Of
    <2> QED
        BY <1>6, <2>1 DEF Direct!Shown, Direct!Server
<1> QED
    BY <1>3, <1>4, <1>5, <1>6

LEMMA ReplyAnswers ==
    ASSUME IInv, NEW r \in Requests, pc[r] # "done", NEW with, Reply(r, with),
           with \in Direct!Shown(req[r], snap[r]) \cup {Failed}, UNCHANGED <<req, snap>>
    PROVE  Direct!Answer(r)
<1>1. Answers[r] = Pending /\ Answers' = [Answers EXCEPT ![r] = with]
    BY InvParts DEF Answers, Reply, Goto, Functions
<1> QED
    BY <1>1 DEF Answers, Direct!Answer

\* A slot that is not done before and after is not seen.
LEMMA WorkUnseen ==
    ASSUME IInv, NEW r \in Requests, pc[r] # "done", NEW place, place # "done", Goto(r, place),
           NEW with, body' = [body EXCEPT ![r] = with] \/ UNCHANGED body, UNCHANGED <<req, snap>>
    PROVE  Unseen
BY InvParts DEF Unseen, Answers, Goto, Functions

LEMMA AskAsks ==
    ASSUME IInv, NEW r \in Requests, NEW x \in Inputs, Ask(r, x)
    PROVE  Direct!Ask(r, x)
<1>1. Answers[r] # Pending
    BY MarksAssumption, InvParts DEF Ask, Answers, Slot
<1>2. Answers' = [Answers EXCEPT ![r] = Pending]
    BY InvParts DEF Ask, Answers, Goto, Functions
<1> QED
    BY <1>1, <1>2 DEF Ask, Answers, Direct!Ask

LEMMA PageRefines ==
    ASSUME IInv, NEW r \in Requests,
           PageLookup(r) \/ PageRemove(r) \/ PageFetch(r) \/ PageStore(r) \/ PageTransform(r)
    PROVE  Direct!Answer(r) \/ Unseen
<1>1. req[r].kind = "page" /\ pc[r] # "done" /\ UNCHANGED <<req, snap>>
    BY DEF PageLookup, PageRemove, PageFetch, PageStore, PageTransform, At, Rest
<1>2. CASE PageLookup(r)
    <2> DEFINE found == disk[KeyOf(req[r])]
    <2>1. CASE found # Nothing /\ Transforms(r, found)
        <3>1. /\ found \in Record /\ Own(found, OwnerOf(req[r]), req[r].item)
              /\ found.status = "ok"
            BY <1>1, <2>1, Known DEF Stores, EntriesOwn, AllOwn, OwnerOf
        <3>2. Reply(r, Show(found, snap[r]))
            BY <1>2, <2>1 DEF PageLookup, AfterHit, Reply
        <3>3. Show(found, snap[r]) \in Direct!Shown(req[r], snap[r])
            BY <1>1, <2>1, <3>1, OwnShown DEF Transforms
        <3> QED
            BY <1>1, <3>2, <3>3, ReplyAnswers
    <2>2. CASE found = Nothing \/ ~Transforms(r, found)
        <3>1. PICK place \in {"fetch", "remove"} : Goto(r, place) /\ UNCHANGED body
            BY <1>2, <2>2 DEF PageLookup
        <3> QED
            BY <1>1, <3>1, WorkUnseen
    <2> QED
        BY <2>1, <2>2
<1>3. CASE PageRemove(r)
    BY <1>1, <1>3, WorkUnseen DEF PageRemove, Rest
<1>4. CASE PageFetch(r)
    <2>1. CASE Fetch(r, Failed, "done")
        BY <1>1, <2>1, ReplyAnswers DEF Fetch, Reply
    <2>2. CASE ~Fetch(r, Failed, "done")
        BY <1>1, <1>4, <2>2, WorkUnseen DEF PageFetch, Fetch
    <2> QED
        BY <2>1, <2>2
<1>5. CASE PageStore(r)
    BY <1>1, <1>5, WorkUnseen DEF PageStore, Rest
<1>6. CASE PageTransform(r)
    <2>1. /\ body[r] \in Record /\ Own(body[r], OwnerOf(req[r]), req[r].item)
          /\ body[r].server = req[r].server
        BY <1>1, <1>6, Known DEF PageTransform, At, Slot, BodyOwn, Fresh, ServerOf
    <2>2. CASE body[r].status # "ok"
        <3>1. Show(body[r], Raw) \in Direct!Shown(req[r], snap[r])
            BY <1>1, <2>1, <2>2, OwnShown
        <3>2. Reply(r, Show(body[r], Raw))
            BY <1>6, <2>2 DEF PageTransform
        <3> QED
            BY <1>1, <3>1, <3>2, ReplyAnswers
    <2>3. CASE body[r].status = "ok" /\ Transforms(r, body[r])
        <3>1. Show(body[r], snap[r]) \in Direct!Shown(req[r], snap[r])
            BY <1>1, <2>1, <2>3, OwnShown DEF Transforms
        <3>2. Reply(r, Show(body[r], snap[r]))
            BY <1>6, <2>3 DEF PageTransform
        <3> QED
            BY <1>1, <3>1, <3>2, ReplyAnswers
    <2>4. CASE body[r].status = "ok" /\ ~Transforms(r, body[r])
        BY <1>1, <1>6, <2>4, ReplyAnswers DEF PageTransform
    <2> QED
        BY <2>2, <2>3, <2>4
<1> QED
    BY <1>2, <1>3, <1>4, <1>5, <1>6

LEMMA PhotoRefines ==
    ASSUME IInv, NEW r \in Requests,
           \/ PhotoSkip(r) \/ PhotoDiskLookup(r) \/ PhotoMemoryLookup(r) \/ PhotoFetch(r)
           \/ PhotoKeep(r) \/ PhotoStore(r) \/ PhotoResolve(r) \/ PhotoProxy(r)
    PROVE  Direct!Answer(r) \/ Unseen
<1>1. req[r].kind = "photo" /\ pc[r] # "done" /\ UNCHANGED <<req, snap>>
    BY DEF PhotoSkip, PhotoDiskLookup, PhotoMemoryLookup, PhotoFetch, PhotoKeep, PhotoStore,
           PhotoResolve, PhotoProxy, At, Rest
<1>2. CASE PhotoSkip(r) \/ PhotoProxy(r)
    <2>1. PICK with \in {Failed} \cup {Show(Artwork(r, sound), Raw) : sound \in BOOLEAN} :
              Reply(r, with)
        BY <1>2 DEF PhotoSkip, PhotoProxy, Fetch, Reply
    <2>2. ASSUME NEW sound \in BOOLEAN
          PROVE  Show(Artwork(r, sound), Raw) \in Direct!Shown(req[r], snap[r])
        <3>1. /\ req[r].account \in Accounts /\ req[r].item \in Items /\ req[r].server \in Servers
              /\ "ok" \in Statuses
            BY Known DEF Statuses
        <3>2. /\ Artwork(r, sound) \in Record
              /\ Own(Artwork(r, sound), OwnerOf(req[r]), req[r].item)
              /\ Artwork(r, sound).server = req[r].server /\ Artwork(r, sound).status = "ok"
            BY <1>1, <3>1 DEF Artwork, OwnerOf, FromPlex, Record, Own
        <3> QED
            BY <1>1, <3>2, OwnShown
    <2> QED
        BY <1>1, <2>1, <2>2, ReplyAnswers
<1>3. CASE PhotoDiskLookup(r)
    BY <1>1, <1>3, WorkUnseen DEF PhotoDiskLookup
<1>4. CASE PhotoMemoryLookup(r)
    BY <1>1, <1>4, WorkUnseen DEF PhotoMemoryLookup
<1>5. CASE PhotoFetch(r)
    <2>1. CASE Fetch(r, Failed, "done")
        BY <1>1, <2>1, ReplyAnswers DEF Fetch, Reply
    <2>2. CASE ~Fetch(r, Failed, "done")
        BY <1>1, <1>5, <2>2, WorkUnseen DEF PhotoFetch, Fetch, AfterStream
    <2> QED
        BY <2>1, <2>2
<1>6. CASE PhotoKeep(r) \/ PhotoStore(r)
    BY <1>1, <1>6, WorkUnseen DEF PhotoKeep, PhotoStore, Rest
<1>7. CASE PhotoResolve(r)
    <2>1. CASE Reply(r, Failed)
        BY <1>1, <2>1, ReplyAnswers
    <2>2. CASE Goto(r, "proxy") /\ UNCHANGED body
        BY <1>1, <2>2, WorkUnseen
    <2> QED
        BY <1>7, <2>1, <2>2 DEF PhotoResolve
<1> QED
    BY <1>2, <1>3, <1>4, <1>5, <1>6, <1>7

LEMMA AssetRefines ==
    ASSUME IInv, NEW r \in Requests, AssetLookup(r) \/ AssetFetch(r) \/ AssetStore(r)
    PROVE  Direct!Answer(r) \/ Unseen
<1>1. req[r].kind = "asset" /\ pc[r] # "done" /\ UNCHANGED <<req, snap>> /\ req[r].item \in Items
    BY Known DEF AssetLookup, AssetFetch, AssetStore, At, Rest
<1>2. CASE AssetLookup(r)
    <2> DEFINE found == assets[req[r].item]
    <2>1. CASE found = Nothing
        BY <1>1, <1>2, <2>1, WorkUnseen DEF AssetLookup
    <2>2. CASE found # Nothing
        <3>1. /\ found \in Record /\ Own(found, OwnerOf(req[r]), req[r].item)
              /\ found.sound = TRUE /\ found.server = Home /\ found.status = "ok"
            BY <1>1, <2>2, Known DEF Stores, EntriesOwn, OwnerOf
        <3> QED
            BY <1>1, <1>2, <2>2, <3>1, OwnShown, ReplyAnswers DEF AssetLookup
    <2> QED
        BY <2>1, <2>2
<1>3. CASE AssetFetch(r)
    <2>1. CASE Fetch(r, Failed, "done")
        BY <1>1, <2>1, ReplyAnswers DEF Fetch, Reply
    <2>2. CASE ~Fetch(r, Failed, "done")
        BY <1>1, <1>3, <2>2, WorkUnseen DEF AssetFetch, Fetch
    <2> QED
        BY <2>1, <2>2
<1>4. CASE AssetStore(r)
    <2>1. /\ body[r] \in Record /\ Own(body[r], OwnerOf(req[r]), req[r].item)
          /\ body[r].sound = TRUE /\ body[r].server = Home /\ body[r].status = "ok"
        BY <1>1, <1>4, Known DEF AssetStore, At, Slot, BodyOwn, Fresh, ServerOf
    <2> QED
        BY <1>1, <1>4, <2>1, OwnShown, ReplyAnswers DEF AssetStore
<1> QED
    BY <1>2, <1>3, <1>4

LEMMA StepRefines == IInv /\ [Next]_vars => [Direct!Next]_(Direct!vars)
<1> SUFFICES ASSUME IInv, [Next]_vars PROVE Direct!Next \/ Unseen
    BY UnseenStutters
<1>1. ASSUME NEW r \in Requests, RequestStep(r) PROVE Direct!Next \/ Unseen
    <2>1. ASSUME NEW x \in Inputs, Ask(r, x) PROVE Direct!Next
        BY <2>1, AskAsks DEF Direct!Next
    <2>2. CASE Drop(r)
        BY <2>2, ReplyAnswers DEF Drop, Rest, Direct!Next
    <2> QED
        BY <1>1, <2>1, <2>2, PageRefines, PhotoRefines, AssetRefines DEF RequestStep, Direct!Next
<1>2. CASE UNCHANGED <<pc, req, snap, body>>
    BY <1>2 DEF Unseen, Answers
<1> QED
    BY <1>1, <1>2
       DEF Next, vars, WarmPage, WarmPhoto, WarmStore, ForgetDisk, ForgetPhoto, ForgetAsset

\* The caches cannot be told from Plex: whatever is warmed, stored, evicted
\* or purged, every answer is the account's own, in full, and filtered by the
\* policy of the request's snapshot if it is a page of status 200.
THEOREM Refinement == Spec => AnswersDirectly
<1>1. Init => Direct!Init
    BY DEF Init, Direct!Init
<1> QED
    BY <1>1, StepRefines, InvHolds, PTL DEF Spec, AnswersDirectly, Direct!Spec
=============================================================================
