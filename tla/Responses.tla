------------------------------ MODULE Responses ------------------------------
(***************************************************************************)
(* How Replex rewrites what Plex answers: the home screen                  *)
(* (cached_hubs_response), the refresh and paging of its rows              *)
(* (get_collections_children, default_transform), and library pages        *)
(* (apply_policy_transforms).  Each is a chain of transforms, and          *)
(* TransformBuilder::apply_to runs a chain: transform by transform, child  *)
(* by child, filter and then change, with lookups at Plex on the way,      *)
(* which are cached by token, while labels, sharing and rules change.      *)
(*                                                                         *)
(* What the raw payload of the home screen is, and when it is fetched, is  *)
(* HubCache's and Pages' subject.                                          *)
(***************************************************************************)
EXTENDS Integers, Sequences, FiniteSets

CONSTANTS
    Requests, Accounts,
    Collections, BuiltIn,  \* what a row shows; a row of Plex's own
    Items,
    Facts,      \* of an item: [views, leaves, viewed, media, playable, kids, title]
    Contents,   \* the items of a collection
    HomeRows,   \* the rows of an account's home screen, raw
    Pages,      \* the sequences of items library pages consist of
    Clients,    \* who asks for a home screen: records of Client
    Starts, PageSize,  \* the pages of a row they ask for
    Configs,    \* [interleave, hubRestrictions, excludeWatched, leafCount]
    Worlds,     \* [labels, shared]: what Plex has at first
    Policies,   \* [limit, hidden]: what a request may be held to
    Unlimited,  \* the limit that is none
    Titles,
    MaxPage,    \* the page get_collections_children asks for when it filters
    MaxChanges, \* bound on changes at Plex and by administrators
    List, NoKey, NoTitle, NoName, NotYet, Failed, Nothing, Unidentified

Config == [interleave : BOOLEAN, hubRestrictions : BOOLEAN, excludeWatched : BOOLEAN,
           leafCount : BOOLEAN]

\* What a collection's REPLEX_EXCLUDE_WATCHED label is.
Labels == {"watched"}

\* `skips`: Plexamp or Live TV; `count`: how long a row may be.
Client == [account : Accounts, skips : BOOLEAN, count : Nat, noContinue : BOOLEAN]

Policy == [limit : Nat, hidden : SUBSET Titles]

\* Counts of leaves are -1 when they are absent.  `media` holds the classes of
\* an item's versions; one that cannot be determined is above every limit.
\* `playable` are movies, episodes, clips and tracks, and `kids` are all
\* descendants of an item.
Fact == [views : Nat, leaves : Nat \cup {-1}, viewed : Nat \cup {-1}, media : SUBSET Nat,
         playable : BOOLEAN, kids : SUBSET Items, title : Titles \cup {NoTitle}]

\* `media` is what is left of an item's versions, `inner` what is left of its
\* descendants, each with its versions; a title stands only for an item that
\* is a collection.
Item == [is : {"item"}, id : Items, leaves : Nat \cup {-1}, media : SUBSET Nat,
         inner : SUBSET (Items \X SUBSET Nat)]

Hub == [is : {"hub"}, of : Collections \cup {BuiltIn}, title : Titles, size : Nat,
        key : Seq(Collections) \cup {NoKey},  \* a row of Plex's own names none
        ours : BOOLEAN,   \* the key leads to Replex
        hero : BOOLEAN,   \* Plex or hero_rows make it a hero row
        malformed : BOOLEAN,
        continues : BOOLEAN,  \* Continue Watching
        items : Seq(Item)]

\* What a lookup found.
Found == [value : (SUBSET Labels) \cup (SUBSET Collections), fresh : BOOLEAN]

ASSUME WorldAssumption ==
    /\ BuiltIn \notin Collections /\ List \notin Collections /\ NoKey \notin Seq(Collections)
    /\ NoTitle \notin Titles /\ NoName \notin Collections \cup {List}
    /\ Facts \in [Items -> Fact] /\ Contents \in [Collections -> Seq(Items)]
    /\ HomeRows \in [Accounts -> Seq(Hub)] /\ Pages \subseteq Seq(Items)
    /\ Configs \subseteq Config /\ Policies \subseteq Policy
    /\ Clients \subseteq Client
    /\ Worlds \subseteq [labels : [Collections -> SUBSET Labels],
                        shared : [Accounts -> SUBSET Collections]]
    /\ Unlimited \in Nat /\ MaxPage \in Nat /\ MaxChanges \in Nat /\ Starts \subseteq Nat /\ PageSize \in Nat
    /\ Accounts # {} /\ Unidentified \notin Policies
    /\ NotYet # Failed /\ {NotYet, Failed} \cap Found = {}
    /\ \A value \in (SUBSET Labels) \cup (SUBSET Collections) : value # Nothing

\* The key of a raw row leads to Plex, and names no collection but the one the row
\* is of: the id in /library/collections/<id>/children is the last part of the
\* hubIdentifier.
ASSUME KeyAssumption ==
    \A a \in Accounts : \A n \in 1..Len(HomeRows[a]) :
        LET x == HomeRows[a][n] IN
        /\ ~x.ours
        /\ x.key # NoKey => \A k \in 1..Len(x.key) : x.key[k] = x.of

\* Plex counts the items it sends with a row.
ASSUME SizeAssumption ==
    \A a \in Accounts : \A n \in 1..Len(HomeRows[a]) :
        HomeRows[a][n].size = Len(HomeRows[a][n].items)

\* Playable descendants have none of their own.
ASSUME KidsAssumption ==
    \A i \in Items : \A k \in Facts[i].kids :
        Facts[k].kids \subseteq Facts[i].kids /\ (Facts[k].playable => Facts[k].kids = {})

Names == Collections \cup {List}

VARIABLES
    config,
    labels,     \* the labels of a collection
    shared,     \* the collections Plex lists for an account
    policy,     \* the rules in force
    failClosed, \* PolicySnapshot::fail_closed
    meta,       \* PlexClient::cache, as far as get_cached fills it
    changes,
    req, snap,
    todo,       \* the rest of the chain; its head is at work
    left, kept, \* the children it has not seen yet, and those it is done with
    at,         \* filter_metadata or transform_metadata of the next child
    seen,       \* the answer to its lookup
    \* What happened, for the properties.
    failed,     \* a lookup of the request failed
    opened,     \* fail_closed was off at some time of the request
    everShared

world == <<config, labels, shared, policy, failClosed, changes, everShared>>
slots == <<req, snap, todo, left, kept, at, seen, failed, opened>>
vars == <<world, meta, slots>>

-----------------------------------------------------------------------------
Raw(i) == [is |-> "item", id |-> i, leaves |-> Facts[i].leaves, media |-> Facts[i].media,
           inner |-> {<<k, Facts[k].media>> : k \in Facts[i].kids}]

RawItems(s) == [n \in 1..Len(s) |-> Raw(s[n])]

IsHub(x) == x.is = "hub"

IsCollectionHub(x) == IsHub(x) /\ x.of # BuiltIn

\* The title that hidden_collections is compared with, if it is.
CollectionTitle(x) ==
    IF IsHub(x) THEN IF x.of # BuiltIn THEN x.title ELSE NoTitle ELSE Facts[x.id].title

\* MetaData::is_watched.
IsWatched(x) ==
    \/ x.leaves = -1 /\ Facts[x.id].views > 0
    \/ Facts[x.id].viewed # -1 /\ Facts[x.id].viewed = (IF x.leaves = -1 THEN 0 ELSE x.leaves)

\* The unwatched ones of the first n items.
Unwatched(items) ==
    LET upTo[n \in 0..Len(items)] ==
            IF n = 0 THEN <<>>
            ELSE IF IsWatched(items[n]) THEN upTo[n - 1] ELSE Append(upTo[n - 1], items[n])
    IN upTo[Len(items)]

Smaller(a, b) == IF a < b THEN a ELSE b

FirstOf(s, n) == SubSeq(s, 1, Smaller(n, Len(s)))

Fault_Interleaved(a, b) ==
    LET n == Smaller(Len(a), Len(b)) IN
    [i \in 1..2 * n |-> IF i % 2 = 1 THEN a[(i + 1) \div 2] ELSE b[i \div 2]]

\* Itertools::interleave: in turn, and then the rest of the longer one.
Interleaved(a, b) ==
    LET n == Smaller(Len(a), Len(b)) IN
    [i \in 1..(Len(a) + Len(b)) |->
        CASE i <= 2 * n /\ i % 2 = 1     -> a[(i + 1) \div 2]
          [] i <= 2 * n /\ i % 2 = 0     -> b[i \div 2]
          [] i > 2 * n /\ Len(a) > n     -> a[i - n]
          [] i > 2 * n /\ Len(a) <= n    -> b[i - n]]

-----------------------------------------------------------------------------
(***************************************************************************)
(* ResolutionPolicyTransform.  A request without identity keeps everything *)
(* or nothing, as fail_closed says at that very moment.                    *)
(***************************************************************************)
Permitted(class, p) == p.limit = Unlimited \/ class <= p.limit

Within(media, p) == {class \in media : Permitted(class, p)}

Fault_Pruned(inner, p) == {d \in inner : Within(d[2], p) # {} \/ ~Facts[d[1]].playable}

\* prune_children: each keeps its permitted versions; what is playable goes
\* when it has none, or never had any.
Pruned(inner, p) ==
    {<<d[1], Within(d[2], p)>> :
        d \in {e \in inner : Within(e[2], p) # {} \/ ~Facts[e[1]].playable}}

\* clear_media_recursive.
Cleared(x) == [x EXCEPT !.media = {}, !.inner = {<<d[1], {}>> : d \in @}]

\* What a limit leaves of an item's versions is something, or it had none.
Offers(media, p) == media = {} \/ Within(media, p) # {}

PolicyKeeps(who, x) ==
    IF who = Unidentified THEN failClosed => x.media = {}
    ELSE Offers(x.media, who)

Filtered(who, x) ==
    CASE who = Unidentified /\ failClosed  -> Cleared(x)
      [] who = Unidentified /\ ~failClosed -> x
      [] who # Unidentified ->
            IF who.limit = Unlimited THEN x
            ELSE [x EXCEPT !.media = Within(@, who), !.inner = Pruned(@, who)]

\* CollectionVisibilityTransform; fails open.
VisibilityKeeps(who, x) ==
    who # Unidentified => CollectionTitle(x) \notin who.hidden

\* HubRestrictionTransform, given what the lookup found.
RestrictionKeeps(x, found) ==
    config.hubRestrictions /\ IsCollectionHub(x) =>
        /\ x.size > 0
        /\ ~x.malformed /\ found # Failed => x.of \in found.value

\* HubWatchedTransform: a failed lookup keeps everything.
Watches(x, found) ==
    /\ IsHub(x)
    /\ IF IsCollectionHub(x) /\ ~x.malformed
       THEN found # Failed /\ (config.excludeWatched \/ "watched" \in found.value)
       ELSE config.excludeWatched

WithoutWatched(x, found) ==
    IF Watches(x, found) THEN [x EXCEPT !.items = Unwatched(@)] ELSE x

\* UserStateTransform, with disable_leaf_count.
Leafless(x) ==
    CASE config.leafCount -> x
      [] ~config.leafCount /\ IsHub(x) ->
            [x EXCEPT !.items = [n \in 1..Len(@) |-> [@[n] EXCEPT !.leaves = -1]]]
      [] ~config.leafCount /\ ~IsHub(x) -> [x EXCEPT !.leaves = -1]

\* HubKeyTransform.
Keyed(x) == IF IsHub(x) /\ x.key # NoKey THEN [x EXCEPT !.ours = TRUE] ELSE x

\* shape_canonical_hubs.
Counted(x, count) ==
    IF Len(x.items) > count THEN [x EXCEPT !.items = FirstOf(@, count), !.size = count] ELSE x

\* set_children keeps the size only, when there are no children to replace.
SetItems(x, items) ==
    IF x.items = <<>> THEN [x EXCEPT !.size = Len(items)]
    ELSE [x EXCEPT !.items = items, !.size = Len(items)]

Twins(x, y) == IsHub(x) /\ x.title = y.title

\* HubInterleaveTransform takes the rows one by one.
Merged(rows, x) ==
    LET twins == {n \in 1..Len(rows) : Twins(rows[n], x)}
        first == CHOOSE n \in twins : \A k \in twins : n <= k
        both(y) == [SetItems(y, Interleaved(y.items, x.items)) EXCEPT !.key = y.key \o x.key]
    IN IF config.interleave /\ x.size = 0 THEN rows
       ELSE IF /\ config.interleave /\ IsCollectionHub(x) /\ twins # {}
               /\ NoKey \notin {rows[first].key, x.key}
            THEN [rows EXCEPT ![first] = both(@)]
            ELSE Append(rows, x)

-----------------------------------------------------------------------------
Fault_HomeChain(skips) ==
    IF skips THEN <<>>
    ELSE <<"visibility", "restriction", "style", "watched", "interleave", "userState", "key", "shape">>

\* cached_hubs_response: visibility is no option, the rest is.
HomeChain(skips) ==
    IF skips THEN <<"visibility">>
    ELSE <<"visibility", "restriction", "style", "watched", "interleave", "userState", "key",
           "shape">>

ChildrenChain == <<"library", "restriction", "collectionStyle", "userState">>

DefaultChain == <<"restriction", "mediaStyle", "userState", "watched", "key">>

PolicyChain == <<"policy", "visibility">>

\* What the transform at work has to look up for its next child, if anything.
\* The style transforms look up a label too, and change what is drawn only: a
\* hero row's size is set anew to what it is (SizeAssumption).
Asks(t, x) ==
    CASE t = "library" -> x.of
      [] t = "restriction" /\ config.hubRestrictions /\ IsCollectionHub(x) ->
            IF x.size > 0 /\ ~x.malformed THEN List ELSE NoName
      [] t \in {"style", "watched"} /\ IsCollectionHub(x) ->
            IF x.malformed \/ (t = "style" /\ x.hero) THEN NoName ELSE x.of
      [] OTHER -> NoName

Wanted(r) ==
    CASE todo[r] = <<>> -> NoName
      [] todo[r] # <<>> /\ left[r] # <<>> ->
            IF (at[r] = "filter") = (Head(todo[r]) = "restriction")
            THEN Asks(Head(todo[r]), Head(left[r])) ELSE NoName
      [] todo[r] # <<>> /\ left[r] = <<>> ->
            IF Head(todo[r]) = "collectionStyle" /\ req[r].ids # <<>> THEN Head(req[r].ids) ELSE NoName

Fault_ScopeOf(account) == CHOOSE a \in Accounts : TRUE

\* generate_cache_key ends with the token.
ScopeOf(account) == account

AtPlex(account, name) == IF name = List THEN shared[account] ELSE labels[name]

\* get_cached, up to the answer.  A collection that is not shared is an error.
Look(r) ==
    /\ Wanted(r) # NoName /\ seen[r] = NotYet
    /\ LET name == Wanted(r)
           had == meta[ScopeOf(req[r].account)][name]
       IN \/ had # Nothing /\ seen' = [seen EXCEPT ![r] = [value |-> had, fresh |-> FALSE]]
                           /\ UNCHANGED failed
          \/ had = Nothing /\ seen' = [seen EXCEPT ![r] = [value |-> AtPlex(req[r].account, name),
                                                           fresh |-> TRUE]]
                           /\ UNCHANGED failed
          \/ had = Nothing /\ seen' = [seen EXCEPT ![r] = Failed]
                           /\ failed' = [failed EXCEPT ![r] = TRUE]
    /\ UNCHANGED <<world, meta, req, snap, todo, left, kept, at, opened>>

Fault_Answered(r) ==
    /\ Wanted(r) # NoName => seen[r] # NotYet
    /\ UNCHANGED <<seen, meta>>

\* The answer is there when it is needed, and is kept.
Answered(r) ==
    /\ Wanted(r) # NoName => seen[r] # NotYet
    /\ seen' = [seen EXCEPT ![r] = NotYet]
    /\ meta' = IF seen[r] \notin {NotYet, Failed} /\ seen[r].fresh
               THEN [meta EXCEPT ![ScopeOf(req[r].account)][Wanted(r)] = seen[r].value]
               ELSE meta

Keeps(r, t, x) ==
    CASE t = "policy"      -> PolicyKeeps(snap[r], x)
      [] t = "visibility"  -> VisibilityKeeps(snap[r], x)
      [] t = "restriction" -> RestrictionKeeps(x, seen[r])
      [] t = "shape"       -> ~(req[r].noContinue /\ x.continues)
      [] OTHER             -> TRUE

Changed(r, t, x) ==
    CASE t = "policy"     -> Filtered(snap[r], x)
      [] t = "watched"    -> WithoutWatched(x, seen[r])
      [] t = "userState"  -> Leafless(x)
      [] t = "key"        -> Keyed(x)
      [] t = "shape"      -> Counted(x, req[r].count)
      [] OTHER            -> x

Busy(r) == todo[r] # <<>>

FilterChild(r) ==
    /\ Busy(r) /\ left[r] # <<>> /\ at[r] = "filter"
    /\ Answered(r)
    /\ IF Keeps(r, Head(todo[r]), Head(left[r]))
       THEN at' = [at EXCEPT ![r] = "change"] /\ UNCHANGED left
       ELSE left' = [left EXCEPT ![r] = Tail(@)] /\ UNCHANGED at
    /\ UNCHANGED <<world, req, snap, todo, kept, failed, opened>>

ChangeChild(r) ==
    /\ Busy(r) /\ left[r] # <<>> /\ at[r] = "change" /\ Head(todo[r]) # "library"
    /\ Answered(r)
    /\ kept' = [kept EXCEPT ![r] =
                   IF Head(todo[r]) = "interleave" THEN Merged(@, Head(left[r]))
                   ELSE Append(@, Changed(r, Head(todo[r]), Head(left[r])))]
    /\ left' = [left EXCEPT ![r] = Tail(@)]
    /\ at' = [at EXCEPT ![r] = "filter"]
    /\ UNCHANGED <<world, req, snap, todo, failed, opened>>

Fault_PageOf(r, c, found) ==
    LET all == Contents[c]
        page == IF config.excludeWatched THEN FirstOf(all, MaxPage)
                ELSE SubSeq(all, req[r].start + 1, Smaller(req[r].start + PageSize, Len(all)))
    IN IF config.excludeWatched THEN Unwatched(RawItems(page)) ELSE RawItems(page)

\* The page of a collection, without what its label or the setting excludes.
PageOf(r, c, found) ==
    LET all == Contents[c]
        page == IF config.excludeWatched THEN FirstOf(all, MaxPage)
                ELSE SubSeq(all, req[r].start + 1, Smaller(req[r].start + PageSize, Len(all)))
    IN IF config.excludeWatched \/ "watched" \in found.value
       THEN Unwatched(RawItems(page)) ELSE RawItems(page)

\* LibraryInterleaveTransform goes through the collections, which are what is
\* left of the stub.  One that cannot be had is skipped.
MixCollection(r) ==
    /\ Busy(r) /\ left[r] # <<>> /\ at[r] = "change" /\ Head(todo[r]) = "library"
    /\ Answered(r)
    /\ LET c == Head(left[r]).of IN
       \/ /\ seen[r] # Failed
          /\ kept' = [kept EXCEPT ![r] = Interleaved(@, PageOf(r, c, seen[r]))]
          /\ UNCHANGED failed
       \/ failed' = [failed EXCEPT ![r] = TRUE] /\ UNCHANGED kept
    /\ left' = [left EXCEPT ![r] = Tail(@)]
    /\ at' = [at EXCEPT ![r] = "filter"]
    /\ UNCHANGED <<world, req, snap, todo, opened>>

\* transform_mediacontainer is done; the next transform begins.
FinishTransform(r) ==
    /\ Busy(r) /\ left[r] = <<>>
    /\ Answered(r)
    /\ todo' = [todo EXCEPT ![r] = Tail(@)]
    /\ left' = [left EXCEPT ![r] = kept[r]]
    /\ kept' = [kept EXCEPT ![r] = <<>>]
    /\ UNCHANGED <<world, req, snap, at, failed, opened>>

-----------------------------------------------------------------------------
Idle(r) == todo[r] = <<>>

\* The middlewares take the snapshot, or find no identity (Access).
Begin(r, request, chain, children) ==
    /\ req' = [req EXCEPT ![r] = request]
    /\ todo' = [todo EXCEPT ![r] = chain]
    /\ left' = [left EXCEPT ![r] = children]
    /\ kept' = [kept EXCEPT ![r] = <<>>]
    /\ at' = [at EXCEPT ![r] = "filter"]
    /\ opened' = [opened EXCEPT ![r] = ~failClosed]
    /\ UNCHANGED <<world, meta, seen>>

Identify(r) ==
    /\ snap' \in {[snap EXCEPT ![r] = who] : who \in {policy, Unidentified}}
    /\ failed' = [failed EXCEPT ![r] = FALSE]

NoRequest == [kind |-> "none", account |-> CHOOSE a \in Accounts : TRUE, skips |-> FALSE,
              count |-> 0, noContinue |-> FALSE, raw |-> <<>>, ids |-> <<>>, start |-> 0,
              row |-> <<>>]

AskHome(r) ==
    /\ Idle(r)
    /\ \E c \in Clients :
          Begin(r, [NoRequest EXCEPT !.kind = "home", !.account = c.account, !.skips = c.skips,
                                     !.count = c.count, !.noContinue = c.noContinue,
                                     !.raw = HomeRows[c.account]],
                HomeChain(c.skips), HomeRows[c.account])
    /\ Identify(r)

AskPage(r) ==
    /\ Idle(r)
    /\ \E a \in Accounts, page \in Pages :
          Begin(r, [NoRequest EXCEPT !.kind = "page", !.account = a, !.raw = RawItems(page)],
                PolicyChain, RawItems(page))
    /\ Identify(r)

\* A client follows the key of a row it was shown.
Stub(ids) == IF config.interleave THEN [n \in 1..Len(ids) |-> [is |-> "collection", of |-> ids[n]]]
             ELSE <<>>

AskChildren(r, row) ==
    /\ row.key \notin {NoKey, <<>>}
    /\ \E start \in Starts :
          Begin(r, [req[r] EXCEPT !.kind = "children", !.ids = row.key, !.start = start,
                                  !.row = row.items],
                ChildrenChain, Stub(row.key))

\* A key of Plex's own: default_transform asks for the same items.
AskDefault(r, row) ==
    /\ row.key = <<>>
    /\ \E raw \in {req[r].raw[n] : n \in 1..Len(req[r].raw)} :
          /\ raw.of = BuiltIn /\ raw.title = row.title
          /\ Begin(r, [req[r] EXCEPT !.kind = "default", !.row = row.items],
                   DefaultChain, raw.items)

Refresh(r) ==
    /\ Idle(r) /\ req[r].kind = "home"
    /\ \E n \in 1..Len(left[r]) :
          /\ left[r][n].ours
          /\ AskChildren(r, left[r][n]) \/ AskDefault(r, left[r][n])
    /\ UNCHANGED <<snap, failed>>

-----------------------------------------------------------------------------
Unnoticed == UNCHANGED <<req, snap, todo, left, kept, at, seen, failed>>

Relabel(c) ==
    /\ changes < MaxChanges /\ changes' = changes + 1
    /\ \E l \in SUBSET Labels : labels' = [labels EXCEPT ![c] = l]
    /\ UNCHANGED <<config, shared, policy, failClosed, everShared, meta, opened>> /\ Unnoticed

Share(a, c) ==
    /\ changes < MaxChanges /\ changes' = changes + 1
    /\ shared' \in {[shared EXCEPT ![a] = @ \cup {c}], [shared EXCEPT ![a] = @ \ {c}]}
    /\ everShared' = [everShared EXCEPT ![a] = @ \cup shared'[a]]
    /\ UNCHANGED <<config, labels, policy, failClosed, meta, opened>> /\ Unnoticed

\* policy_reload.
Reload ==
    /\ changes < MaxChanges /\ changes' = changes + 1
    /\ policy' \in Policies /\ failClosed' \in BOOLEAN
    /\ opened' = [r \in Requests |-> opened[r] \/ ~failClosed']
    /\ UNCHANGED <<config, labels, shared, everShared, meta>> /\ Unnoticed

\* Entries expire, are evicted, and are purged.
Forget(a, name) ==
    /\ changes < MaxChanges /\ changes' = changes + 1
    /\ meta[a][name] # Nothing
    /\ meta' = [meta EXCEPT ![a][name] = Nothing]
    /\ UNCHANGED <<config, labels, shared, policy, failClosed, everShared, opened>> /\ Unnoticed

Init ==
    /\ config \in Configs
    /\ \E w \in Worlds : labels = w.labels /\ shared = w.shared
    /\ policy \in Policies /\ failClosed \in BOOLEAN
    /\ meta = [a \in Accounts |-> [name \in Names |-> Nothing]]
    /\ changes = 0 /\ everShared = shared
    /\ req = [r \in Requests |-> NoRequest] /\ snap = [r \in Requests |-> Unidentified]
    /\ todo = [r \in Requests |-> <<>>]
    /\ left = [r \in Requests |-> <<>>] /\ kept = [r \in Requests |-> <<>>]
    /\ at = [r \in Requests |-> "filter"] /\ seen = [r \in Requests |-> NotYet]
    /\ failed = [r \in Requests |-> FALSE] /\ opened = [r \in Requests |-> FALSE]

RequestStep(r) ==
    \/ AskHome(r) \/ AskPage(r) \/ Refresh(r)
    \/ Look(r) \/ FilterChild(r) \/ ChangeChild(r) \/ MixCollection(r) \/ FinishTransform(r)

Next ==
    \/ \E r \in Requests : RequestStep(r)
    \/ \E c \in Collections : Relabel(c) \/ \E a \in Accounts : Share(a, c)
    \/ Reload
    \/ \E a \in Accounts, name \in Names : Forget(a, name)

Spec == Init /\ [][Next]_vars

-----------------------------------------------------------------------------
Child == Item \cup Hub \cup [is : {"collection"}, of : Collections]

\* The shape of the state: lookups answer what was asked for, rows and items
\* keep their form, and library pages hold items.
TypeOK ==
    /\ config \in Configs
    /\ labels \in [Collections -> SUBSET Labels]
    /\ shared \in [Accounts -> SUBSET Collections]
    /\ policy \in Policies /\ failClosed \in BOOLEAN /\ changes \in 0..MaxChanges
    /\ \A a \in Accounts :
          /\ meta[a] \in [Names -> (SUBSET Labels) \cup (SUBSET Collections) \cup {Nothing}]
          /\ meta[a][List] \in (SUBSET Collections) \cup {Nothing}
          /\ \A c \in Collections : meta[a][c] \in (SUBSET Labels) \cup {Nothing}
    /\ snap \in [Requests -> Policies \cup {Unidentified}]
    /\ left \in [Requests -> Seq(Child)] /\ kept \in [Requests -> Seq(Child)]
    /\ at \in [Requests -> {"filter", "change"}]
    /\ seen \in [Requests -> Found \cup {NotYet, Failed}]
    /\ \A r \in Requests :
          /\ req[r].kind = "page" => left[r] \in Seq(Item) /\ kept[r] \in Seq(Item)
          /\ Wanted(r) = NoName => seen[r] = NotYet

Done(r, kind) == Idle(r) /\ req[r].kind = kind

ElementsOf(s) == {s[n] : n \in 1..Len(s)}

IdsOf(s) == [n \in 1..Len(s) |-> s[n].id]

(***************************************************************************)
(* A collection that the rules in force at the start of the request hide   *)
(* from the account has no row on a home screen and is no item of a        *)
(* library page, whichever client asks, and whatever is filtered, merged   *)
(* and looked up after it.  A collection among the items of another row is *)
(* not meant: is_hidden is asked of the children of the response only.     *)
(***************************************************************************)
HiddenStayHidden ==
    \A r \in Requests :
        (Done(r, "home") \/ Done(r, "page")) /\ snap[r] # Unidentified
            => \A x \in ElementsOf(left[r]) : CollectionTitle(x) \notin snap[r].hidden

(***************************************************************************)
(* With hub_restrictions a row stands for collections Plex has listed for  *)
(* that very account, and for no other account's, merged or not.           *)
(***************************************************************************)
Restricted(r) ==
    Done(r, "home") /\ config.hubRestrictions /\ ~req[r].skips /\ ~failed[r]

RowsAreShared ==
    \A r \in Requests : Restricted(r) =>
        \A x \in ElementsOf(left[r]) : x.key # NoKey =>
            \A c \in ElementsOf(x.key) :
                \/ c \in everShared[req[r].account]
                \/ \E raw \in ElementsOf(req[r].raw) : raw.of = c /\ raw.malformed

(***************************************************************************)
(* The rows of a home screen show, title by title, every item of the rows  *)
(* Plex sent that nothing excludes, and nothing else: merging loses none   *)
(* and watched filtering takes the watched ones only.  Of the title, the   *)
(* first row is assumed to keep an item, no row to be cut short, and       *)
(* Continue Watching, if the client drops it, to share it with no other;   *)
(* and Plex is assumed to answer and to change nothing.                    *)
(***************************************************************************)
Excludes(x) ==
    config.excludeWatched \/ (x.of # BuiltIn /\ ~x.malformed /\ "watched" \in labels[x.of])

Expected(x) == IF Excludes(x) THEN Unwatched(x.items) ELSE x.items

Stays(r, x) ==
    /\ x.size > 0
    /\ VisibilityKeeps(snap[r], x)
    /\ config.hubRestrictions /\ x.of # BuiltIn /\ ~x.malformed => x.of \in shared[req[r].account]
    /\ ~(req[r].noContinue /\ x.continues)

Titled(s, t) == {n \in 1..Len(s) : s[n].title = t}

StayingRows(r, t) == {n \in Titled(req[r].raw, t) : Stays(r, req[r].raw[n])}

ItemsShown(s, t) == UNION {ElementsOf(IdsOf(s[n].items)) : n \in Titled(s, t)}

Plain(r, t) ==
    /\ \A n \in StayingRows(r, t) :
          (\A k \in StayingRows(r, t) : n <= k) => Expected(req[r].raw[n]) # <<>>
    /\ \A n \in Titled(left[r], t) : Len(left[r][n].items) < req[r].count
    /\ req[r].noContinue =>
          \A n, k \in Titled(req[r].raw, t) : req[r].raw[n].continues = req[r].raw[k].continues

RowsComplete ==
    \A r \in Requests :
        Done(r, "home") /\ ~req[r].skips /\ ~failed[r] /\ changes = 0 /\ config.interleave =>
        \A t \in Titles : Plain(r, t) =>
            ItemsShown(left[r], t) =
                UNION {ElementsOf(IdsOf(Expected(req[r].raw[n]))) : n \in StayingRows(r, t)}

(***************************************************************************)
(* "Transformed hub keys point to /replex/<style>/... Pagination and       *)
(* collection refreshes therefore pass through the same transformations."  *)
(* (FEATURES.md:27): the refresh of a collection row begins with what the  *)
(* row showed.  Rows are assumed to come whole: a collection's row names   *)
(* it and has all its items, in the collection's order, and no more than a *)
(* page; and a row of Plex's own shares no title with it.  Plex is assumed *)
(* to answer and to change nothing.                                        *)
(***************************************************************************)
Agrees(r) ==
    LET row == IdsOf(req[r].row) page == IdsOf(left[r]) IN
    Len(row) <= Len(page) /\ SubSeq(page, 1, Len(row)) = row

Whole(x) ==
    x.of # BuiltIn =>
        /\ ~x.malformed /\ x.key \in {NoKey, <<x.of>>} /\ x.items = RawItems(Contents[x.of])
        /\ Len(x.items) <= PageSize /\ (config.excludeWatched => Len(x.items) <= MaxPage)

WholeRows(raw) ==
    \A x \in ElementsOf(raw) :
        Whole(x) /\ \A y \in ElementsOf(raw) :
                        x.of = BuiltIn /\ y.of # BuiltIn => x.title # y.title

Comparable(r) ==
    Done(r, "children") /\ req[r].start = 0 /\ ~failed[r] /\ changes = 0 /\ WholeRows(req[r].raw)

RefreshAgrees == \A r \in Requests : Comparable(r) /\ config.interleave => Agrees(r)

(***************************************************************************)
(* A library page shows no version above the account's limit, at any depth,*)
(* and every version within it.  Items that had versions and have none     *)
(* left are gone; of their descendants, what is playable and has no        *)
(* version is gone, whether it had one or not, and containers stay.  A     *)
(* request without identity sees no version while fail_closed holds.       *)
(***************************************************************************)
NoVersions(x) == x.media = {} /\ \A d \in x.inner : d[2] = {}

OnlyPermitted(y, p) ==
    /\ Within(y.media, p) = y.media
    /\ Facts[y.id].media # {} => y.media # {}
    /\ \A d \in y.inner : /\ Within(d[2], p) = d[2]
                          /\ p.limit # Unlimited /\ Facts[d[1]].playable => d[2] # {}

AllPermitted(x, y, p) ==
    /\ y.id = x.id /\ y.media = Within(x.media, p)
    /\ \A d \in x.inner : Within(d[2], p) # {} \/ ~Facts[d[1]].playable
                              => <<d[1], Within(d[2], p)>> \in y.inner

PagesFiltered ==
    \A r \in Requests : Done(r, "page") =>
        IF snap[r] = Unidentified
        THEN ~opened[r] => \A x \in ElementsOf(left[r]) : NoVersions(x)
        ELSE /\ \A y \in ElementsOf(left[r]) : OnlyPermitted(y, snap[r])
             /\ \A x \in ElementsOf(req[r].raw) :
                   Offers(x.media, snap[r]) /\ CollectionTitle(x) \notin snap[r].hidden =>
                       \E y \in ElementsOf(left[r]) : AllPermitted(x, y, snap[r])
=============================================================================
