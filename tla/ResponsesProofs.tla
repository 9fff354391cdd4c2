-------------------------- MODULE ResponsesProofs --------------------------
(***************************************************************************)
(* That no hidden collection has a row on a home screen or is an item of a *)
(* library page, and that a library page shows the versions the rules      *)
(* allow, and no others.  The invariant says, transform by transform, what *)
(* holds of the children that a transform is done with.                    *)
(***************************************************************************)
EXTENDS Responses, SequenceTheorems, TLAPS

Known(r) == snap[r] # Unidentified

HiddenFrom(r) == IF Known(r) THEN snap[r].hidden ELSE {}

\* Rows: hubs, of which none bears a title in `hidden`.  What else there is
\* to a row does not matter.
HubFields == {"is", "of", "title", "size", "key", "ours", "hero", "malformed", "continues", "items"}

HubLike(x) == x = [f \in HubFields |-> x[f]] /\ x.is = "hub"

RowsOf(s, S, hidden) ==
    s \in Seq(S) /\ \A x \in S : HubLike(x) /\ CollectionTitle(x) \notin hidden

Rows(s, hidden) == \E S : RowsOf(s, S, hidden)

\* Items a page may show.
Clean(r, x) == IF Known(r) THEN OnlyPermitted(x, snap[r]) ELSE ~opened[r] => NoVersions(x)

CleanItems(r) == {x \in Item : Clean(r, x)}

ShownItems(r) == {x \in CleanItems(r) : CollectionTitle(x) \notin HiddenFrom(r)}

\* Items with all the versions Plex sent.
Originals == {x \in Item : x.media = Facts[x.id].media}

Remains(r, d) == Within(d[2], snap[r]) # {} \/ ~Facts[d[1]].playable

\* y is what is left of x: the permitted versions of it, and of what remains of
\* its descendants, have not changed.
Same(r, x, y) ==
    /\ y.id = x.id /\ Within(y.media, snap[r]) = Within(x.media, snap[r])
    /\ \A d \in x.inner : Remains(r, d) =>
          \E e \in y.inner : e[1] = d[1] /\ Within(e[2], snap[r]) = Within(d[2], snap[r])

Allowed(r, x) == Offers(x.media, snap[r]) /\ CollectionTitle(x) \notin snap[r].hidden

Among(r, x, s) == \E n \in 1..Len(s) : Same(r, x, s[n])

Later == {"restriction", "style", "watched", "interleave", "userState", "key", "shape"}

RequestFields ==
    {"kind", "account", "skips", "count", "noContinue", "raw", "ids", "start", "row"}

RequestLike(x) == x = [f \in RequestFields |-> x[f]]

IsFunction(f) == f = [r \in Requests |-> f[r]]

Shape ==
    /\ IsFunction(req) /\ IsFunction(snap) /\ IsFunction(todo)
    /\ IsFunction(left) /\ IsFunction(kept) /\ IsFunction(at)
    /\ opened \in [Requests -> BOOLEAN] /\ failClosed \in BOOLEAN
    /\ policy \in Policies
    /\ \A r \in Requests : /\ snap[r] \in Policies \cup {Unidentified}
                           /\ RequestLike(req[r])

InOrder(r) == todo[r] # <<>> /\ left[r] = <<>> => at[r] = "filter"

HomeInv(r) ==
    \/ /\ todo[r] = HomeChain(req[r].skips)
       /\ Rows(left[r], {}) /\ Rows(kept[r], HiddenFrom(r))
       /\ at[r] = "change" => CollectionTitle(left[r][1]) \notin HiddenFrom(r)
    \/ /\ todo[r] \in Seq(Later)
       /\ Rows(left[r], HiddenFrom(r)) /\ Rows(kept[r], HiddenFrom(r))

PolicyAtWork(r) ==
    /\ todo[r] = PolicyChain
    /\ left[r] \in Seq(Originals) /\ kept[r] \in Seq(CleanItems(r))
    /\ at[r] = "change" /\ Known(r) => Offers(left[r][1].media, snap[r])

VisibilityAtWork(r) ==
    /\ todo[r] = <<"visibility">>
    /\ left[r] \in Seq(CleanItems(r)) /\ kept[r] \in Seq(ShownItems(r))
    /\ at[r] = "change" => CollectionTitle(left[r][1]) \notin HiddenFrom(r)

PageDone(r) == todo[r] = <<>> /\ left[r] \in Seq(ShownItems(r)) /\ kept[r] = <<>>

Survives(r) ==
    Known(r) => \A m \in 1..Len(req[r].raw) :
        Allowed(r, req[r].raw[m]) =>
            Among(r, req[r].raw[m], left[r]) \/ Among(r, req[r].raw[m], kept[r])

PageInv(r) ==
    /\ req[r].raw \in Seq(Originals)
    /\ ~opened[r] => failClosed
    /\ PolicyAtWork(r) \/ VisibilityAtWork(r) \/ PageDone(r)
    /\ Survives(r)

RequestInv(r) ==
    /\ req[r].kind \in {"home", "page"} => InOrder(r)
    /\ req[r].kind = "home" => HomeInv(r)
    /\ req[r].kind = "page" => PageInv(r)

IInv == Shape /\ \A r \in Requests : RequestInv(r)

-----------------------------------------------------------------------------
(***************************************************************************)
(* Sequences, and sequences of rows.                                       *)
(***************************************************************************)
LEMMA AppendFacts ==
    ASSUME NEW S, NEW s \in Seq(S), NEW e \in S
    PROVE  /\ Append(s, e) \in Seq(S) /\ Len(Append(s, e)) = Len(s) + 1
           /\ \A n \in 1..Len(s) : Append(s, e)[n] = s[n]
           /\ Append(s, e)[Len(s) + 1] = e
BY AppendProperties

LEMMA TailFacts ==
    ASSUME NEW S, NEW s \in Seq(S), s # <<>>
    PROVE  /\ Tail(s) \in Seq(S) /\ Head(s) = s[1] /\ s[1] \in S
           /\ Len(Tail(s)) = Len(s) - 1 /\ Len(s) \in Nat /\ Len(s) > 0
           /\ \A n \in 1..Len(Tail(s)) : Tail(s)[n] = s[n + 1]
BY HeadTailProperties

LEMMA RowsTail ==
    ASSUME NEW s, NEW hidden, Rows(s, hidden), s # <<>>
    PROVE  /\ Rows(Tail(s), hidden) /\ Head(s) = s[1]
           /\ HubLike(s[1]) /\ CollectionTitle(s[1]) \notin hidden
<1>1. PICK S : s \in Seq(S) /\ \A x \in S : HubLike(x) /\ CollectionTitle(x) \notin hidden
  BY DEF Rows, RowsOf
<1>2. Tail(s) \in Seq(S) /\ Head(s) = s[1] /\ s[1] \in S
  BY <1>1, TailFacts
<1> QED
  BY <1>1, <1>2 DEF Rows, RowsOf

LEMMA RowsAppend ==
    ASSUME NEW s, NEW hidden, Rows(s, hidden),
           NEW x, HubLike(x), CollectionTitle(x) \notin hidden
    PROVE  Rows(Append(s, x), hidden)
<1>1. PICK S : s \in Seq(S) /\ \A y \in S : HubLike(y) /\ CollectionTitle(y) \notin hidden
  BY DEF Rows, RowsOf
<1>2. s \in Seq(S \cup {x})
  BY <1>1, SeqMonotonic
<1>3. Append(s, x) \in Seq(S \cup {x})
  BY <1>2, AppendFacts
<1> QED
  BY <1>1, <1>3 DEF Rows, RowsOf

LEMMA RowsEmpty ==
    ASSUME NEW hidden
    PROVE  Rows(<<>>, hidden)
<1>1. RowsOf(<<>>, {}, hidden)
  BY EmptySeq DEF RowsOf
<1> QED
  BY <1>1 DEF Rows

LEMMA RowsExcept ==
    ASSUME NEW s, NEW hidden, Rows(s, hidden), NEW n,
           NEW x, n \in 1..Len(s) => HubLike(x) /\ CollectionTitle(x) \notin hidden
    PROVE  Rows([s EXCEPT ![n] = x], hidden)
<1>1. PICK S : s \in Seq(S) /\ \A y \in S : HubLike(y) /\ CollectionTitle(y) \notin hidden
  BY DEF Rows, RowsOf
<1>2. s = [i \in 1..Len(s) |-> s[i]] /\ Len(s) \in Nat /\ \A i \in 1..Len(s) : s[i] \in S
  BY <1>1, LenProperties, ElementOfSeq
<1>3. CASE n \in 1..Len(s)
  <2>1. s \in Seq(S \cup {x})
    BY <1>1, SeqMonotonic
  <2>2. [s EXCEPT ![n] = x] \in Seq(S \cup {x})
    BY <1>3, <2>1, ExceptSeq
  <2> QED
    BY <1>1, <1>3, <2>2 DEF Rows, RowsOf
<1>4. CASE n \notin 1..Len(s)
  <2>1. [s EXCEPT ![n] = x] = s
    BY <1>2, <1>4
  <2> QED
    BY <2>1
<1> QED
  BY <1>3, <1>4

\* What a transform does to a row leaves it a row of its title.
LEMMA SetItemsFacts ==
    ASSUME NEW x, HubLike(x), NEW items
    PROVE  HubLike(SetItems(x, items)) /\ CollectionTitle(SetItems(x, items)) = CollectionTitle(x)
BY DEF HubLike, HubFields, SetItems, CollectionTitle, IsHub

LEMMA NewKey ==
    ASSUME NEW x, HubLike(x), NEW key
    PROVE  LET y == [x EXCEPT !.key = key] IN HubLike(y) /\ CollectionTitle(y) = CollectionTitle(x)
BY DEF HubLike, HubFields, CollectionTitle, IsHub

LEMMA ChangedRow ==
    ASSUME NEW r, NEW t \in Later \cup {"visibility"}, NEW x, HubLike(x)
    PROVE  HubLike(Changed(r, t, x)) /\ CollectionTitle(Changed(r, t, x)) = CollectionTitle(x)
<1>1. CASE t = "watched"
  BY <1>1 DEF Changed, WithoutWatched, HubLike, HubFields, CollectionTitle, IsHub
<1>2. CASE t = "userState"
  BY <1>2 DEF Changed, Leafless, HubLike, HubFields, CollectionTitle, IsHub
<1>3. CASE t = "key"
  BY <1>3 DEF Changed, Keyed, HubLike, HubFields, CollectionTitle, IsHub
<1>4. CASE t = "shape"
  BY <1>4 DEF Changed, Counted, HubLike, HubFields, CollectionTitle, IsHub
<1>5. CASE t \in {"visibility", "restriction", "style", "interleave"}
  BY <1>5 DEF Changed
<1> QED
  BY <1>1, <1>2, <1>3, <1>4, <1>5 DEF Later

LEMMA MergedRows ==
    ASSUME NEW rows, NEW hidden, Rows(rows, hidden),
           NEW x, HubLike(x), CollectionTitle(x) \notin hidden
    PROVE  Rows(Merged(rows, x), hidden)
<1> DEFINE twins == {n \in 1..Len(rows) : Twins(rows[n], x)}
           first == CHOOSE n \in twins : \A k \in twins : n <= k
           old == rows[first]
           new == [SetItems(old, Interleaved(old.items, x.items)) EXCEPT !.key = old.key \o x.key]
<1>1. Rows(Append(rows, x), hidden)
  BY RowsAppend
<1>2. Rows([rows EXCEPT ![first] = new], hidden)
  <2>1. ASSUME first \in 1..Len(rows)
        PROVE  HubLike(old) /\ CollectionTitle(old) \notin hidden
    BY <2>1, ElementOfSeq DEF Rows, RowsOf
  <2>2. ASSUME first \in 1..Len(rows)
        PROVE  HubLike(new) /\ CollectionTitle(new) \notin hidden
    <3>1. HubLike(old) /\ CollectionTitle(old) \notin hidden
      BY <2>1, <2>2
    <3> DEFINE set == SetItems(old, Interleaved(old.items, x.items))
    <3>2. HubLike(set) /\ CollectionTitle(set) \notin hidden
      BY <3>1, SetItemsFacts
    <3> DEFINE key == old.key \o x.key
    <3> HIDE DEF set, key
    <3>3. LET y == [set EXCEPT !.key = key] IN HubLike(y) /\ CollectionTitle(y) = CollectionTitle(set)
      BY <3>2, NewKey
    <3> QED
      BY <3>2, <3>3, Zenon DEF set, key
  <2> HIDE DEF new, first
  <2> QED
    BY <2>2, RowsExcept
<1>3. \/ Merged(rows, x) = rows \/ Merged(rows, x) = Append(rows, x)
      \/ Merged(rows, x) = [rows EXCEPT ![first] = new]
  BY DEF Merged
<1> QED
  BY <1>1, <1>2, <1>3

-----------------------------------------------------------------------------
(***************************************************************************)
(* Items, and what a page begins with.                                     *)
(***************************************************************************)
LEMMA PolicyLimit ==
    ASSUME NEW p \in Policies
    PROVE  p.limit \in Nat /\ p.hidden \in SUBSET Titles
BY WorldAssumption DEF Policy

LEMMA WithinTwice ==
    ASSUME NEW media, NEW p
    PROVE  Within(Within(media, p), p) = Within(media, p) /\ Within(media, p) \subseteq media
BY DEF Within

\* What is left of an item's versions, and of its descendants.
Versions == SUBSET Nat

Descendants == SUBSET (Items \X SUBSET Nat)

Less(x, media, inner) == [x EXCEPT !.media = media, !.inner = inner]

LEMMA ItemFields ==
    ASSUME NEW x \in Item
    PROVE  /\ x.is = "item" /\ x.id \in Items /\ x.leaves \in Nat \cup {-1}
           /\ x.media \in Versions /\ x.inner \in Descendants
           /\ x = [is |-> x.is, id |-> x.id, leaves |-> x.leaves, media |-> x.media,
                   inner |-> x.inner]
BY DEF Item, Versions, Descendants

LEMMA LessOfItem ==
    ASSUME NEW x \in Item, NEW media \in Versions, NEW inner \in Descendants
    PROVE  /\ Less(x, media, inner) \in Item /\ Less(x, media, inner).id = x.id
           /\ Less(x, media, inner).media = media /\ Less(x, media, inner).inner = inner
BY ItemFields DEF Item, Versions, Descendants, Less

LEMMA LessIsMore ==
    /\ {} \in Versions
    /\ \A media \in Versions : \A p : Within(media, p) \in Versions
    /\ \A inner \in Descendants : {<<d[1], {}>> : d \in inner} \in Descendants
<1>1. {} \in Versions
  BY DEF Versions
<1>2. \A media \in Versions : \A p : Within(media, p) \in Versions
  BY WithinTwice DEF Versions
<1>3. \A inner \in Descendants : {<<d[1], {}>> : d \in inner} \in Descendants
  BY DEF Descendants
<1> QED
  BY <1>1, <1>2, <1>3

LEMMA PrunedFacts ==
    ASSUME NEW inner \in Descendants, NEW p
    PROVE  /\ Pruned(inner, p) \in Descendants
           /\ \A d \in Pruned(inner, p) : /\ Within(d[2], p) = d[2]
                                          /\ Facts[d[1]].playable => d[2] # {}
           /\ \A e \in inner : Within(e[2], p) # {} \/ ~Facts[e[1]].playable =>
                 <<e[1], Within(e[2], p)>> \in Pruned(inner, p)
<1> DEFINE stay == {e \in inner : Within(e[2], p) # {} \/ ~Facts[e[1]].playable}
<1>1. Pruned(inner, p) = {<<e[1], Within(e[2], p)>> : e \in stay}
  BY DEF Pruned
<1>2. ASSUME NEW e \in stay
      PROVE  /\ e[1] \in Items /\ Within(e[2], p) \in SUBSET Nat
             /\ Within(Within(e[2], p), p) = Within(e[2], p)
             /\ Facts[e[1]].playable => Within(e[2], p) # {}
  <2>1. e[1] \in Items /\ e[2] \in SUBSET Nat
    BY DEF Descendants
  <2>2. Within(Within(e[2], p), p) = Within(e[2], p) /\ Within(e[2], p) \subseteq e[2]
    BY WithinTwice
  <2> QED
    BY <2>1, <2>2
<1>3. ASSUME NEW d \in Pruned(inner, p)
      PROVE  /\ d \in Items \X SUBSET Nat /\ Within(d[2], p) = d[2]
             /\ Facts[d[1]].playable => d[2] # {}
  <2>1. PICK e \in stay : d = <<e[1], Within(e[2], p)>>
    BY <1>1
  <2>2. d[1] = e[1] /\ d[2] = Within(e[2], p)
    BY <2>1
  <2> QED
    BY <1>2, <2>1, <2>2
<1>4. \A e \in inner : Within(e[2], p) # {} \/ ~Facts[e[1]].playable =>
         <<e[1], Within(e[2], p)>> \in Pruned(inner, p)
  BY <1>1
<1> QED
  BY <1>3, <1>4 DEF Descendants

LEMMA FilteredItem ==
    ASSUME NEW r, NEW x \in Originals, snap[r] \in Policies \cup {Unidentified},
           opened[r] \in BOOLEAN, failClosed \in BOOLEAN, ~opened[r] => failClosed,
           Known(r) => Offers(x.media, snap[r])
    PROVE  LET y == Filtered(snap[r], x) IN
           /\ y \in CleanItems(r)
           /\ Known(r) => \A z : Same(r, z, x) => Same(r, z, y)
<1>1. x \in Item /\ x.media = Facts[x.id].media
  BY DEF Originals
<1>2. CASE Known(r) /\ snap[r].limit = Unlimited
  <2>1. Filtered(snap[r], x) = x
    BY <1>2 DEF Filtered, Known
  <2>2. \A media : Within(media, snap[r]) = media
    BY <1>2 DEF Within, Permitted
  <2>3. OnlyPermitted(x, snap[r])
    BY <1>1, <1>2, <2>2 DEF OnlyPermitted
  <2> QED
    BY <1>1, <1>2, <2>1, <2>3 DEF CleanItems, Clean
<1>3. CASE Known(r) /\ snap[r].limit # Unlimited
  <2> DEFINE media == Within(x.media, snap[r])
             inner == Pruned(x.inner, snap[r])
             y == Less(x, media, inner)
  <2>1. Filtered(snap[r], x) = y
    BY <1>3 DEF Filtered, Known, Less
  <2>2. x.media \in Versions /\ x.inner \in Descendants
    BY <1>1, ItemFields
  <2>3. Within(media, snap[r]) = media /\ media \in Versions
    BY <2>2, WithinTwice, LessIsMore
  <2>4. /\ inner \in Descendants
        /\ \A d \in inner : /\ Within(d[2], snap[r]) = d[2]
                            /\ Facts[d[1]].playable => d[2] # {}
        /\ \A e \in x.inner : Remains(r, e) => <<e[1], Within(e[2], snap[r])>> \in inner
    BY <2>2, PrunedFacts DEF Remains
  <2>5. x.media # {} => media # {}
    BY <1>3 DEF Offers
  <2> HIDE DEF media, inner
  <2>6. y \in Item /\ y.id = x.id /\ y.media = media /\ y.inner = inner
    BY <1>1, <2>3, <2>4, LessOfItem
  <2> HIDE DEF y
  <2>7. OnlyPermitted(y, snap[r])
    BY <1>1, <2>3, <2>4, <2>5, <2>6 DEF OnlyPermitted
  <2>8. ASSUME NEW z, Same(r, z, x)
        PROVE  Same(r, z, y)
    <3>1. y.id = z.id /\ Within(y.media, snap[r]) = Within(z.media, snap[r])
      BY <2>3, <2>6, <2>8 DEF Same, media
    <3>2. ASSUME NEW d \in z.inner, Remains(r, d)
          PROVE  \E e \in y.inner : e[1] = d[1] /\ Within(e[2], snap[r]) = Within(d[2], snap[r])
      <4>1. PICK e \in x.inner : e[1] = d[1] /\ Within(e[2], snap[r]) = Within(d[2], snap[r])
        BY <2>8, <3>2 DEF Same
      <4>2. Remains(r, e)
        BY <3>2, <4>1 DEF Remains
      <4>3. <<e[1], Within(e[2], snap[r])>> \in y.inner
        BY <2>4, <2>6, <4>2
      <4>4. Within(Within(e[2], snap[r]), snap[r]) = Within(d[2], snap[r])
        BY <4>1, WithinTwice
      <4> WITNESS <<e[1], Within(e[2], snap[r])>> \in y.inner
      <4> QED
        BY <4>1, <4>4
    <3> QED
      BY <3>1, <3>2 DEF Same
  <2> QED
    BY <1>3, <2>1, <2>6, <2>7, <2>8 DEF CleanItems, Clean
<1>4. CASE ~Known(r) /\ failClosed
  <2> DEFINE inner == {<<d[1], {}>> : d \in x.inner}
             y == Less(x, {}, inner)
  <2>1. Filtered(snap[r], x) = y
    BY <1>4 DEF Filtered, Cleared, Known, Less
  <2>2. inner \in Descendants
    BY <1>1, ItemFields, LessIsMore
  <2>3. \A d \in inner : d[2] = {}
    OBVIOUS
  <2> HIDE DEF inner
  <2>4. y \in Item /\ y.media = {} /\ y.inner = inner
    BY <1>1, <2>2, LessIsMore, LessOfItem
  <2> HIDE DEF y
  <2> QED
    BY <1>4, <2>1, <2>3, <2>4 DEF CleanItems, Clean, NoVersions
<1>5. CASE ~Known(r) /\ ~failClosed
  BY <1>1, <1>5 DEF Filtered, CleanItems, Clean, Known
<1> QED
  BY <1>2, <1>3, <1>4, <1>5

LEMMA RawItem ==
    ASSUME NEW i \in Items
    PROVE  Raw(i) \in Originals /\ Raw(i) \in Item
<1>1. \A k \in Items : Facts[k].media \in SUBSET Nat
  BY WorldAssumption DEF Fact
<1>2. Facts[i].leaves \in Nat \cup {-1} /\ Facts[i].kids \subseteq Items
  BY WorldAssumption DEF Fact
<1>3. {<<k, Facts[k].media>> : k \in Facts[i].kids} \in SUBSET (Items \X SUBSET Nat)
  BY <1>1, <1>2
<1> QED
  BY <1>1, <1>2, <1>3 DEF Raw, Item, Originals

LEMMA RawPage ==
    ASSUME NEW page \in Pages
    PROVE  RawItems(page) \in Seq(Originals) /\ RawItems(page) \in Seq(Item)
<1>1. page \in Seq(Items)
  BY WorldAssumption
<1>2. Len(page) \in Nat /\ \A n \in 1..Len(page) : page[n] \in Items
  BY <1>1, ElementOfSeq, LenProperties
<1>3. \A n \in 1..Len(page) : Raw(page[n]) \in Originals /\ Raw(page[n]) \in Item
  BY <1>2, RawItem
<1> QED
  BY <1>2, <1>3, IsASeq DEF RawItems

LEMMA RawHome ==
    ASSUME NEW a \in Accounts
    PROVE  Rows(HomeRows[a], {})
<1>1. HomeRows[a] \in Seq(Hub)
  BY WorldAssumption
<1>2. \A x \in Hub : HubLike(x)
  BY DEF Hub, HubLike, HubFields
<1>3. RowsOf(HomeRows[a], Hub, {})
  BY <1>1, <1>2 DEF RowsOf
<1> QED
  BY <1>3 DEF Rows

LEMMA Chains ==
    ASSUME NEW skips
    PROVE  /\ HomeChain(skips) # <<>> /\ Head(HomeChain(skips)) = "visibility"
           /\ Tail(HomeChain(skips)) \in Seq(Later)
           /\ PolicyChain # <<>> /\ Head(PolicyChain) = "policy"
           /\ Tail(PolicyChain) = <<"visibility">>
<1> DEFINE rest == <<"restriction", "style", "watched", "interleave", "userState", "key", "shape">>
           all == <<"visibility", "restriction", "style", "watched", "interleave", "userState", "key",
                    "shape">>
<1>1. HomeChain(skips) = <<"visibility">> \/ HomeChain(skips) = all
  BY DEF HomeChain
<1>2. rest \in Seq(Later) /\ <<>> \in Seq(Later)
  BY DEF Later
<1>3. Tail(all) = rest /\ Head(all) = "visibility" /\ all # <<>>
  OBVIOUS
<1> HIDE DEF rest, all
<1>4. Tail(HomeChain(skips)) \in Seq(Later) /\ Head(HomeChain(skips)) = "visibility"
      /\ HomeChain(skips) # <<>>
  <2>1. CASE HomeChain(skips) = <<"visibility">>
    BY <1>2, <2>1
  <2>2. CASE HomeChain(skips) = all
    BY <1>2, <1>3, <2>2
  <2> QED
    BY <1>1, <2>1, <2>2
<1>5. PolicyChain # <<>> /\ Head(PolicyChain) = "policy" /\ Tail(PolicyChain) = <<"visibility">>
  BY DEF PolicyChain
<1> QED
  BY <1>4, <1>5

-----------------------------------------------------------------------------
(***************************************************************************)
(* The steps of a request.                                                 *)
(***************************************************************************)
\* What survived is still there when the items of one list are found again.
LEMMA SurvivesKept ==
    ASSUME NEW r \in Requests, Survives(r), req'[r] = req[r], snap'[r] = snap[r],
           req[r].raw \in Seq(Originals),
           Known(r) => \A x \in Originals : Allowed(r, x) /\ (Among(r, x, left[r]) \/ Among(r, x, kept[r]))
                                => Among(r, x, left'[r]) \/ Among(r, x, kept'[r])
    PROVE  Survives(r)'
<1>1. CASE ~Known(r)
  BY <1>1 DEF Survives, Known
<1>2. CASE Known(r)
  <2>1. \A x : Allowed(r, x)' = Allowed(r, x)
    BY DEF Allowed
  <2>2. \A x : Among(r, x, left[r])' = Among(r, x, left'[r]) /\ Among(r, x, kept[r])' = Among(r, x, kept'[r])
    BY DEF Among, Same, Remains
  <2>3. \A m \in 1..Len(req[r].raw) : req[r].raw[m] \in Originals
    BY ElementOfSeq
  <2> QED
    BY <1>2, <2>1, <2>2, <2>3 DEF Survives, Known
<1> QED
  BY <1>1, <1>2

\* What a transform leaves alone.
SameRequest(r) ==
    /\ req'[r] = req[r] /\ snap'[r] = snap[r] /\ opened'[r] = opened[r]
    /\ failClosed' = failClosed

LEMMA Untouched ==
    ASSUME NEW r \in Requests, RequestInv(r),
           req'[r] = req[r], snap'[r] = snap[r], todo'[r] = todo[r],
           left'[r] = left[r], kept'[r] = kept[r], at'[r] = at[r],
           opened[r] \in BOOLEAN, opened'[r] \in BOOLEAN, opened[r] => opened'[r],
           (~opened[r] => failClosed) => (~opened'[r] => failClosed')
    PROVE  RequestInv(r)'
<1>1. Known(r)' = Known(r) /\ HiddenFrom(r)' = HiddenFrom(r)
  BY DEF Known, HiddenFrom
<1>2. req[r].kind \in {"home", "page"} => InOrder(r)'
  BY DEF InOrder, RequestInv
<1>3. ASSUME req[r].kind = "home"
      PROVE  HomeInv(r)'
  BY <1>1, <1>3 DEF HomeInv, RequestInv
<1>4. ASSUME req[r].kind = "page"
      PROVE  PageInv(r)'
  <2>1. PageInv(r)
    BY <1>4 DEF RequestInv
  <2>2. CleanItems(r) \subseteq CleanItems(r)' /\ ShownItems(r) \subseteq ShownItems(r)'
    BY <1>1 DEF CleanItems, ShownItems, Clean, Known
  <2>3. Seq(CleanItems(r)) \subseteq Seq(CleanItems(r)')
        /\ Seq(ShownItems(r)) \subseteq Seq(ShownItems(r)')
    BY <2>2, SeqMonotonic
  <2>4. PolicyAtWork(r) => PolicyAtWork(r)'
    BY <1>1, <2>3 DEF PolicyAtWork
  <2>5. VisibilityAtWork(r) => VisibilityAtWork(r)'
    BY <1>1, <2>3 DEF VisibilityAtWork
  <2>6. PageDone(r) => PageDone(r)'
    BY <1>1, <2>3 DEF PageDone
  <2>7. Survives(r)'
    BY <2>1, SurvivesKept DEF PageInv
  <2>8. req'[r].raw \in Seq(Originals) /\ (~opened'[r] => failClosed')
    BY <2>1 DEF PageInv
  <2> QED
    BY <2>1, <2>4, <2>5, <2>6, <2>7, <2>8 DEF PageInv
<1> QED
  BY <1>2, <1>3, <1>4 DEF RequestInv

LEMMA PageSame ==
    ASSUME NEW r \in Requests, SameRequest(r)
    PROVE  /\ CleanItems(r)' = CleanItems(r) /\ ShownItems(r)' = ShownItems(r)
           /\ Known(r)' = Known(r) /\ HiddenFrom(r)' = HiddenFrom(r)
BY DEF SameRequest, CleanItems, ShownItems, Clean, Known, HiddenFrom

LEMMA FilterInv ==
    ASSUME NEW r \in Requests, Shape, RequestInv(r), FilterChild(r)
    PROVE  RequestInv(r)'
<1>1. /\ todo[r] # <<>> /\ left[r] # <<>> /\ at[r] = "filter"
      /\ SameRequest(r) /\ todo'[r] = todo[r] /\ kept'[r] = kept[r]
      /\ \/ /\ Keeps(r, Head(todo[r]), Head(left[r]))
            /\ left'[r] = left[r] /\ at'[r] = "change"
         \/ /\ ~Keeps(r, Head(todo[r]), Head(left[r]))
            /\ left'[r] = Tail(left[r]) /\ at'[r] = "filter"
  BY DEF FilterChild, Busy, Shape, IsFunction, SameRequest, world
<1>2. InOrder(r)'
  BY <1>1 DEF InOrder
<1>3. Known(r)' = Known(r) /\ HiddenFrom(r)' = HiddenFrom(r) /\ CleanItems(r)' = CleanItems(r)
      /\ ShownItems(r)' = ShownItems(r)
  BY <1>1, PageSame
<1>4. VisibilityKeeps(snap[r], Head(left[r])) => CollectionTitle(Head(left[r])) \notin HiddenFrom(r)
  BY DEF VisibilityKeeps, HiddenFrom, Known
<1>5. ASSUME req[r].kind = "home"
      PROVE  HomeInv(r)'
  <2>1. CASE todo[r] = HomeChain(req[r].skips)
             /\ Rows(left[r], {}) /\ Rows(kept[r], HiddenFrom(r))
    <3>1. Head(todo[r]) = "visibility" /\ todo'[r] = HomeChain(req'[r].skips)
      BY <1>1, <2>1, Chains DEF SameRequest
    <3>2. Rows(Tail(left[r]), {}) /\ Head(left[r]) = left[r][1]
      BY <1>1, <2>1, RowsTail
    <3>3. Keeps(r, Head(todo[r]), Head(left[r])) => CollectionTitle(left[r][1]) \notin HiddenFrom(r)
      BY <1>4, <3>1, <3>2 DEF Keeps
    <3> QED
      BY <1>1, <1>3, <2>1, <3>1, <3>2, <3>3 DEF HomeInv
  <2>2. CASE todo[r] \in Seq(Later) /\ Rows(left[r], HiddenFrom(r)) /\ Rows(kept[r], HiddenFrom(r))
    <3>1. Rows(Tail(left[r]), HiddenFrom(r))
      BY <1>1, <2>2, RowsTail
    <3> QED
      BY <1>1, <1>3, <2>2, <3>1 DEF HomeInv
  <2> QED
    BY <1>5, <2>1, <2>2 DEF RequestInv, HomeInv
<1>6. ASSUME req[r].kind = "page"
      PROVE  PageInv(r)'
  <2>1. PageInv(r)
    BY <1>6 DEF RequestInv
  <2>2. CASE PolicyAtWork(r)
    <3>1. Head(todo[r]) = "policy" /\ left[r] \in Seq(Originals)
      BY <2>2, Chains DEF PolicyAtWork
    <3>2. /\ Tail(left[r]) \in Seq(Originals) /\ Head(left[r]) = left[r][1]
          /\ left[r][1] \in Originals
          /\ Len(Tail(left[r])) = Len(left[r]) - 1 /\ Len(left[r]) \in Nat /\ Len(left[r]) > 0
          /\ \A n \in 1..Len(Tail(left[r])) : Tail(left[r])[n] = left[r][n + 1]
      BY <1>1, <3>1, TailFacts
    <3>3. Keeps(r, Head(todo[r]), Head(left[r])) = PolicyKeeps(snap[r], left[r][1])
      BY <3>1, <3>2 DEF Keeps
    <3>4. Known(r) => PolicyKeeps(snap[r], left[r][1]) = Offers(left[r][1].media, snap[r])
      BY DEF Known, PolicyKeeps
    <3>5. PolicyAtWork(r)'
      BY <1>1, <1>3, <2>2, <3>2, <3>3, <3>4 DEF PolicyAtWork, SameRequest
    <3>6. ASSUME Known(r), NEW x \in Originals, Allowed(r, x), Among(r, x, left[r]) \/ Among(r, x, kept[r])
          PROVE  Among(r, x, left'[r]) \/ Among(r, x, kept'[r])
      <4>1. CASE Keeps(r, Head(todo[r]), Head(left[r]))
        BY <1>1, <3>6, <4>1
      <4>2. CASE ~Keeps(r, Head(todo[r]), Head(left[r]))
        <5>1. left'[r] = Tail(left[r]) /\ kept'[r] = kept[r]
          BY <1>1, <4>2
        <5>2. ~Same(r, x, left[r][1])
          <6>1. ~Offers(left[r][1].media, snap[r]) /\ Offers(x.media, snap[r])
            BY <3>3, <3>4, <3>6, <4>2 DEF Allowed
          <6>2. left[r][1].id = x.id => left[r][1].media = x.media
            BY <3>2, <3>6 DEF Originals
          <6> QED
            BY <6>1, <6>2 DEF Same
        <5>3. ASSUME NEW n \in 1..Len(left[r]), Same(r, x, left[r][n])
              PROVE  Among(r, x, Tail(left[r]))
          <6>1. n # 1
            BY <5>2, <5>3
          <6>2. n - 1 \in 1..Len(Tail(left[r])) /\ Tail(left[r])[n - 1] = left[r][n]
            BY <3>2, <6>1
          <6> QED
            BY <5>3, <6>2 DEF Among
        <5> QED
          BY <3>6, <5>1, <5>3 DEF Among
      <4> QED
        BY <4>1, <4>2
    <3>7. Survives(r)'
      BY <1>1, <2>1, <3>6, SurvivesKept DEF PageInv, SameRequest
    <3> QED
      BY <1>1, <2>1, <3>5, <3>7 DEF PageInv, SameRequest
  <2>3. CASE VisibilityAtWork(r)
    <3>1. Head(todo[r]) = "visibility" /\ left[r] \in Seq(CleanItems(r))
      BY <2>3 DEF VisibilityAtWork
    <3>2. /\ Tail(left[r]) \in Seq(CleanItems(r)) /\ Head(left[r]) = left[r][1]
          /\ left[r][1] \in CleanItems(r)
          /\ Len(Tail(left[r])) = Len(left[r]) - 1 /\ Len(left[r]) \in Nat /\ Len(left[r]) > 0
          /\ \A n \in 1..Len(Tail(left[r])) : Tail(left[r])[n] = left[r][n + 1]
      BY <1>1, <3>1, TailFacts
    <3>3. Keeps(r, Head(todo[r]), Head(left[r])) = VisibilityKeeps(snap[r], left[r][1])
      BY <3>1, <3>2 DEF Keeps
    <3>4. VisibilityAtWork(r)'
      BY <1>1, <1>3, <1>4, <2>3, <3>2, <3>3 DEF VisibilityAtWork, SameRequest
    <3>5. ASSUME Known(r), NEW x \in Originals, Allowed(r, x),
                 Among(r, x, left[r]) \/ Among(r, x, kept[r])
          PROVE  Among(r, x, left'[r]) \/ Among(r, x, kept'[r])
      <4>1. CASE Keeps(r, Head(todo[r]), Head(left[r]))
        BY <1>1, <3>5, <4>1
      <4>2. CASE ~Keeps(r, Head(todo[r]), Head(left[r]))
        <5>1. left'[r] = Tail(left[r]) /\ kept'[r] = kept[r]
          BY <1>1, <4>2
        <5>2. ~Same(r, x, left[r][1])
          <6>1. CollectionTitle(left[r][1]) \in snap[r].hidden
            BY <3>3, <3>5, <4>2 DEF VisibilityKeeps, Known
          <6>2. left[r][1].id = x.id => CollectionTitle(left[r][1]) = CollectionTitle(x)
            BY <3>2, <3>5 DEF CollectionTitle, IsHub, CleanItems, Originals, Item
          <6> QED
            BY <3>5, <6>1, <6>2 DEF Same, Allowed
        <5>3. ASSUME NEW n \in 1..Len(left[r]), Same(r, x, left[r][n])
              PROVE  Among(r, x, Tail(left[r]))
          <6>1. n # 1
            BY <5>2, <5>3
          <6>2. n - 1 \in 1..Len(Tail(left[r])) /\ Tail(left[r])[n - 1] = left[r][n]
            BY <3>2, <6>1
          <6> QED
            BY <5>3, <6>2 DEF Among
        <5> QED
          BY <3>5, <5>1, <5>3 DEF Among
      <4> QED
        BY <4>1, <4>2
    <3>6. Survives(r)'
      BY <1>1, <2>1, <3>5, SurvivesKept DEF PageInv, SameRequest
    <3> QED
      BY <1>1, <2>1, <3>4, <3>6 DEF PageInv, SameRequest
  <2> QED
    BY <1>1, <2>1, <2>2, <2>3 DEF PageInv, PageDone
<1> QED
  BY <1>1, <1>2, <1>5, <1>6 DEF RequestInv, SameRequest

LEMMA ChangeInv ==
    ASSUME NEW r \in Requests, Shape, RequestInv(r), ChangeChild(r)
    PROVE  RequestInv(r)'
<1> DEFINE t == Head(todo[r])
           x == Head(left[r])
           done == IF t = "interleave" THEN Merged(kept[r], x) ELSE Append(kept[r], Changed(r, t, x))
<1>1. /\ todo[r] # <<>> /\ left[r] # <<>> /\ at[r] = "change"
      /\ SameRequest(r) /\ todo'[r] = todo[r]
      /\ kept'[r] = done /\ left'[r] = Tail(left[r]) /\ at'[r] = "filter"
  BY DEF ChangeChild, Busy, Shape, IsFunction, SameRequest, world
<1>2. InOrder(r)'
  BY <1>1 DEF InOrder
<1>3. Known(r)' = Known(r) /\ HiddenFrom(r)' = HiddenFrom(r) /\ CleanItems(r)' = CleanItems(r)
      /\ ShownItems(r)' = ShownItems(r)
  BY <1>1, PageSame
<1>4. snap[r] \in Policies \cup {Unidentified} /\ opened[r] \in BOOLEAN /\ failClosed \in BOOLEAN
  BY DEF Shape
<1>5. ASSUME req[r].kind = "home"
      PROVE  HomeInv(r)'
  <2>1. HomeInv(r)
    BY <1>5 DEF RequestInv
  <2>2. PICK before : /\ Rows(left[r], before)
                      /\ HubLike(x) /\ CollectionTitle(x) \notin HiddenFrom(r)
                      /\ Rows(Tail(left[r]), before)
                      /\ Rows(kept[r], HiddenFrom(r)) /\ t \in Later \cup {"visibility"}
                      /\ \/ todo[r] = HomeChain(req[r].skips) /\ before = {}
                         \/ todo[r] \in Seq(Later) /\ before = HiddenFrom(r)
    <3>1. CASE todo[r] = HomeChain(req[r].skips) /\ Rows(left[r], {}) /\ Rows(kept[r], HiddenFrom(r))
               /\ (at[r] = "change" => CollectionTitle(left[r][1]) \notin HiddenFrom(r))
      <4>1. /\ Rows(Tail(left[r]), {}) /\ x = left[r][1] /\ HubLike(x)
            /\ CollectionTitle(x) \notin HiddenFrom(r) /\ t = "visibility"
        <5>1. /\ Rows(Tail(left[r]), {}) /\ Head(left[r]) = left[r][1] /\ HubLike(left[r][1])
          BY <1>1, <3>1, RowsTail
        <5>2. t = "visibility"
          BY <3>1, Chains
        <5> QED
          BY <1>1, <3>1, <5>1, <5>2
      <4> QED
        BY <3>1, <4>1
    <3>2. CASE todo[r] \in Seq(Later) /\ Rows(left[r], HiddenFrom(r)) /\ Rows(kept[r], HiddenFrom(r))
      <4>1. t \in Later
        BY <1>1, <3>2, TailFacts
      <4> QED
        BY <1>1, <3>2, <4>1, RowsTail
    <3> QED
      BY <2>1, <3>1, <3>2 DEF HomeInv
  <2>3. HubLike(Changed(r, t, x)) /\ CollectionTitle(Changed(r, t, x)) \notin HiddenFrom(r)
    BY <2>2, ChangedRow
  <2>4. Rows(done, HiddenFrom(r))
    BY <2>2, <2>3, RowsAppend, MergedRows
  <2> QED
    BY <1>1, <1>3, <2>2, <2>4 DEF HomeInv, SameRequest
<1>6. ASSUME req[r].kind = "page"
      PROVE  PageInv(r)'
  <2>1. PageInv(r)
    BY <1>6 DEF RequestInv
  <2>2. ASSUME NEW S, NEW T, left[r] \in Seq(S), kept[r] \in Seq(T), done = Append(kept[r], Changed(r, t, x)),
               Changed(r, t, x) \in T,
               Known(r) => \A z : Same(r, z, x) => Same(r, z, Changed(r, t, x))
        PROVE  kept'[r] \in Seq(T) /\ left'[r] \in Seq(S) /\ Survives(r)'
    <3>1. /\ Tail(left[r]) \in Seq(S) /\ x = left[r][1] /\ Len(left[r]) \in Nat
          /\ Len(Tail(left[r])) = Len(left[r]) - 1
          /\ \A n \in 1..Len(Tail(left[r])) : Tail(left[r])[n] = left[r][n + 1]
      BY <1>1, <2>2, TailFacts
    <3>2. /\ done \in Seq(T) /\ Len(done) = Len(kept[r]) + 1 /\ Len(kept[r]) \in Nat
          /\ \A n \in 1..Len(kept[r]) : done[n] = kept[r][n]
          /\ done[Len(kept[r]) + 1] = Changed(r, t, x)
      <4> DEFINE new == Changed(r, t, x)
      <4> HIDE DEF new
      <4>1. new \in T /\ done = Append(kept[r], new)
        BY <2>2 DEF new
      <4> HIDE DEF done
      <4>2. /\ done \in Seq(T) /\ Len(done) = Len(kept[r]) + 1 /\ Len(kept[r]) \in Nat
            /\ \A n \in 1..Len(kept[r]) : done[n] = kept[r][n]
            /\ done[Len(kept[r]) + 1] = new
        BY <2>2, <4>1, AppendFacts, LenProperties
      <4> QED
        BY <4>2 DEF new
    <3> HIDE DEF done, x, t
    <3>3. ASSUME Known(r), NEW z \in Originals, Allowed(r, z), Among(r, z, left[r]) \/ Among(r, z, kept[r])
          PROVE  Among(r, z, left'[r]) \/ Among(r, z, kept'[r])
      <4>1. ASSUME NEW n \in 1..Len(kept[r]), Same(r, z, kept[r][n])
            PROVE  Among(r, z, done)
        <5>1. n \in 1..Len(done) /\ done[n] = kept[r][n]
          BY <3>2, <4>1
        <5> QED
          BY <4>1, <5>1 DEF Among
      <4>2. ASSUME NEW n \in 1..Len(left[r]), Same(r, z, left[r][n])
            PROVE  Among(r, z, Tail(left[r])) \/ Among(r, z, done)
        <5>1. CASE n = 1
          <6>1. Same(r, z, done[Len(kept[r]) + 1]) /\ Len(kept[r]) + 1 \in 1..Len(done)
            BY <2>2, <3>1, <3>2, <3>3, <4>2, <5>1
          <6> QED
            BY <6>1 DEF Among
        <5>2. CASE n # 1
          <6>1. n - 1 \in 1..Len(Tail(left[r])) /\ Tail(left[r])[n - 1] = left[r][n]
            BY <3>1, <5>2
          <6> QED
            BY <4>2, <6>1 DEF Among
        <5> QED
          BY <5>1, <5>2
      <4> QED
        BY <1>1, <3>3, <4>1, <4>2 DEF Among
    <3>4. Survives(r)'
      BY <1>1, <2>1, <3>3, SurvivesKept DEF PageInv, SameRequest
    <3> QED
      BY <1>1, <3>1, <3>2, <3>4
  <2>3. CASE PolicyAtWork(r)
    <3>1. t = "policy" /\ left[r] \in Seq(Originals) /\ kept[r] \in Seq(CleanItems(r))
      BY <2>3, Chains DEF PolicyAtWork
    <3>2. x = left[r][1] /\ x \in Originals
      BY <1>1, <3>1, TailFacts
    <3>3. Changed(r, t, x) = Filtered(snap[r], x) /\ done = Append(kept[r], Changed(r, t, x))
      BY <3>1 DEF Changed
    <3>4. Known(r) => Offers(x.media, snap[r])
      BY <1>1, <2>3, <3>2 DEF PolicyAtWork
    <3>5. /\ Changed(r, t, x) \in CleanItems(r)
          /\ Known(r) => \A z : Same(r, z, x) => Same(r, z, Changed(r, t, x))
      BY <1>4, <2>1, <3>2, <3>3, <3>4, FilteredItem DEF PageInv
    <3>6. kept'[r] \in Seq(CleanItems(r)) /\ left'[r] \in Seq(Originals) /\ Survives(r)'
      BY <2>2, <3>1, <3>3, <3>5
    <3>7. PolicyAtWork(r)'
      BY <1>1, <1>3, <2>3, <3>6 DEF PolicyAtWork
    <3> QED
      BY <1>1, <2>1, <3>6, <3>7 DEF PageInv, SameRequest
  <2>4. CASE VisibilityAtWork(r)
    <3>1. t = "visibility" /\ left[r] \in Seq(CleanItems(r)) /\ kept[r] \in Seq(ShownItems(r))
      BY <2>4 DEF VisibilityAtWork
    <3>2. x = left[r][1] /\ x \in CleanItems(r)
      BY <1>1, <3>1, TailFacts
    <3>3. Changed(r, t, x) = x /\ done = Append(kept[r], Changed(r, t, x))
      BY <3>1 DEF Changed
    <3>4. x \in ShownItems(r)
      BY <1>1, <2>4, <3>2 DEF VisibilityAtWork, ShownItems
    <3>5. kept'[r] \in Seq(ShownItems(r)) /\ left'[r] \in Seq(CleanItems(r)) /\ Survives(r)'
      BY <2>2, <3>1, <3>3, <3>4
    <3>6. VisibilityAtWork(r)'
      BY <1>1, <1>3, <2>4, <3>5 DEF VisibilityAtWork
    <3> QED
      BY <1>1, <2>1, <3>5, <3>6 DEF PageInv, SameRequest
  <2> QED
    BY <1>1, <2>1, <2>3, <2>4 DEF PageInv, PageDone
<1> QED
  BY <1>1, <1>2, <1>5, <1>6 DEF RequestInv, SameRequest

LEMMA FinishInv ==
    ASSUME NEW r \in Requests, Shape, RequestInv(r), FinishTransform(r)
    PROVE  RequestInv(r)'
<1>1. /\ todo[r] # <<>> /\ left[r] = <<>>
      /\ SameRequest(r) /\ todo'[r] = Tail(todo[r])
      /\ left'[r] = kept[r] /\ kept'[r] = <<>> /\ at'[r] = at[r]
  BY DEF FinishTransform, Busy, Shape, IsFunction, SameRequest, world
<1>2. Known(r)' = Known(r) /\ HiddenFrom(r)' = HiddenFrom(r) /\ CleanItems(r)' = CleanItems(r)
      /\ ShownItems(r)' = ShownItems(r)
  BY <1>1, PageSame
<1>3. ASSUME req[r].kind \in {"home", "page"}
      PROVE  at[r] = "filter" /\ InOrder(r)'
  BY <1>1, <1>3 DEF RequestInv, InOrder
<1>4. ASSUME req[r].kind = "home"
      PROVE  HomeInv(r)'
  <2>1. Rows(kept[r], HiddenFrom(r))
    BY <1>4 DEF RequestInv, HomeInv
  <2>2. Tail(todo[r]) \in Seq(Later)
    <3>1. CASE todo[r] \in Seq(Later)
      BY <1>1, <3>1, TailFacts
    <3>2. CASE todo[r] = HomeChain(req[r].skips)
      BY <3>2, Chains
    <3> QED
      BY <1>4, <3>1, <3>2 DEF RequestInv, HomeInv
  <2> QED
    BY <1>1, <1>2, <2>1, <2>2, RowsEmpty DEF HomeInv
<1>5. ASSUME req[r].kind = "page"
      PROVE  PageInv(r)'
  <2>1. PageInv(r)
    BY <1>5 DEF RequestInv
  <2>2. Survives(r)'
    <3>1. \A x : ~Among(r, x, left[r])
      BY <1>1 DEF Among
    <3> QED
      BY <1>1, <2>1, <3>1, SurvivesKept DEF PageInv, SameRequest
  <2>3. CASE PolicyAtWork(r)
    <3>1. todo'[r] = <<"visibility">> /\ <<>> \in Seq(ShownItems(r))
      BY <1>1, <2>3, Chains, EmptySeq DEF PolicyAtWork
    <3>2. VisibilityAtWork(r)'
      BY <1>1, <1>2, <1>3, <1>5, <2>3, <3>1 DEF VisibilityAtWork, PolicyAtWork
    <3> QED
      BY <1>1, <2>1, <2>2, <3>2 DEF PageInv, SameRequest
  <2>4. CASE VisibilityAtWork(r)
    <3>1. todo'[r] = <<>>
      BY <1>1, <2>4 DEF VisibilityAtWork
    <3>2. PageDone(r)'
      BY <1>1, <1>2, <2>4, <3>1 DEF VisibilityAtWork, PageDone
    <3> QED
      BY <1>1, <2>1, <2>2, <3>2 DEF PageInv, SameRequest
  <2> QED
    BY <1>1, <2>1, <2>3, <2>4 DEF PageInv, PageDone
<1> QED
  BY <1>1, <1>3, <1>4, <1>5 DEF RequestInv, SameRequest

LEMMA BlankRequest == RequestLike(NoRequest)
BY DEF RequestLike, RequestFields, NoRequest

LEMMA PageRequest ==
    ASSUME NEW account, NEW raw
    PROVE  LET x == [NoRequest EXCEPT !.kind = "page", !.account = account, !.raw = raw]
           IN RequestLike(x) /\ x.kind = "page" /\ x.raw = raw
BY BlankRequest DEF RequestLike, RequestFields

LEMMA DefaultRequest ==
    ASSUME NEW x, RequestLike(x), NEW row
    PROVE  LET y == [x EXCEPT !.kind = "default", !.row = row]
           IN RequestLike(y) /\ y.kind = "default"
BY DEF RequestLike, RequestFields

LEMMA BeginFacts ==
    ASSUME NEW r \in Requests, Shape, NEW request, RequestLike(request), NEW chain, NEW children,
           Begin(r, request, chain, children), snap' = snap \/ Identify(r)
    PROVE  /\ Shape'
           /\ req'[r] = request /\ todo'[r] = chain /\ left'[r] = children
           /\ kept'[r] = <<>> /\ at'[r] = "filter" /\ opened'[r] = ~failClosed
           /\ failClosed' = failClosed
           /\ \A q \in Requests \ {r} :
                 /\ req'[q] = req[q] /\ snap'[q] = snap[q] /\ todo'[q] = todo[q]
                 /\ left'[q] = left[q] /\ kept'[q] = kept[q] /\ at'[q] = at[q]
                 /\ opened'[q] = opened[q]
<1>1. /\ req'[r] = request /\ todo'[r] = chain /\ left'[r] = children
      /\ kept'[r] = <<>> /\ at'[r] = "filter" /\ opened'[r] = ~failClosed
      /\ failClosed' = failClosed /\ policy' = policy
      /\ opened' \in [Requests -> BOOLEAN]
      /\ IsFunction(req)' /\ IsFunction(todo)' /\ IsFunction(left)' /\ IsFunction(kept)'
      /\ IsFunction(at)'
  BY DEF Begin, Shape, IsFunction, world
<1>2. \A q \in Requests \ {r} :
          /\ req'[q] = req[q] /\ todo'[q] = todo[q]
          /\ left'[q] = left[q] /\ kept'[q] = kept[q] /\ at'[q] = at[q]
          /\ opened'[q] = opened[q]
  BY DEF Begin, Shape, IsFunction
<1>3. /\ IsFunction(snap)' /\ \A q \in Requests \ {r} : snap'[q] = snap[q]
      /\ \A q \in Requests : snap'[q] \in Policies \cup {Unidentified}
  BY DEF Identify, Shape, IsFunction
<1>4. \A q \in Requests : RequestLike(req'[q])
  BY <1>1, <1>2 DEF Shape
<1> QED
  BY <1>1, <1>2, <1>3, <1>4 DEF Shape, RequestLike

LEMMA AskHomeFacts ==
    ASSUME NEW r \in Requests, Shape, AskHome(r)
    PROVE  \E c \in Clients : \E request :
              /\ RequestLike(request) /\ request.kind = "home" /\ request.skips = c.skips
              /\ Begin(r, request, HomeChain(c.skips), HomeRows[c.account]) /\ Identify(r)
<1>1. PICK c \in Clients :
          Begin(r, [NoRequest EXCEPT !.kind = "home", !.account = c.account, !.skips = c.skips,
                                     !.count = c.count, !.noContinue = c.noContinue,
                                     !.raw = HomeRows[c.account]],
                HomeChain(c.skips), HomeRows[c.account]) /\ Identify(r)
  BY DEF AskHome
<1> DEFINE request == [NoRequest EXCEPT !.kind = "home", !.account = c.account, !.skips = c.skips,
                                        !.count = c.count, !.noContinue = c.noContinue,
                                        !.raw = HomeRows[c.account]]
<1>2. RequestLike(request) /\ request.kind = "home" /\ request.skips = c.skips
  <2> DEFINE a == c.account
             s == c.skips
             n == c.count
             no == c.noContinue
             rows == HomeRows[c.account]
  <2> HIDE DEF a, s, n, no, rows
  <2>1. LET x == [NoRequest EXCEPT !.kind = "home", !.account = a, !.skips = s, !.count = n,
                                   !.noContinue = no, !.raw = rows]
        IN RequestLike(x) /\ x.kind = "home" /\ x.skips = s
    <3> DEFINE x1 == [NoRequest EXCEPT !.kind = "home", !.account = a, !.skips = s]
    <3>1. RequestLike(x1) /\ x1.kind = "home" /\ x1.skips = s
      BY BlankRequest DEF RequestLike, RequestFields
    <3> HIDE DEF x1
    <3>2. LET x == [x1 EXCEPT !.count = n, !.noContinue = no, !.raw = rows]
          IN RequestLike(x) /\ x.kind = x1.kind /\ x.skips = x1.skips
      BY <3>1 DEF RequestLike, RequestFields
    <3> QED
      BY <3>1, <3>2, Zenon DEF x1
  <2> QED
    BY <2>1, Zenon DEF a, s, n, no, rows
<1> HIDE DEF request
<1>3. Begin(r, request, HomeChain(c.skips), HomeRows[c.account]) /\ Identify(r)
  BY <1>1 DEF request
<1> QED
  BY <1>2, <1>3

LEMMA AskPageFacts ==
    ASSUME NEW r \in Requests, Shape, AskPage(r)
    PROVE  \E page \in Pages : \E request :
              /\ RequestLike(request) /\ request.kind = "page" /\ request.raw = RawItems(page)
              /\ Begin(r, request, PolicyChain, RawItems(page)) /\ Identify(r)
BY PageRequest DEF AskPage

LEMMA RefreshFacts ==
    ASSUME NEW r \in Requests, Shape, Refresh(r)
    PROVE  /\ snap' = snap
           /\ \E request, chain, children :
                 /\ RequestLike(request) /\ request.kind \in {"children", "default"}
                 /\ Begin(r, request, chain, children)
<1>1. RequestLike(req[r])
  BY DEF Shape
<1>2. PICK row : AskChildren(r, row) \/ AskDefault(r, row)
  BY DEF Refresh
<1>3. CASE AskChildren(r, row)
  <2>1. PICK start \in Starts :
            Begin(r, [req[r] EXCEPT !.kind = "children", !.ids = row.key, !.start = start,
                                    !.row = row.items], ChildrenChain, Stub(row.key))
    BY <1>3 DEF AskChildren
  <2> DEFINE request == [req[r] EXCEPT !.kind = "children", !.ids = row.key, !.start = start,
                                       !.row = row.items]
  <2>2. RequestLike(request) /\ request.kind = "children"
    <3> DEFINE old == req[r]
               ids == row.key
               items == row.items
    <3>1. RequestLike(old)
      BY <1>1
    <3> HIDE DEF old, ids, items
    <3>2. LET y == [old EXCEPT !.kind = "children", !.ids = ids, !.start = start, !.row = items]
          IN RequestLike(y) /\ y.kind = "children"
      BY <3>1 DEF RequestLike, RequestFields
    <3> QED
      BY <3>2, Zenon DEF old, ids, items
  <2> HIDE DEF request
  <2>3. Begin(r, request, ChildrenChain, Stub(row.key))
    BY <2>1 DEF request
  <2> QED
    BY <2>2, <2>3 DEF Refresh
<1>4. CASE AskDefault(r, row)
  BY <1>1, <1>4, DefaultRequest DEF AskDefault, Refresh
<1> QED
  BY <1>2, <1>3, <1>4

LEMMA AskHomeInv ==
    ASSUME NEW r \in Requests, Shape, AskHome(r)
    PROVE  RequestInv(r)'
<1>0. PICK c \in Clients : \E request :
          /\ RequestLike(request) /\ request.kind = "home" /\ request.skips = c.skips
          /\ Begin(r, request, HomeChain(c.skips), HomeRows[c.account]) /\ Identify(r)
  BY AskHomeFacts
<1>1. PICK request :
          /\ RequestLike(request) /\ request.kind = "home" /\ request.skips = c.skips
          /\ Begin(r, request, HomeChain(c.skips), HomeRows[c.account]) /\ Identify(r)
  BY <1>0
<1>2. c.account \in Accounts
  BY WorldAssumption DEF Client
<1>3. /\ req'[r].kind = "home" /\ req'[r].skips = c.skips
      /\ todo'[r] = HomeChain(c.skips) /\ left'[r] = HomeRows[c.account]
      /\ kept'[r] = <<>> /\ at'[r] = "filter"
  BY <1>1, BeginFacts
<1>4. HomeInv(r)'
  BY <1>2, <1>3, RawHome, RowsEmpty DEF HomeInv
<1> QED
  BY <1>3, <1>4 DEF RequestInv, InOrder

LEMMA AskPageInv ==
    ASSUME NEW r \in Requests, Shape, AskPage(r)
    PROVE  RequestInv(r)'
<1>0. PICK page \in Pages : \E request :
          /\ RequestLike(request) /\ request.kind = "page" /\ request.raw = RawItems(page)
          /\ Begin(r, request, PolicyChain, RawItems(page)) /\ Identify(r)
  BY AskPageFacts
<1>1. PICK request :
          /\ RequestLike(request) /\ request.kind = "page" /\ request.raw = RawItems(page)
          /\ Begin(r, request, PolicyChain, RawItems(page)) /\ Identify(r)
  BY <1>0
<1>2. RawItems(page) \in Seq(Originals)
  BY RawPage
<1>3. /\ req'[r].kind = "page" /\ req'[r].raw = RawItems(page)
      /\ todo'[r] = PolicyChain /\ left'[r] = RawItems(page)
      /\ kept'[r] = <<>> /\ at'[r] = "filter"
      /\ opened'[r] = ~failClosed /\ failClosed' = failClosed
  BY <1>1, BeginFacts
<1>4. PolicyAtWork(r)'
  BY <1>2, <1>3, EmptySeq DEF PolicyAtWork
<1>5. Survives(r)'
  <2> DEFINE items == RawItems(page)
  <2> HIDE DEF items
  <2>1. req'[r].raw = items /\ left'[r] = items
    BY <1>3 DEF items
  <2>2. \A m \in 1..Len(items) : Same(r, items[m], items[m])'
    BY DEF Same
  <2>3. \A m \in 1..Len(items) : Among(r, items[m], left[r])'
    BY <2>1, <2>2 DEF Among
  <2> QED
    BY <2>1, <2>3 DEF Survives
<1>6. PageInv(r)'
  BY <1>2, <1>3, <1>4, <1>5 DEF PageInv
<1> QED
  BY <1>3, <1>6 DEF RequestInv, InOrder

LEMMA RefreshInv ==
    ASSUME NEW r \in Requests, Shape, Refresh(r)
    PROVE  RequestInv(r)'
<1>1. req'[r].kind \in {"children", "default"}
  BY RefreshFacts, BeginFacts
<1> QED
  BY <1>1 DEF RequestInv

LEMMA MixInv ==
    ASSUME NEW r \in Requests, Shape, RequestInv(r), MixCollection(r)
    PROVE  RequestInv(r)'
<1>1. Head(todo[r]) = "library" /\ todo[r] # <<>> /\ req'[r] = req[r]
  BY DEF MixCollection, Busy
<1>2. req[r].kind # "home"
  <2>1. Head(todo[r]) # "visibility" /\ Head(todo[r]) \notin Later
    BY <1>1 DEF Later
  <2>2. todo[r] \notin Seq(Later)
    BY <1>1, <2>1, TailFacts
  <2>3. todo[r] # HomeChain(req[r].skips)
    BY <2>1, Chains
  <2> QED
    BY <2>2, <2>3 DEF RequestInv, HomeInv
<1>3. req[r].kind # "page"
  <2>1. todo[r] # PolicyChain /\ todo[r] # <<"visibility">>
    BY <1>1, Chains
  <2> QED
    BY <1>1, <2>1 DEF RequestInv, PageInv, PolicyAtWork, VisibilityAtWork, PageDone
<1> QED
  BY <1>1, <1>2, <1>3 DEF RequestInv

-----------------------------------------------------------------------------
(***************************************************************************)
(* The invariant.                                                          *)
(***************************************************************************)
LEMMA InitInv == Init => IInv
<1> SUFFICES ASSUME Init PROVE IInv
  OBVIOUS
<1>1. Shape
  BY BlankRequest DEF Init, Shape, IsFunction, RequestLike
<1>2. ASSUME NEW r \in Requests
      PROVE  RequestInv(r)
  BY DEF Init, RequestInv, NoRequest
<1> QED
  BY <1>1, <1>2 DEF IInv

LEMMA RequestShape ==
    ASSUME NEW r \in Requests, Shape, RequestStep(r)
    PROVE  /\ Shape'
           /\ \A q \in Requests \ {r} :
                 /\ req'[q] = req[q] /\ snap'[q] = snap[q] /\ todo'[q] = todo[q]
                 /\ left'[q] = left[q] /\ kept'[q] = kept[q] /\ at'[q] = at[q]
                 /\ opened'[q] = opened[q]
           /\ failClosed' = failClosed
<1>1. CASE AskHome(r)
  BY <1>1, AskHomeFacts, BeginFacts
<1>2. CASE AskPage(r)
  BY <1>2, AskPageFacts, BeginFacts
<1>3. CASE Refresh(r)
  BY <1>3, RefreshFacts, BeginFacts
<1>4. CASE Look(r)
  BY <1>4 DEF Look, Shape, IsFunction, world
<1>5. CASE FilterChild(r)
  BY <1>5 DEF FilterChild, Shape, IsFunction, world
<1>6. CASE ChangeChild(r)
  BY <1>6 DEF ChangeChild, Shape, IsFunction, world
<1>7. CASE MixCollection(r)
  BY <1>7 DEF MixCollection, Shape, IsFunction, world
<1>8. CASE FinishTransform(r)
  BY <1>8 DEF FinishTransform, Shape, IsFunction, world
<1> QED
  BY <1>1, <1>2, <1>3, <1>4, <1>5, <1>6, <1>7, <1>8 DEF RequestStep

LEMMA RequestStepInv ==
    ASSUME IInv, NEW r \in Requests, RequestStep(r)
    PROVE  IInv'
<1>1. Shape /\ RequestInv(r)
  BY DEF IInv
<1>2. RequestInv(r)'
  <2>1. CASE Look(r)
    BY <1>1, <2>1, Untouched DEF Look, world, Shape
  <2> QED
    BY <1>1, <2>1, AskHomeInv, AskPageInv, RefreshInv, FilterInv, ChangeInv, MixInv, FinishInv
    DEF RequestStep
<1>3. ASSUME NEW q \in Requests \ {r}
      PROVE  RequestInv(q)'
  BY <1>1, <1>3, RequestShape, Untouched DEF IInv, Shape
<1> QED
  BY <1>1, <1>2, <1>3, RequestShape DEF IInv

\* Changes at Plex and by administrators leave requests as they are.
LEMMA ElsewhereInv ==
    ASSUME IInv, Unnoticed, opened' \in [Requests -> BOOLEAN], failClosed' \in BOOLEAN,
           policy' \in Policies,
           \A r \in Requests : /\ opened[r] => opened'[r]
                               /\ (~opened[r] => failClosed) => (~opened'[r] => failClosed')
    PROVE  IInv'
<1>1. Shape'
  BY DEF IInv, Shape, IsFunction, Unnoticed
<1>2. ASSUME NEW r \in Requests
      PROVE  RequestInv(r)'
  BY <1>2, Untouched DEF IInv, Shape, Unnoticed
<1> QED
  BY <1>1, <1>2 DEF IInv

LEMMA NextInv == IInv /\ [Next]_vars => IInv'
<1> SUFFICES ASSUME IInv, [Next]_vars PROVE IInv'
  OBVIOUS
<1>0. Shape
  BY DEF IInv
<1>1. ASSUME NEW r \in Requests, RequestStep(r)
      PROVE  IInv'
  BY <1>1, RequestStepInv
<1>2. ASSUME NEW c \in Collections, Relabel(c)
      PROVE  IInv'
  BY <1>0, <1>2, ElsewhereInv DEF Relabel, Shape
<1>3. ASSUME NEW c \in Collections, NEW a \in Accounts, Share(a, c)
      PROVE  IInv'
  BY <1>0, <1>3, ElsewhereInv DEF Share, Shape
<1>4. CASE Reload
  <2>1. Unnoticed /\ policy' \in Policies /\ failClosed' \in BOOLEAN
        /\ opened' = [r \in Requests |-> opened[r] \/ ~failClosed']
    BY <1>4 DEF Reload
  <2>2. opened' \in [Requests -> BOOLEAN]
        /\ \A r \in Requests : opened'[r] = (opened[r] \/ ~failClosed')
    BY <1>0, <2>1 DEF Shape
  <2> QED
    BY <2>1, <2>2, ElsewhereInv
<1>5. ASSUME NEW a \in Accounts, NEW name \in Names, Forget(a, name)
      PROVE  IInv'
  BY <1>0, <1>5, ElsewhereInv DEF Forget, Shape
<1>6. CASE UNCHANGED vars
  BY <1>0, <1>6, ElsewhereInv DEF vars, world, slots, Unnoticed, Shape
<1> QED
  BY <1>1, <1>2, <1>3, <1>4, <1>5, <1>6 DEF Next

LEMMA Invariance == Spec => []IInv
BY InitInv, NextInv, PTL DEF Spec

\* A collection hidden at the start of a request has no row on a home screen and
\* is no item of a page it gets.
THEOREM HiddenCorrect == Spec => []HiddenStayHidden
<1>1. IInv => HiddenStayHidden
  <2> SUFFICES ASSUME IInv, NEW r \in Requests, todo[r] = <<>>, req[r].kind \in {"home", "page"},
                      Known(r), NEW n \in 1..Len(left[r])
               PROVE  CollectionTitle(left[r][n]) \notin snap[r].hidden
    BY DEF HiddenStayHidden, Done, Idle, ElementsOf, Known
  <2>1. HiddenFrom(r) = snap[r].hidden /\ RequestInv(r)
    BY DEF HiddenFrom, IInv
  <2>2. CASE req[r].kind = "home"
    <3>1. HomeChain(req[r].skips) # <<>>
      BY Chains
    <3>2. Rows(left[r], HiddenFrom(r))
      BY <2>1, <2>2, <3>1 DEF RequestInv, HomeInv
    <3> QED
      BY <2>1, <3>2, ElementOfSeq DEF Rows, RowsOf
  <2>3. CASE req[r].kind = "page"
    <3>1. left[r] \in Seq(ShownItems(r))
      BY <2>1, <2>3, Chains DEF RequestInv, PageInv, PolicyAtWork, VisibilityAtWork, PageDone
    <3> QED
      BY <2>1, <3>1, ElementOfSeq DEF ShownItems
  <2> QED
    BY <2>2, <2>3
<1> QED
  BY <1>1, Invariance, PTL

\* A library page has no version the rules do not allow, at any depth, and all
\* they do allow of what Plex sent, but the items that had versions and keep
\* none, and the playable descendants without any.
THEOREM PagesCorrect == Spec => []PagesFiltered
<1>1. IInv => PagesFiltered
  <2> SUFFICES ASSUME IInv, NEW r \in Requests, todo[r] = <<>>, req[r].kind = "page"
               PROVE  IF snap[r] = Unidentified
                      THEN ~opened[r] => \A x \in ElementsOf(left[r]) : NoVersions(x)
                      ELSE /\ \A y \in ElementsOf(left[r]) : OnlyPermitted(y, snap[r])
                           /\ \A x \in ElementsOf(req[r].raw) :
                                 Offers(x.media, snap[r])
                                 /\ CollectionTitle(x) \notin snap[r].hidden =>
                                     \E y \in ElementsOf(left[r]) : AllPermitted(x, y, snap[r])
    BY DEF PagesFiltered, Done, Idle
  <2>1. PageInv(r)
    BY DEF IInv, RequestInv
  <2>2. left[r] \in Seq(ShownItems(r)) /\ kept[r] = <<>>
    BY <2>1, Chains DEF PageInv, PolicyAtWork, VisibilityAtWork, PageDone
  <2>3. \A x \in ElementsOf(left[r]) : Clean(r, x) /\ x \in Item
    BY <2>2, ElementOfSeq DEF ElementsOf, ShownItems, CleanItems
  <2>4. CASE ~Known(r)
    BY <2>3, <2>4 DEF Clean, Known
  <2>5. CASE Known(r)
    <3>1. \A x : ~Among(r, x, kept[r])
      BY <2>2 DEF Among
    <3>2. ASSUME NEW m \in 1..Len(req[r].raw), Allowed(r, req[r].raw[m])
          PROVE  \E n \in 1..Len(left[r]) : Same(r, req[r].raw[m], left[r][n])
      BY <2>1, <2>5, <3>1, <3>2 DEF PageInv, Survives, Among
    <3>3. \A x \in ElementsOf(req[r].raw) : Allowed(r, x) =>
              \E y \in ElementsOf(left[r]) : Same(r, x, y)
      BY <3>2 DEF ElementsOf
    <3>4. \A y \in ElementsOf(left[r]) : OnlyPermitted(y, snap[r])
      BY <2>3, <2>5 DEF Clean
    <3>5. ASSUME NEW x, NEW y \in ElementsOf(left[r]), Same(r, x, y)
          PROVE  AllPermitted(x, y, snap[r])
      <4>1. OnlyPermitted(y, snap[r]) /\ y.inner \in SUBSET (Items \X SUBSET Nat)
        BY <2>3, <3>4, ItemFields DEF Descendants
      <4>2. y.id = x.id /\ y.media = Within(x.media, snap[r])
        BY <3>5, <4>1 DEF Same, OnlyPermitted
      <4>3. ASSUME NEW d \in x.inner, Remains(r, d)
            PROVE  <<d[1], Within(d[2], snap[r])>> \in y.inner
        <5>1. PICK e \in y.inner : e[1] = d[1] /\ Within(e[2], snap[r]) = Within(d[2], snap[r])
          BY <3>5, <4>3 DEF Same
        <5>2. e = <<e[1], e[2]>> /\ e[2] = Within(e[2], snap[r])
          BY <4>1 DEF OnlyPermitted
        <5> QED
          BY <5>1, <5>2
      <4> QED
        BY <4>2, <4>3 DEF AllPermitted, Remains
    <3> QED
      BY <2>5, <3>3, <3>4, <3>5 DEF Known, Allowed
  <2> QED
    BY <2>4, <2>5
<1> QED
  BY <1>1, Invariance, PTL

=============================================================================
