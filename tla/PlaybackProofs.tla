--------------------------- MODULE PlaybackProofs ---------------------------
(***************************************************************************)
(* Proofs about Playback, for every set of requests, version lists,        *)
(* configurations and policies that satisfies InputAssumption.             *)
(***************************************************************************)
EXTENDS Playback, TLAPS

\* What best_allowed_media and position() give back is a permitted version,
\* because no two versions of a list share an id.
LEMMA BestIsAllowed ==
    ASSUME NEW media \in Items, NEW limit, NEW screen,
           NEW i \in BestAllowed(media, limit, screen)
    PROVE  i \in AllowedMedia(media, limit)
<1>1. PICK b \in FirstBest(media, AllowedMedia(media, limit), screen) : media[b].id = media[i].id
    BY DEF BestAllowed
<1>2. b \in AllowedMedia(media, limit)
    BY <1>1 DEF FirstBest
<1>3. b \in DOMAIN media /\ i \in DOMAIN media
    BY <1>2 DEF AllowedMedia, BestAllowed
<1>4. b = i
    BY <1>1, <1>3, InputAssumption DEF UniqueIds
<1> QED
    BY <1>2, <1>4

\* A fallback candidate is a permitted version.
LEMMA FallbackIsAllowed ==
    ASSUME NEW media, NEW selected, NEW label, NEW limit,
           NEW i \in FirstFallback(media, selected, label, limit)
    PROVE  i \in AllowedMedia(media, limit)
BY DEF FirstFallback, FirstBest, Fallbacks

LEMMA IndexIsNat ==
    ASSUME NEW media \in Items, NEW i \in DOMAIN media
    PROVE  i \in Nat
BY InputAssumption

\* A pinned version is a permitted one.
LEMMA PinnedIsAllowed ==
    ASSUME TypeOK, NEW i \in Pins
    PROVE  i \in AllowedMedia(item, Limit) /\ i \in Nat
<1>1. i \in AllowedMedia(item, Limit)
    BY BestIsAllowed DEF Pins, TypeOK
<1>2. i \in DOMAIN item
    BY <1>1 DEF AllowedMedia
<1> QED
    BY <1>1, <1>2, IndexIsNat DEF TypeOK

LEMMA CapType ==
    ASSUME NEW query \in Query, NEW cap \in Nat
    PROVE  /\ CapBitrate(query, cap) \in Query
           /\ CapBitrate(query, cap).mediaIndex = query.mediaIndex
           /\ Effective(CapBitrate(query, cap)) \in 0..cap
<1> DEFINE requested == IF query.maxVideoBitrate # Absent THEN query.maxVideoBitrate
                        ELSE query.videoBitrate
           lowered == [query EXCEPT !.videoBitrate = Absent, !.maxVideoBitrate = cap]
<1>1. requested \in Nat \cup {Absent, Malformed}
    BY DEF Query, Optional
<1>2. lowered \in Query /\ lowered.mediaIndex = query.mediaIndex /\ lowered.maxVideoBitrate = cap
    BY DEF Query, Optional
<1>3. CASE requested \in {Absent, Malformed} \/ requested > cap
    <2>1. CapBitrate(query, cap) = lowered
        BY <1>3 DEF CapBitrate
    <2>2. cap # Absent
        BY DEF Absent
    <2> QED
        BY <2>1, <2>2, <1>2 DEF Effective
<1>4. CASE ~(requested \in {Absent, Malformed} \/ requested > cap)
    <2>1. CapBitrate(query, cap) = query
        BY <1>4 DEF CapBitrate
    <2>2. requested \in 0..cap
        BY <1>1, <1>4
    <2>3. Effective(query) = requested
        BY DEF Effective
    <2> QED
        BY <2>1, <2>2, <2>3
<1> QED
    BY <1>3, <1>4

LEMMA CappedType ==
    ASSUME TypeOK
    PROVE  /\ Capped \in Query
           /\ Capped.mediaIndex = q.mediaIndex
           /\ Cap # Absent => Effective(Capped) \in 0..Cap
<1>1. Cap \in Nat \cup {Absent} /\ q \in Query
    BY InputAssumption DEF TypeOK, Cap
<1> QED
    BY <1>1, CapType DEF Capped

LEMMA DirectIfUnboundType ==
    ASSUME NEW query \in Query
    PROVE  /\ DirectIfUnbound(query) \in Query
           /\ DirectIfUnbound(query).mediaIndex = query.mediaIndex
           /\ Effective(DirectIfUnbound(query)) = Effective(query)
BY DEF DirectIfUnbound, Query, Effective

LEMMA ReindexType ==
    ASSUME NEW query \in Query, NEW i \in Nat
    PROVE  /\ [query EXCEPT !.mediaIndex = i] \in Query
           /\ [query EXCEPT !.mediaIndex = i].mediaIndex = i
           /\ Effective([query EXCEPT !.mediaIndex = i]) = Effective(query)
BY DEF Query, Optional, Effective

LEMMA ForcedType ==
    ASSUME NEW query \in Query
    PROVE  Forced(query) \in Query /\ Forced(query).mediaIndex = query.mediaIndex
BY DEF Forced, Query, Optional

LEMMA StreamedType ==
    ASSUME NEW query \in Query
    PROVE  /\ [query EXCEPT !.directPlay = 0] \in Query
           /\ [query EXCEPT !.directPlay = 0].mediaIndex = query.mediaIndex
           /\ Effective([query EXCEPT !.directPlay = 0]) = Effective(query)
BY DEF Query, Effective

-----------------------------------------------------------------------------
(***************************************************************************)
(* The inductive invariant: before enforcement the index is the client's;  *)
(* after it, the three properties hold at every handler.                   *)
(***************************************************************************)
Unchecked ==
    pc \in {"idle", "enforce", "load"} =>
        /\ checked = NoList /\ excuse = "none"
        /\ q.mediaIndex = req.query.mediaIndex

Loading == pc = "load" => sec.resolved

CapHeld ==
    pc \in Underway \cup {"load"} /\ sec.resolved /\ Cap # Absent /\ (~config.force \/ req.skip)
        => Effective(q) \in 0..Cap

ChoiceHeld ==
    pc \in Underway /\ req.kind # "decision" /\ checked # NoList
        /\ req.query.mediaIndex \in AllowedMedia(checked, Limit)
            => q.mediaIndex = req.query.mediaIndex

IInv == TypeOK /\ Unchecked /\ Loading /\ PlaysWithinPolicy /\ CapHeld /\ ChoiceHeld

LEMMA InitInv == Init => IInv
BY InputAssumption DEF Init, IInv, TypeOK, Unchecked, Loading, PlaysWithinPolicy,
   CapHeld, ChoiceHeld, Underway, ClientRequest

\* The environment touches nothing the invariant relates.
LEMMA EnvironmentInv ==
    ASSUME IInv, Reload \/ ItemChanges \/ Done \/ UNCHANGED vars
    PROVE  IInv'
<1>1. CASE Reload \/ ItemChanges
    <2>1. TypeOK'
        BY <1>1 DEF IInv, TypeOK, Reload, ItemChanges
    <2>2. Unchecked' /\ Loading'
        BY <1>1 DEF IInv, Unchecked, Loading, Reload, ItemChanges
    <2>3. PlaysWithinPolicy'
        BY <1>1 DEF IInv, PlaysWithinPolicy, Restricted, Limit, Reload, ItemChanges
    <2>4. CapHeld' /\ ChoiceHeld'
        BY <1>1 DEF IInv, CapHeld, ChoiceHeld, Cap, Limit, Reload, ItemChanges
    <2> QED
        BY <2>1, <2>2, <2>3, <2>4 DEF IInv
<1>2. CASE Done \/ UNCHANGED vars
    <2>1. /\ TypeOK /\ Unchecked /\ Loading
          /\ UNCHANGED vars
        BY <1>2 DEF IInv, Done
    <2>2. TypeOK'
        BY <2>1 DEF TypeOK, vars
    <2>3. Unchecked' /\ Loading'
        BY <2>1 DEF Unchecked, Loading, vars
    <2>4. PlaysWithinPolicy'
        BY <2>1 DEF IInv, PlaysWithinPolicy, Restricted, Limit, vars
    <2>5. CapHeld' /\ ChoiceHeld'
        BY <2>1 DEF IInv, CapHeld, ChoiceHeld, Limit, Cap, vars
    <2> QED
        BY <2>2, <2>3, <2>4, <2>5 DEF IInv
<1> QED
    BY <1>1, <1>2

\* An answer ends the request with nothing sent.
LEMMA AnswerInv ==
    ASSUME IInv, NEW status \in {"refused", "rejected", "error"}, Answer(status)
    PROVE  IInv'
BY DEF IInv, TypeOK, Unchecked, Loading, PlaysWithinPolicy, CapHeld, ChoiceHeld,
   Underway, Answer

LEMMA SecureInv == ASSUME IInv, Secure PROVE IInv'
BY DEF IInv, TypeOK, Unchecked, Loading, PlaysWithinPolicy, CapHeld, ChoiceHeld,
   Underway, Secure

LEMMA EnforcePassesInv == ASSUME IInv, EnforcePasses PROVE IInv'
<1>1. q' \in Query /\ q'.mediaIndex = q.mediaIndex
    BY CappedType DEF IInv, TypeOK, EnforcePasses
<1>2. TypeOK'
    BY <1>1 DEF IInv, TypeOK, EnforcePasses, Underway
<1>3. CapHeld'
    BY CappedType DEF IInv, CapHeld, EnforcePasses, Cap
<1>4. PlaysWithinPolicy' /\ ChoiceHeld' /\ Unchecked' /\ Loading'
    BY DEF IInv, PlaysWithinPolicy, ChoiceHeld, Unchecked, Loading, EnforcePasses,
       Restricted, Limit
<1> QED
    BY <1>2, <1>3, <1>4 DEF IInv

LEMMA EnforceStartInv == ASSUME IInv, EnforceStart PROVE IInv'
<1>1. q' \in Query /\ q'.mediaIndex = q.mediaIndex
    BY CappedType DEF IInv, TypeOK, EnforceStart
<1>2. TypeOK'
    BY <1>1 DEF IInv, TypeOK, EnforceStart
<1>3. CapHeld'
    BY CappedType DEF IInv, CapHeld, EnforceStart, Cap
<1>4. PlaysWithinPolicy' /\ ChoiceHeld' /\ Unchecked' /\ Loading'
    BY <1>1 DEF IInv, PlaysWithinPolicy, ChoiceHeld, Unchecked, Loading, EnforceStart, Underway
<1> QED
    BY <1>2, <1>3, <1>4 DEF IInv

LEMMA LoadFailsInv == ASSUME IInv, LoadFails PROVE IInv'
<1>1. CASE Answer("refused")
    BY <1>1, AnswerInv
<1>2. CASE pc' = "auto" /\ excuse' = "open" /\ pc = "load"
           /\ UNCHANGED <<config, store, item, req, q, sec, runtime, checked>>
    BY <1>2 DEF IInv, TypeOK, Unchecked, Loading, PlaysWithinPolicy, CapHeld, ChoiceHeld,
       Underway, Cap, Limit
<1> QED
    BY <1>1, <1>2 DEF LoadFails

LEMMA NothingToCheckInv == ASSUME IInv, NothingToCheck PROVE IInv'
BY DEF IInv, TypeOK, Unchecked, Loading, PlaysWithinPolicy, CapHeld, ChoiceHeld,
   Underway, NothingToCheck, Cap, Limit

LEMMA PinVersionInv == ASSUME IInv, PinVersion PROVE IInv'
<1>1. PICK i \in Pins : q' = [q EXCEPT !.mediaIndex = i]
    BY DEF PinVersion
<1>2. i \in AllowedMedia(item, Limit) /\ i \in Nat
    BY PinnedIsAllowed DEF IInv
<1>3. q' \in Query /\ q'.mediaIndex = i /\ Effective(q') = Effective(q)
    BY <1>1, <1>2, ReindexType DEF IInv, TypeOK
<1>4. TypeOK'
    BY <1>3 DEF IInv, TypeOK, PinVersion, Underway
<1>5. PlaysWithinPolicy'
    BY <1>2, <1>3, InputAssumption DEF IInv, TypeOK, PlaysWithinPolicy, PinVersion, Limit
<1>6. CapHeld'
    BY <1>3 DEF IInv, CapHeld, PinVersion, Cap
<1>7. ChoiceHeld'
    <2>1. q.mediaIndex = req.query.mediaIndex
        BY DEF IInv, Unchecked, PinVersion
    <2>2. q.mediaIndex \in AllowedMedia(item, Limit) => i = q.mediaIndex
        BY DEF Pins
    <2> QED
        BY <1>3, <2>1, <2>2 DEF ChoiceHeld, PinVersion, Limit
<1> QED
    BY <1>4, <1>5, <1>6, <1>7 DEF IInv, Unchecked, Loading, PinVersion

-----------------------------------------------------------------------------
\* A handler after enforcement that keeps index and bitrate keeps all.
LEMMA RewriteInv ==
    ASSUME IInv, NEW place \in Underway, NEW next \in Underway, NEW query \in Query,
           Rewrite(place, next, query),
           checked # NoList => query.mediaIndex = q.mediaIndex,
           (config.force /\ ~req.skip) \/ Effective(query) = Effective(q)
    PROVE  IInv'
<1>1. TypeOK'
    BY DEF IInv, TypeOK, Rewrite
<1>2. PlaysWithinPolicy'
    BY DEF IInv, PlaysWithinPolicy, Rewrite, Restricted, Limit
<1>3. CapHeld'
    BY DEF IInv, CapHeld, Rewrite, Cap, TypeOK
<1>4. ChoiceHeld'
    BY DEF IInv, ChoiceHeld, Rewrite, Limit
<1>5. Unchecked' /\ Loading'
    BY DEF Unchecked, Loading, Rewrite, Underway
<1> QED
    BY <1>1, <1>2, <1>3, <1>4, <1>5 DEF IInv

LEMMA AutoSelectInv == ASSUME IInv, AutoSelect PROVE IInv'
<1>1. q \in Query /\ item \in Items
    BY DEF IInv, TypeOK
<1>2. CASE Rewrite("auto", "force", q)
    BY <1>1, <1>2, RewriteInv DEF Underway
<1>3. ASSUME Selects, NEW i \in BestFit(item, req.screen),
             Rewrite("auto", "force", DirectIfUnbound([q EXCEPT !.mediaIndex = i]))
      PROVE  IInv'
    <2> DEFINE query == DirectIfUnbound([q EXCEPT !.mediaIndex = i])
    <2>1. i \in Nat
        BY <1>1, <1>3, IndexIsNat DEF BestFit
    <2>2. query \in Query /\ Effective(query) = Effective(q)
        BY <1>1, <2>1, ReindexType, DirectIfUnboundType
    <2>3. req.path /\ q.mediaIndex = Absent /\ pc = "auto"
        BY <1>3 DEF Selects, Rewrite
    <2>4. TypeOK' /\ Unchecked' /\ Loading'
        BY <1>3, <2>2 DEF IInv, TypeOK, Unchecked, Loading, Rewrite, Underway
    <2>5. CapHeld'
        BY <1>3, <2>2, <2>3 DEF IInv, CapHeld, Rewrite, Cap, Underway
    <2>6. checked # NoList => Absent \notin AllowedMedia(checked, Limit)
        <3>1. Absent \notin Nat
            BY DEF Absent
        <3>2. checked # NoList => \A k \in DOMAIN checked : k \in Nat
            BY IndexIsNat DEF IInv, TypeOK
        <3> QED
            BY <3>1, <3>2 DEF AllowedMedia
    <2>7. PlaysWithinPolicy'
        BY <1>3, <2>2, <2>3, <2>6 DEF IInv, PlaysWithinPolicy, Rewrite, Restricted, Limit, Underway
    <2>8. ChoiceHeld'
        <3>1. CASE checked = NoList
            BY <1>3, <3>1 DEF ChoiceHeld, Rewrite
        <3>2. CASE checked # NoList
            BY <1>3, <2>3, <2>6, <3>2 DEF IInv, ChoiceHeld, Rewrite, Underway, Limit
        <3> QED
            BY <3>1, <3>2
    <2> QED
        BY <2>4, <2>5, <2>7, <2>8 DEF IInv
<1> QED
    BY <1>2, <1>3 DEF AutoSelect

LEMMA ForceQualityInv == ASSUME IInv, ForceQuality PROVE IInv'
<1>1. q \in Query
    BY DEF IInv, TypeOK
<1>2. CASE Rewrite("force", "fallback", q)
    BY <1>1, <1>2, RewriteInv DEF Underway
<1>3. CASE Forces /\ Rewrite("force", "fallback", Forced(q))
    BY <1>1, <1>3, ForcedType, RewriteInv DEF Underway, Forces
<1> QED
    BY <1>2, <1>3 DEF ForceQuality

LEMMA VideoFallbackInv == ASSUME IInv, VideoFallback PROVE IInv'
<1>1. PICK i \in FirstFallback(item, SelectedIndex, config.fallbackFor, FallbackLimit) :
          q' = DirectIfUnbound([q EXCEPT !.mediaIndex = i])
    BY DEF VideoFallback
<1>2. i \in AllowedMedia(item, FallbackLimit)
    BY FallbackIsAllowed
<1>3. i \in Nat
    BY <1>2, IndexIsNat DEF IInv, TypeOK, AllowedMedia
<1>4. q' \in Query /\ q'.mediaIndex = i /\ Effective(q') = Effective(q)
    <2> DEFINE moved == [q EXCEPT !.mediaIndex = i]
    <2>1. moved \in Query /\ moved.mediaIndex = i /\ Effective(moved) = Effective(q)
        BY <1>3, ReindexType DEF IInv, TypeOK
    <2>2. q' = DirectIfUnbound(moved)
        BY <1>1
    <2> QED
        BY <2>1, <2>2, DirectIfUnboundType
<1>5. TypeOK' /\ Unchecked' /\ Loading'
    BY <1>4 DEF IInv, TypeOK, Unchecked, Loading, VideoFallback, Underway
<1>6. CapHeld'
    BY <1>4 DEF IInv, CapHeld, VideoFallback, Cap, Underway
<1>7. PlaysWithinPolicy'
    BY <1>2, <1>4, InputAssumption DEF IInv, TypeOK, PlaysWithinPolicy, VideoFallback,
       Restricted, Limit, FallbackLimit, Underway
<1>8. ChoiceHeld'
    BY DEF ChoiceHeld, VideoFallback, FallsBack
<1> QED
    BY <1>5, <1>6, <1>7, <1>8 DEF IInv

LEMMA DirectStreamInv == ASSUME IInv, DirectStream PROVE IInv'
<1>1. q \in Query
    BY DEF IInv, TypeOK
<1>2. CASE Rewrite("direct", "send", [q EXCEPT !.directPlay = 0])
    BY <1>1, <1>2, StreamedType, RewriteInv DEF Underway
<1>3. CASE Rewrite("direct", "send", q)
    BY <1>1, <1>3, RewriteInv DEF Underway
<1>4. CASE Answer("error")
    BY <1>4, AnswerInv
<1> QED
    BY <1>2, <1>3, <1>4 DEF DirectStream

LEMMA StepInv == ASSUME IInv, [Next]_vars PROVE IInv'
<1>1. q \in Query
    BY DEF IInv, TypeOK
<1>2. CASE Reload \/ ItemChanges \/ Done \/ UNCHANGED vars
    BY <1>2, EnvironmentInv
<1>3. CASE EnforceRefuses
    BY <1>3, AnswerInv DEF EnforceRefuses
<1>4. CASE NothingAllowed
    BY <1>4, AnswerInv DEF NothingAllowed
<1>5. CASE TrialFails
    BY <1>5, AnswerInv DEF TrialFails
<1>6. CASE NoFallback
    BY <1>1, <1>6, RewriteInv DEF NoFallback, Underway
<1>7. CASE Send
    BY <1>1, <1>7, RewriteInv DEF Send, Underway
<1> QED
    BY <1>2, <1>3, <1>4, <1>5, <1>6, <1>7, SecureInv, EnforcePassesInv, EnforceStartInv,
       LoadFailsInv, NothingToCheckInv, PinVersionInv, AutoSelectInv, ForceQualityInv,
       VideoFallbackInv, DirectStreamInv DEF Next

LEMMA InvHolds == Spec => []IInv
<1>1. Init => IInv
    BY InitInv
<1>2. IInv /\ [Next]_vars => IInv'
    BY StepInv
<1> QED
    BY <1>1, <1>2, PTL DEF Spec

-----------------------------------------------------------------------------
\* The state keeps its shape through all handlers.
THEOREM TypeCorrect == Spec => []TypeOK
<1>1. IInv => TypeOK
    BY DEF IInv
<1> QED
    BY <1>1, InvHolds, PTL

\* enforce_resolution_policy and video_transcode_fallback together keep
\* every query that reaches Plex within the policy of its request.
THEOREM PolicyEnforced == Spec => []PlaysWithinPolicy
<1>1. IInv => PlaysWithinPolicy
    BY DEF IInv
<1> QED
    BY <1>1, InvHolds, PTL

\* max_bitrate survives the handlers after enforce_resolution_policy.
THEOREM CapEnforced == Spec => []BitrateCapped
<1>1. IInv => BitrateCapped
    BY DEF IInv, CapHeld, BitrateCapped
<1> QED
    BY <1>1, InvHolds, PTL

\* Enforcement and auto_select_version leave a permitted choice alone.
THEOREM ChoiceRespected == Spec => []ChoiceKept
<1>1. IInv => ChoiceKept
    BY DEF IInv, ChoiceHeld, ChoiceKept, Underway
<1> QED
    BY <1>1, InvHolds, PTL
=============================================================================
