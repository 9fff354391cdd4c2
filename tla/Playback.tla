------------------------------ MODULE Playback ------------------------------
(***************************************************************************)
(* One playback request on its way through the handlers of the decision,   *)
(* start and subtitles routes to Plex (routes.rs).  The handlers rewrite   *)
(* the query one after the other, and each loads the played item for       *)
(* itself, while the policy may be reloaded and the versions of the item   *)
(* may change.  Requests share nothing else, so one stands for all.        *)
(*                                                                         *)
(* Only routes with the policy switched on are modelled.  Of the query,    *)
(* what selects a version, its bitrate and direct play.                    *)
(***************************************************************************)
EXTENDS ResolutionRules

CONSTANTS
    Requests,     \* the requests clients send: records of ClientRequest
    Items,        \* the version lists the item may have
    Configs,      \* what is configured: auto, force, directFor, fallbackFor
    Snapshots,    \* the policies of the account that may be in force
    NoList        \* no version list

Labels == {"none", "480", "720", "1080", "2k", "2160", "4k", "", "unlimited", "sd", "8k"}

Version == [id : Nat, label : Labels, width : Int, height : Int, bitrate : Int]

Optional(S) == S \cup {Absent, Malformed}

Query == [mediaIndex : Optional(Nat), maxVideoBitrate : Optional(Nat),
          videoBitrate : Optional(Nat), directPlay : {Absent, 0, 1}]

ClientRequest ==
    [kind : {"decision", "start", "subtitles"}, token : BOOLEAN, skip : BOOLEAN,
     path : BOOLEAN, screen : Nat \cup {Absent}, query : Query]

\* Plex gives every version of an item an id of its own.
UniqueIds(media) == \A i, j \in DOMAIN media : media[i].id = media[j].id => i = j

ASSUME InputAssumption ==
    /\ Requests \subseteq ClientRequest
    /\ \A media \in Items :
          /\ DOMAIN media \subseteq Nat /\ media \in [DOMAIN media -> Version]
          /\ UniqueIds(media)
    /\ NoList \notin Items
    /\ Configs \subseteq [auto : BOOLEAN, force : BOOLEAN, directFor : BOOLEAN,
                          fallbackFor : Labels \cup {"unset"}]
    /\ Snapshots \subseteq [limit : Limits, cap : Nat \cup {Absent}, failClosed : BOOLEAN]

VARIABLES
    config,    \* AppState.config
    store,     \* the PolicySnapshot in force, as it bears on the account
    item,      \* the versions of the item at Plex
    pc,        \* the handler that comes next
    req,       \* the request as it came
    q,         \* its query now
    sec,       \* its SecurityContextState, with the snapshot it was made from
    runtime,   \* enforce_resolution_policy's own snapshot
    checked,   \* history: the list by which the policy admitted the index
    excuse     \* history: why there is no such list

vars == <<config, store, item, pc, req, q, sec, runtime, checked, excuse>>

Init ==
    /\ config \in Configs /\ store \in Snapshots /\ item \in Items
    /\ pc = "idle"
    /\ req \in Requests /\ q = req.query
    /\ sec = [resolved |-> FALSE, policy |-> store]
    /\ runtime = store
    /\ checked = NoList /\ excuse = "none"

-----------------------------------------------------------------------------
(***************************************************************************)
(* The environment: a reload by the administrator, and new, replaced or    *)
(* removed versions.                                                       *)
(***************************************************************************)
Reload ==
    /\ store' \in Snapshots
    /\ UNCHANGED <<config, item, pc, req, q, sec, runtime, checked, excuse>>

ItemChanges ==
    /\ item' \in Items
    /\ UNCHANGED <<config, store, pc, req, q, sec, runtime, checked, excuse>>

(***************************************************************************)
(* SecurityContextMiddleware: the policy is that of the snapshot taken     *)
(* here.  The identity may be unavailable; without a token it is.          *)
(***************************************************************************)
Secure ==
    /\ pc = "idle" /\ pc' = "enforce"
    /\ \E resolved \in BOOLEAN :
          /\ resolved => req.token
          /\ sec' = [resolved |-> resolved, policy |-> store]
    /\ UNCHANGED <<config, store, item, req, q, runtime, checked, excuse>>

Limit == sec.policy.limit
Cap == sec.policy.cap

Fault_CapBitrate(query, cap) ==
    LET requested == IF query.maxVideoBitrate # Absent THEN query.maxVideoBitrate
                     ELSE query.videoBitrate
    IN  IF requested = Absent \/ requested > cap
        THEN [query EXCEPT !.videoBitrate = Absent, !.maxVideoBitrate = cap]
        ELSE query

\* min(requested, cap), where a value that does not parse is no request.
CapBitrate(query, cap) ==
    LET requested == IF query.maxVideoBitrate # Absent THEN query.maxVideoBitrate
                     ELSE query.videoBitrate
    IN  IF requested \in {Absent, Malformed} \/ requested > cap
        THEN [query EXCEPT !.videoBitrate = Absent, !.maxVideoBitrate = cap]
        ELSE query

Capped == IF Cap = Absent THEN q ELSE CapBitrate(q, Cap)

Answer(status) ==
    /\ pc' = status
    /\ UNCHANGED <<config, store, item, req, q, sec, runtime, checked, excuse>>

\* enforce_resolution_policy up to the loading of the item.
EnforceRefuses ==
    /\ pc = "enforce"
    /\ \/ ~req.token /\ Answer("error")
       \/ req.token /\ ~sec.resolved /\ sec.policy.failClosed /\ Answer("refused")

EnforcePasses ==
    /\ pc = "enforce" /\ req.token
    /\ \/ ~sec.resolved /\ ~sec.policy.failClosed /\ q' = q
       \/ sec.resolved /\ (Limit = Unlimited \/ ~req.path) /\ q' = Capped
    /\ pc' = "auto" /\ excuse' = IF sec.resolved THEN "no item" ELSE "open"
    /\ UNCHANGED <<config, store, item, req, sec, runtime, checked>>

EnforceStart ==
    /\ pc = "enforce" /\ req.token
    /\ sec.resolved /\ Limit # Unlimited /\ req.path
    /\ q' = Capped
    /\ runtime' = store
    /\ pc' = "load"
    /\ UNCHANGED <<config, store, item, req, sec, checked, excuse>>

\* The item cannot be loaded, or the answer holds none: fail_closed decides,
\* that of the snapshot enforce_resolution_policy took.
LoadFails ==
    /\ pc = "load"
    /\ \/ runtime.failClosed /\ Answer("refused")
       \/ /\ ~runtime.failClosed
          /\ pc' = "auto" /\ excuse' = "open"
          /\ UNCHANGED <<config, store, item, req, q, sec, runtime, checked>>

NothingToCheck ==
    /\ pc = "load" /\ DOMAIN item = {}
    /\ pc' = "auto" /\ excuse' = "empty"
    /\ UNCHANGED <<config, store, item, req, q, sec, runtime, checked>>

Fault_Pins == BestAllowed(item, Limit, req.screen)

\* The version the client asked for is kept, else the best permitted pinned.
Pins ==
    IF q.mediaIndex \in AllowedMedia(item, Limit) THEN {q.mediaIndex}
    ELSE BestAllowed(item, Limit, req.screen)

PinVersion ==
    /\ pc = "load" /\ DOMAIN item # {}
    /\ \E i \in Pins : q' = [q EXCEPT !.mediaIndex = i]
    /\ checked' = item
    /\ pc' = "auto"
    /\ UNCHANGED <<config, store, item, req, sec, runtime, excuse>>

NothingAllowed ==
    /\ pc = "load" /\ DOMAIN item # {}
    /\ AllowedMedia(item, Limit) = {}
    /\ Answer("rejected")

-----------------------------------------------------------------------------
(***************************************************************************)
(* The optional handlers.  Plexamp and Live TV clients skip all of them.   *)
(***************************************************************************)
Rewrite(place, next, query) ==
    /\ pc = place /\ pc' = next
    /\ q' = query
    /\ UNCHANGED <<config, store, item, req, sec, runtime, checked, excuse>>

NoBitrate(query) == query.maxVideoBitrate = Absent /\ query.videoBitrate = Absent

\* A bitrate that does not parse leaves direct play to Plex as none does.
RequestedBitrate(query) ==
    IF query.videoBitrate # Absent THEN query.videoBitrate ELSE query.maxVideoBitrate

DirectIfUnbound(query) ==
    IF RequestedBitrate(query) \in {Absent, Malformed}
    THEN [query EXCEPT !.directPlay = 1] ELSE query

Selects ==
    /\ config.auto /\ ~req.skip /\ q.mediaIndex = Absent
    /\ req.screen # Absent /\ req.path

\* auto_select_version; the item may fail to load.
AutoSelect ==
    \/ /\ Selects /\ Cardinality(DOMAIN item) > 1
       /\ \E i \in BestFit(item, req.screen) :
             Rewrite("auto", "force", DirectIfUnbound([q EXCEPT !.mediaIndex = i]))
    \/ Rewrite("auto", "force", q)

Fault_Forced(query) ==
    [query EXCEPT !.maxVideoBitrate = Absent, !.videoBitrate = Absent, !.directPlay = 100]

\* What the handler does to the query once it has got past its checks.
Forced(query) ==
    [query EXCEPT !.maxVideoBitrate = Absent, !.videoBitrate = Absent, !.directPlay = 1]

Forces == config.force /\ ~req.skip /\ ~NoBitrate(q)

\* force_maximum_quality; with force_direct_play_for it gives up, and leaves
\* the query, when the item does not load or the index is not in it.
ForceQuality ==
    \/ /\ Forces
       /\ config.directFor /\ req.path =>
             (IF q.mediaIndex \in Nat THEN q.mediaIndex ELSE 0) \in DOMAIN item
       /\ Rewrite("force", "fallback", Forced(q))
    \/ /\ Forces => config.directFor /\ req.path
       /\ Rewrite("force", "fallback", q)

SelectedIndex == RequestedIndex(q.mediaIndex)

FallsBack ==
    /\ req.kind = "decision" /\ config.fallbackFor # "unset" /\ ~req.skip /\ req.path
    /\ SelectedIndex \in DOMAIN item /\ Cardinality(DOMAIN item) > 1
    /\ item[SelectedIndex].label = config.fallbackFor

Fault_FallbackLimit == Unlimited

\* The limit fallback candidates are held to: none if the identity failed open.
FallbackLimit == IF sec.resolved THEN Limit ELSE Unlimited

(***************************************************************************)
(* video_transcode_fallback: Plex is asked with the query so far, and if   *)
(* it would transcode, another version of the list is taken.               *)
(***************************************************************************)
VideoFallback ==
    /\ pc = "fallback" /\ FallsBack
    /\ \E i \in FirstFallback(item, SelectedIndex, config.fallbackFor, FallbackLimit) :
          q' = DirectIfUnbound([q EXCEPT !.mediaIndex = i])
    /\ checked' = IF checked = NoList THEN NoList ELSE item
    /\ pc' = "direct"
    /\ UNCHANGED <<config, store, item, req, sec, runtime, excuse>>

\* No fallback is wanted, needed or found, or the item does not load.
NoFallback == Rewrite("fallback", "direct", q)

TrialFails ==
    /\ pc = "fallback" /\ FallsBack
    /\ Answer("error")

AsksDirect == req.kind = "decision" /\ ~req.skip /\ q.directPlay # 0

\* direct_stream_fallback: Plex refuses direct play, agrees, or fails.
DirectStream ==
    \/ AsksDirect /\ Rewrite("direct", "send", [q EXCEPT !.directPlay = 0])
    \/ Rewrite("direct", "send", q)
    \/ pc = "direct" /\ AsksDirect /\ Answer("error")

Send == Rewrite("send", "sent", q)

Done == pc \in {"sent", "refused", "rejected", "error"} /\ UNCHANGED vars

Next ==
    \/ Reload \/ ItemChanges
    \/ Secure
    \/ EnforceRefuses \/ EnforcePasses \/ EnforceStart
    \/ LoadFails \/ NothingToCheck \/ PinVersion \/ NothingAllowed
    \/ AutoSelect \/ ForceQuality
    \/ VideoFallback \/ NoFallback \/ TrialFails
    \/ DirectStream \/ Send
    \/ Done

Spec == Init /\ [][Next]_vars

-----------------------------------------------------------------------------
Underway == {"auto", "force", "fallback", "direct", "send", "sent"}

\* The shape of the state.
TypeOK ==
    /\ config \in Configs /\ store \in Snapshots /\ item \in Items
    /\ pc \in Underway \cup {"idle", "enforce", "load", "refused", "rejected", "error"}
    /\ req \in Requests /\ q \in Query
    /\ sec \in [resolved : BOOLEAN, policy : Snapshots]
    /\ runtime \in Snapshots
    /\ checked \in Items \cup {NoList}
    /\ excuse \in {"none", "no item", "open", "empty"}

Restricted == sec.resolved /\ Limit # Unlimited

(***************************************************************************)
(* "This order prevents optional selectors from restoring versions         *)
(* prohibited by account policy": every query that leaves for Plex, trials *)
(* included, names a version the request's policy permits in the list it   *)
(* was taken from.  Without such a list there is nothing to play, or the   *)
(* item could not be loaded under a policy that fails open.                *)
(***************************************************************************)
PlaysWithinPolicy ==
    pc \in Underway /\ Restricted =>
        \/ checked # NoList /\ q.mediaIndex \in AllowedMedia(checked, Limit)
        \/ checked = NoList /\ excuse \in {"empty", "open"}
        \/ ~req.path

Effective(query) ==
    IF query.maxVideoBitrate # Absent THEN query.maxVideoBitrate ELSE query.videoBitrate

(***************************************************************************)
(* max_bitrate holds for what is sent, whatever the other handlers do,     *)
(* except global maximum quality, which the docs say not to combine.       *)
(***************************************************************************)
BitrateCapped ==
    pc \in Underway /\ sec.resolved /\ Cap # Absent /\ (~config.force \/ req.skip)
        => Effective(q) \in 0..Cap

(***************************************************************************)
(* A version the client chose and may play is not exchanged for another,   *)
(* except by the fallback for transcoded video.                            *)
(***************************************************************************)
ChoiceKept ==
    pc = "sent" /\ req.kind # "decision" /\ checked # NoList
        /\ req.query.mediaIndex \in AllowedMedia(checked, Limit)
            => q.mediaIndex = req.query.mediaIndex
=============================================================================
