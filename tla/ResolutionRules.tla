-------------------------- MODULE ResolutionRules --------------------------
(***************************************************************************)
(* The rules of the resolution policy and of version selection, as         *)
(* operators without state.  A version list is a function from Plex's      *)
(* indexes 0..n-1 to versions.  A limit is a number whose order is that    *)
(* of ResolutionLimit, and Unknown stands for a resolution that cannot be  *)
(* determined.                                                             *)
(***************************************************************************)
EXTENDS Integers, FiniteSets

Unknown == 0
P480 == 1
P720 == 2
P1080 == 3
P2160 == 4
Unlimited == 5

Limits == P480..Unlimited

\* The value of an optional number that is not there, or does not parse.
Absent == -1
Malformed == -2

\* ResolutionLimit::parse, on the text without case and surrounding blanks.
Parse(text) ==
    CASE text = "480"               -> P480
      [] text = "720"               -> P720
      [] text \in {"1080", "2k"}    -> P1080
      [] text \in {"2160", "4k"}    -> P2160
      [] text \in {"", "unlimited"} -> Unlimited
      [] OTHER                      -> Unknown

ClassifyDimensions(w, h) ==
    CASE w <= 0 \/ h <= 0       -> Unknown
      [] w > 4096 \/ h > 2160   -> Unknown
      [] w > 1920 \/ h > 1080   -> P2160
      [] w > 1280 \/ h > 720    -> P1080
      [] w > 720 \/ h > 480     -> P720
      [] OTHER                  -> P480

Larger(a, b) == IF a < b THEN b ELSE a

\* Label and dimensions disagree: the higher class counts; Unknown is lowest.
Classify(version) ==
    Larger(Parse(version.label), ClassifyDimensions(version.width, version.height))

Within(class, limit) == limit = Unlimited \/ (class # Unknown /\ class <= limit)

MediaAllowed(version, limit) == Within(Classify(version), limit)

AllowedMedia(media, limit) == {i \in DOMAIN media : MediaAllowed(media[i], limit)}

AbsDiff(a, b) == IF a < b THEN b - a ELSE a - b

\* What an absent dimension contributes to the density is 0.
Density(version) ==
    IF version.width < 0 \/ version.height < 0 THEN 0 ELSE version.width * version.height

\* best_allowed_media: the key to minimise; without a screen, density wins.
Misfit(version, screen) ==
    IF screen = Absent THEN -Density(version) ELSE AbsDiff(Density(version), screen)

\* Iterator::min_by: the first of the indexes whose version misfits least.
FirstBest(media, indexes, screen) ==
    {i \in indexes : \A j \in indexes :
        LET a == Misfit(media[i], screen)
            b == Misfit(media[j], screen)
        IN  a < b \/ (a = b /\ i <= j)}

\* The permitted version to pin: found by its id in the whole list again.
BestAllowed(media, limit, screen) ==
    {i \in DOMAIN media :
        /\ \E b \in FirstBest(media, AllowedMedia(media, limit), screen) : media[b].id = media[i].id
        /\ \A j \in DOMAIN media : media[j].id = media[i].id => i <= j}

HasDensity(version) == version.width >= 0 /\ version.height >= 0

\* best_fit_index: unknown densities last, ties to the higher density.
BestFit(media, screen) ==
    LET Better(i, j) ==
            CASE HasDensity(media[i]) /\ HasDensity(media[j]) ->
                    LET a == AbsDiff(Density(media[i]), screen)
                        b == AbsDiff(Density(media[j]), screen)
                    IN  \/ a < b
                        \/ a = b /\ Density(media[i]) > Density(media[j])
                        \/ a = b /\ Density(media[i]) = Density(media[j]) /\ i <= j
              [] HasDensity(media[i]) # HasDensity(media[j]) -> HasDensity(media[i])
              [] OTHER -> i <= j
    IN  {i \in DOMAIN media : \A j \in DOMAIN media : Better(i, j)}

\* requested_media_index
RequestedIndex(mediaIndex) == IF mediaIndex = Absent THEN 0 ELSE mediaIndex

\* fallback_indexes: what may stand in for the selected version.
Fallbacks(media, selected, fallbackFor, limit) ==
    {i \in AllowedMedia(media, limit) :
        /\ i # selected
        /\ media[i].label # "none" /\ media[i].label # fallbackFor}

\* Its first element: the highest density, and the first of those.
FirstFallback(media, selected, fallbackFor, limit) ==
    FirstBest(media, Fallbacks(media, selected, fallbackFor, limit), Absent)

\* The least of a set of indexes, as a set that is empty with it.
Least(S) == {i \in S : \A j \in S : i <= j}

\* resolve_policy: the first entry with the uuid, else the first with the name.
EntryOf(snapshot, id) ==
    LET E == snapshot.entries
        byUuid == Least({i \in DOMAIN E : E[i].uuid = id.uuid})
        byName == Least({i \in DOMAIN E : E[i].username = id.username})
    IN  IF byUuid # {} THEN byUuid ELSE byName

ResolvePolicy(snapshot, id) ==
    LET hits == EntryOf(snapshot, id)
        entry == snapshot.entries[CHOOSE i \in hits : TRUE]
    IN  IF hits = {}
        THEN [limit |-> snapshot.default, cap |-> Absent, hidden |-> snapshot.hidden]
        ELSE [limit |-> entry.limit, cap |-> entry.cap,
              hidden |-> snapshot.hidden \ entry.visible]

\* part_classification_allowed: unknown facts do not pass a restriction.
PartAllowed(fact, limit, cap) ==
    /\ Within(fact.class, limit)
    /\ cap = Absent \/ (fact.bitrate # Absent /\ fact.bitrate <= cap)
=============================================================================
