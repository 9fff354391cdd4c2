----------------------------- MODULE MCPlayback -----------------------------
(***************************************************************************)
(* Instances of Playback: an item with versions of 4k, 1080p and 720p in   *)
(* changing order, one mislabelled, one of unknown resolution, or none.    *)
(***************************************************************************)
EXTENDS Playback

V(id, label, w, h) == [id |-> id, label |-> label, width |-> w, height |-> h, bitrate |-> 8]

uhd == V(1, "4k", 3840, 2160)
hd == V(2, "1080", 1920, 1080)
sd == V(3, "720", 1280, 720)
mislabelled == V(4, "1080", 3840, 1608)
opaque == V(5, "none", Absent, Absent)

List3(a, b, c) == [i \in 0..2 |-> CASE i = 0 -> a [] i = 1 -> b [] OTHER -> c]

MCItems == {List3(uhd, hd, sd), List3(mislabelled, sd, hd), List3(hd, opaque, uhd),
            [i \in 0..0 |-> uhd], [i \in {} |-> uhd]}

Q(i, max, bitrate, direct) ==
    [mediaIndex |-> i, maxVideoBitrate |-> max, videoBitrate |-> bitrate, directPlay |-> direct]

MCQueries ==
    {Q(i, Absent, Absent, Absent) : i \in {Absent, Malformed, 0, 1, 2, 3}}
    \cup {Q(i, b[1], b[2], d) : i \in {Absent, 1}, d \in {Absent, 0},
            b \in {<<5, Absent>>, <<20, Absent>>, <<Absent, 20>>, <<5, 20>>, <<Malformed, 20>>}}

MCRequests ==
    {[kind |-> k, token |-> TRUE, skip |-> s, path |-> TRUE, screen |-> d, query |-> query] :
        k \in {"decision", "start"}, s \in BOOLEAN, d \in {Absent, 1280 * 720},
        query \in MCQueries}
    \cup {[kind |-> "subtitles", token |-> t, skip |-> FALSE, path |-> FALSE,
           screen |-> Absent, query |-> Q(0, Absent, 20, Absent)] : t \in BOOLEAN}

Options(auto, force, directFor, fallbackFor) ==
    [auto |-> auto, force |-> force, directFor |-> directFor, fallbackFor |-> fallbackFor]

MCConfigs == {Options(TRUE, FALSE, FALSE, "4k"), Options(TRUE, TRUE, TRUE, "1080"),
              Options(FALSE, TRUE, FALSE, "unset")}

P(limit, cap, failClosed) == [limit |-> limit, cap |-> cap, failClosed |-> failClosed]

MCSnapshots == {P(P720, Absent, TRUE), P(P1080, 10, FALSE), P(Unlimited, 10, TRUE)}
=============================================================================
