------------------------------ MODULE MCAccess ------------------------------
(***************************************************************************)
(* An instance of Access: tokens that plex.tv verifies (kid), that both    *)
(* servers share, with different accounts (shared), that one of them can   *)
(* name (opaque), and that only configuration can (bound).                 *)
(***************************************************************************)
EXTENDS Access, TLC

U(uuid, name) == [uuid |-> uuid, username |-> name]

MCServers == {"home", "cabin"}
MCTokens == {"kid", "shared", "opaque", "bound"}
MCNames == {"Kid", "Guest", "Owner"}
MCPlexUser == [t \in MCTokens |-> IF t = "kid" THEN U("u1", "Kid") ELSE Nobody]
MCSharedUser ==
    [s \in MCServers |->
        [t \in MCTokens |-> IF t # "shared" THEN Nobody
                            ELSE U("shared", IF s = "home" THEN "Guest" ELSE "Kid")]]
MCServerUser ==
    [s \in MCServers |->
        [t \in MCTokens |-> IF t = "opaque" /\ s = "home" THEN U("shared", "Guest") ELSE Nobody]]
MCBindings == [t \in MCTokens |-> IF t = "bound" THEN [username |-> "Owner", client |-> "tv"]
                                  ELSE NoBinding]
MCClientMap == [c \in {"phone"} |-> "Owner"]

MCFactOf ==
    [s \in MCServers |->
        [p \in {"film"} |-> [class |-> IF s = "home" THEN P1080 ELSE P2160, bitrate |-> 8]]]

In(t, c, kind, part) == [token |-> t, client |-> c, name |-> NoName, host |-> "home",
                         kind |-> kind, part |-> part]

MCInputs ==
    {In("kid", "phone", "part", "film"),
     In("shared", "phone", "part", NoPart),
     [In("shared", "phone", "part", "film") EXCEPT !.host = "cabin"],
     In("opaque", "phone", "metadata", NoPart),
     [In("opaque", "tv", "metadata", NoPart) EXCEPT !.host = "cabin", !.name = "Kid"],
     In("bound", "tv", "session", NoPart), In(NoToken, "phone", "session", NoPart),
     [In("kid", "tv", "metadata", NoPart) EXCEPT !.host = "unknown"]}

Entry(uuid, name, limit, cap) ==
    [uuid |-> uuid, username |-> name, limit |-> limit, cap |-> cap, visible |-> {}]

Policy(entries, default, failClosed) ==
    [entries |-> entries, default |-> default, hidden |-> {}, failClosed |-> failClosed]

MCSnapshots ==
    {Policy(<<Entry("u1", NoName, P1080, Absent), Entry("-", "Owner", Unlimited, Absent)>>, P2160, TRUE),
     Policy(<<Entry("-", "Kid", Unlimited, 4), Entry("-", "Guest", P1080, Absent)>>, Unlimited, FALSE)}

RequestSymmetry == Permutations(Requests)
=============================================================================
