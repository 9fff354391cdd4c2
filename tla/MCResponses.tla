---------------------------- MODULE MCResponses ----------------------------
(***************************************************************************)
(* Instances of Responses: two collections of one title and two accounts.  *)
(***************************************************************************)
EXTENDS Responses

Thing(media, playable) ==
    [views |-> 0, leaves |-> -1, viewed |-> -1, media |-> media, playable |-> playable, kids |-> {},
     title |-> NoTitle]

\* A watched movie in two versions; a show that is not watched to its end
\* although it was once, with a season, movies, and a clip without media; an
\* unwatched movie in high resolution; a collection.
MCFacts ==
    [i \in Items |->
        CASE i = "seen"   -> [Thing({1, 2}, TRUE) EXCEPT !.views = 1]
          [] i = "film"   -> Thing({2}, TRUE)
          [] i = "clip"   -> Thing({}, TRUE)
          [] i = "season" -> Thing({}, FALSE)
          [] i = "show"   -> [Thing({}, FALSE) EXCEPT !.views = 1, !.leaves = 2, !.viewed = 1,
                                                     !.kids = {"season", "seen", "film", "clip"}]
          [] i = "box"    -> [Thing({}, FALSE) EXCEPT !.title = "t1"]]

MCContents == [c \in Collections |-> IF c = "c1" THEN <<"seen", "show">> ELSE <<"film">>]

Row(c, title, items) ==
    [is |-> "hub", of |-> c, title |-> title, size |-> Len(items), key |-> <<c>>, ours |-> FALSE,
     hero |-> FALSE, malformed |-> FALSE, continues |-> FALSE, items |-> RawItems(items)]

PlexRow(title, items) ==
    [Row(BuiltIn, title, items) EXCEPT !.key = <<>>, !.hero = TRUE, !.continues = TRUE]

MCHomeRows ==
    [a \in Accounts |->
        IF a = "a1" THEN <<Row("c1", "t1", MCContents["c1"]), PlexRow("t2", <<"seen", "box">>),
                           Row("c2", "t1", MCContents["c2"])>>
        ELSE <<Row("c2", "t2", MCContents["c2"]), Row("c1", "t1", MCContents["c1"])>>]

MCPages == {<<"seen", "show">>, <<"box", "film", "clip">>}

AllOn == [interleave |-> TRUE, hubRestrictions |-> TRUE, excludeWatched |-> TRUE, leafCount |-> FALSE]

MCConfigs == {AllOn, [AllOn EXCEPT !.hubRestrictions = FALSE, !.excludeWatched = FALSE]}

Client1(a, skips, count, no) == [account |-> a, skips |-> skips, count |-> count, noContinue |-> no]

MCClients == {Client1("a1", FALSE, 5, TRUE), Client1("a1", TRUE, 5, FALSE),
              Client1("a2", FALSE, 1, FALSE)}

World(watched, a2) ==
    [labels |-> [c \in Collections |-> IF c \in watched THEN {"watched"} ELSE {}],
     shared |-> [a \in Accounts |-> IF a = "a1" THEN Collections ELSE a2]]

MCWorlds == {World({}, {"c2"}), World({"c1"}, {})}

MCPolicies == {[limit |-> 1, hidden |-> {"t1"}], [limit |-> Unlimited, hidden |-> {}]}
=============================================================================
