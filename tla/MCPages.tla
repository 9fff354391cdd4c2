------------------------------- MODULE MCPages -------------------------------
\* Instances of Pages: an account that is warmed, and one without a token;
\* the configured server, and one more.
EXTENDS Pages, TLC

In(kind, server, account, item) ==
    [kind |-> kind, server |-> server, account |-> account, item |-> item, shaped |-> FALSE,
     skips |-> FALSE]

Shaped(x) == [x EXCEPT !.shaped = TRUE]
Skipping(x) == [x EXCEPT !.skips = TRUE]

PageInputs == {Shaped(In("page", "away", "a1", "i1")), In("page", "home", "anon", "i1")}

PhotoInputs == {In("photo", "away", "a1", "i1"), Skipping(In("photo", "away", "a1", "i1")),
                In("photo", "home", "anon", "i1")}

MCInputs == PageInputs \cup PhotoInputs \cup {In("asset", "away", "a1", "i1")}

Symmetry == Permutations(Requests) \cup Permutations(Policies)
=============================================================================
