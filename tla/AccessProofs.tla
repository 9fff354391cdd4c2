---------------------------- MODULE AccessProofs ----------------------------
(***************************************************************************)
(* Proofs about Access, for every set of requests, servers, tokens, parts  *)
(* and policies, and whatever Plex and the configuration say of a token.   *)
(***************************************************************************)
EXTENDS Access, TLAPS

Sources == {"plex", "resource", "server", "token", "client", "username"}

LEMMA FoundType ==
    ASSUME NEW id \in Identity, NEW source \in Sources
    PROVE  Found(id, source) \in Resolution
BY DEF Found, Resolution, Sources

LEMMA ConfiguredType ==
    ASSUME NEW n \in Names
    PROVE  Configured(n) \in Identity
BY WorldAssumption DEF Configured, Identity

\* Whatever step of the lookup succeeds, it yields a whole identity.
LEMMA FetchedType ==
    ASSUME NEW x \in Inputs, x.token \in Tokens, x.host \in Servers, NEW found \in Fetched(x)
    PROVE  found \in Resolution \cup {Unresolved}
<1>1. x \in Input
    BY WorldAssumption
<1>2. ByUsername(x) \subseteq Resolution \cup {Unresolved}
    BY <1>1, ConfiguredType, FoundType DEF ByUsername, Input, Sources
<1>3. ByClient(x) \subseteq Resolution \cup {Unresolved}
    BY <1>2, WorldAssumption, ConfiguredType, FoundType DEF ByClient, Sources
<1>4. ByBinding(x) \subseteq Resolution \cup {Unresolved}
    <2>1. CASE Bindings[x.token] = NoBinding
        BY <2>1, <1>3 DEF ByBinding
    <2>2. CASE Bindings[x.token] # NoBinding
        <3>1. Bindings[x.token].username \in Names
            BY <2>2, WorldAssumption
        <3>2. Found(Configured(Bindings[x.token].username), "token") \in Resolution
            BY <3>1, ConfiguredType, FoundType DEF Sources
        <3> QED
            BY <2>2, <3>2 DEF ByBinding
    <2> QED
        BY <2>1, <2>2
<1>5. ByServers(x) \subseteq Resolution \cup {Unresolved}
    <2>1. ServerUser[x.host][x.token] \in Identity \cup {Nobody}
        BY WorldAssumption
    <2>2. ServerUser[x.host][x.token] # Nobody
            => Found(ServerUser[x.host][x.token], "server") \in Resolution
        BY <2>1, FoundType DEF Sources
    <2> QED
        BY <1>4, <2>2 DEF ByServers
<1>6. ByResources(x) \subseteq Resolution \cup {Unresolved}
    <2>1. SharedUser[x.host][x.token] \in Identity \cup {Nobody}
        BY WorldAssumption
    <2>2. SharedUser[x.host][x.token] # Nobody
            => Found(SharedUser[x.host][x.token], "resource") \in Resolution
        BY <2>1, FoundType DEF Sources
    <2> QED
        BY <1>5, <2>2 DEF ByResources
<1>7. PlexUser[x.token] # Nobody => Found(PlexUser[x.token], "plex") \in Resolution
    BY WorldAssumption, FoundType DEF Sources
<1> QED
    BY <1>6, <1>7 DEF Fetched

\* Nothing weaker is asked about a token that Plex can name for the server.
LEMMA FetchedKnown ==
    ASSUME NEW x, x.token \in Tokens, x.host \in Servers, NEW found \in Fetched(x),
           found # Unresolved, Nobody \notin Accounts(x.token)
    PROVE  found.id \in Accounts(x.token)
<1>1. x.token # NoToken
    BY WorldAssumption
<1>2. CASE PlexUser[x.token] # Nobody
    BY <1>1, <1>2 DEF Fetched, Accounts, Found
<1>3. CASE PlexUser[x.token] = Nobody
    <2>1. SharedUser[x.host][x.token] \in Accounts(x.token)
        BY <1>1, <1>3 DEF Accounts
    <2>2. found = Found(SharedUser[x.host][x.token], "resource")
        BY <1>3, <2>1 DEF Fetched, ByResources
    <2> QED
        BY <2>1, <2>2 DEF Found
<1> QED
    BY <1>2, <1>3

LEMMA UnresolvedIsNone == Unresolved \notin Resolution /\ Unresolved.state # "resolved"
BY DEF Unresolved, Resolution

-----------------------------------------------------------------------------
\* What is recorded of a part number is true at one of the servers.
FactsAreTrue ==
    \A p \in Parts : facts[p] # NoFact => \E s \in Servers : facts[p] = FactOf[s][p]

\* A request has no outcome before its answer.
Quiet == \A r \in Requests : pc[r] \notin {"idle", "done"} => outcome[r] = "none"

IInv == TypeOK /\ FactsAreTrue /\ Quiet /\ IdentityIsPlexs /\ StreamsWithinPolicy /\ FailsClosed

LEMMA InitInv == Init => IInv
<1> SUFFICES ASSUME Init PROVE IInv
    OBVIOUS
<1>1. TypeOK
    BY DEF Init, TypeOK, Places
<1>2. FactsAreTrue /\ Quiet /\ StreamsWithinPolicy /\ FailsClosed
    BY DEF Init, FactsAreTrue, Quiet, StreamsWithinPolicy, FailsClosed, Delivered
<1>3. IdentityIsPlexs
    BY UnresolvedIsNone DEF Init, IdentityIsPlexs, Resolved
<1> QED
    BY <1>1, <1>2, <1>3 DEF IInv

-----------------------------------------------------------------------------
(***************************************************************************)
(* Type correctness.                                                       *)
(***************************************************************************)
LEMMA StepType ==
    ASSUME TypeOK, [Next]_vars
    PROVE  TypeOK'
<1>1. ASSUME NEW r \in Requests, NEW x \in Inputs, Arrive(r, x) PROVE TypeOK'
    BY <1>1 DEF TypeOK, Arrive, Goto, Places
<1>2. ASSUME NEW r \in Requests, NEW what \in {"bad host", "metadata", "refused", "forbidden",
                                               "proxy", "redirect"},
             Respond(r, what), facts' \in [Parts -> Fact \cup {NoFact}]
      PROVE  TypeOK'
    BY <1>2 DEF TypeOK, Respond, Goto, Places
<1>3. ASSUME NEW r \in Requests, RejectHost(r) PROVE TypeOK'
    BY <1>2, <1>3 DEF RejectHost, TypeOK
<1>4. ASSUME NEW r \in Requests, Secure(r) PROVE TypeOK'
    <2>1. req[r] \in Input
        BY WorldAssumption DEF TypeOK
    <2>2. req[r].token \in Tokens \cup {NoToken}
        BY <2>1 DEF Input
    <2>3. req[r].host \in Servers
        BY <1>4, <2>1 DEF Secure, Input
    <2> QED
        BY <1>4, <2>2, <2>3 DEF TypeOK, Secure, Goto, Places
<1>5. ASSUME NEW r \in Requests, UseCached(r) PROVE TypeOK'
    BY <1>5 DEF TypeOK, UseCached, Goto, Places, CacheKey
<1>6. ASSUME NEW r \in Requests, StartLookup(r) PROVE TypeOK'
    BY <1>6 DEF TypeOK, StartLookup, Goto, Places
<1>7. ASSUME NEW r \in Requests, Identify(r) PROVE TypeOK'
    <2>1. PICK found \in Fetched(req[r]) :
              sec' = [sec EXCEPT ![r] = found] /\ Goto(r, AfterLookup(found))
        BY <1>7 DEF Identify
    <2>2. found \in Resolution \cup {Unresolved}
        BY <1>7, FetchedType DEF TypeOK, Identify
    <2>3. AfterLookup(found) = "handle"
              \/ (AfterLookup(found) = "found" /\ found \in Resolution)
        BY <2>2 DEF AfterLookup
    <2> QED
        BY <1>7, <2>1, <2>2, <2>3 DEF TypeOK, Identify, Goto, Places
<1>8. ASSUME NEW r \in Requests, StoreIdentity(r) PROVE TypeOK'
    BY <1>8 DEF TypeOK, StoreIdentity, Goto, Places, CacheKey
<1>9. ASSUME NEW r \in Requests, LearnFacts(r) PROVE TypeOK'
    <2>1. FactOf[req[r].host] \in [Parts -> Fact]
        BY <1>9, WorldAssumption DEF TypeOK, LearnFacts
    <2>2. facts' \in [Parts -> Fact \cup {NoFact}]
        BY <1>9, <2>1 DEF TypeOK, LearnFacts
    <2> QED
        BY <1>2, <1>9, <2>2 DEF LearnFacts
<1>10. ASSUME NEW r \in Requests, ServeUnidentified(r) PROVE TypeOK'
    BY <1>2, <1>10 DEF ServeUnidentified, TypeOK
<1>11. ASSUME NEW r \in Requests, Gate(r) PROVE TypeOK'
    BY <1>2, <1>11 DEF Gate, Delivery, TypeOK
<1>12. ASSUME Reload PROVE TypeOK'
    BY <1>12 DEF TypeOK, Reload
<1>13. ASSUME NEW t \in Tokens, ForgetIdentity(t) PROVE TypeOK'
    BY <1>13 DEF TypeOK, ForgetIdentity
<1>14. ASSUME NEW p \in Parts, ForgetFact(p) PROVE TypeOK'
    BY <1>14 DEF TypeOK, ForgetFact
<1>15. CASE UNCHANGED vars
    BY <1>15 DEF TypeOK, vars
<1> QED
    BY <1>1, <1>3, <1>4, <1>5, <1>6, <1>7, <1>8, <1>9, <1>10, <1>11, <1>12, <1>13, <1>14,
       <1>15 DEF Next, RequestStep

-----------------------------------------------------------------------------
(***************************************************************************)
(* Facts and identities.                                                   *)
(***************************************************************************)
LEMMA StepFacts ==
    ASSUME IInv, [Next]_vars
    PROVE  FactsAreTrue'
<1>1. ASSUME NEW r \in Requests, LearnFacts(r) PROVE FactsAreTrue'
    BY <1>1 DEF IInv, TypeOK, FactsAreTrue, LearnFacts
<1>2. ASSUME NEW p \in Parts, ForgetFact(p) PROVE FactsAreTrue'
    BY <1>2 DEF IInv, TypeOK, FactsAreTrue, ForgetFact
<1>3. CASE UNCHANGED facts
    BY <1>3 DEF IInv, FactsAreTrue
<1> QED
    BY <1>1, <1>2, <1>3 DEF Next, RequestStep, Arrive, RejectHost, Secure, UseCached,
       StartLookup, Identify, StoreIdentity, ServeUnidentified, Gate, Reload, ForgetIdentity, vars

LEMMA StepIdentity ==
    ASSUME IInv, [Next]_vars
    PROVE  IdentityIsPlexs'
<1> USE DEF IInv, TypeOK, IdentityIsPlexs, Resolved
<1>1. ASSUME NEW r \in Requests, NEW x \in Inputs, Arrive(r, x) PROVE IdentityIsPlexs'
    BY <1>1, UnresolvedIsNone DEF Arrive
<1>2. ASSUME NEW r \in Requests, UseCached(r) PROVE IdentityIsPlexs'
    BY <1>2 DEF UseCached, Cached, CacheKey
<1>3. ASSUME NEW r \in Requests, Identify(r) PROVE IdentityIsPlexs'
    <2>1. PICK found \in Fetched(req[r]) : sec' = [sec EXCEPT ![r] = found]
        BY <1>3 DEF Identify
    <2>2. req[r].token \in Tokens /\ req[r].host \in Servers
        BY <1>3 DEF Identify
    <2>3. found # Unresolved /\ Nobody \notin Accounts(req[r].token)
            => found.id \in Accounts(req[r].token)
        BY <2>2, FetchedKnown
    <2> QED
        BY <1>3, <2>1, <2>3, UnresolvedIsNone DEF Identify
<1>4. ASSUME NEW r \in Requests, StoreIdentity(r) PROVE IdentityIsPlexs'
    <2>1. Resolved(r) /\ req[r].token \in Tokens
        BY <1>4 DEF StoreIdentity, Resolution
    <2> QED
        BY <1>4, <2>1 DEF StoreIdentity, CacheKey
<1>5. ASSUME NEW t \in Tokens, ForgetIdentity(t) PROVE IdentityIsPlexs'
    BY <1>5 DEF ForgetIdentity
<1>6. CASE UNCHANGED <<identities, req, sec>>
    BY <1>6
<1> QED
    BY <1>1, <1>2, <1>3, <1>4, <1>5, <1>6 DEF Next, RequestStep, RejectHost, Secure,
       StartLookup, LearnFacts, ServeUnidentified, Gate, Respond, Reload, ForgetFact, vars

-----------------------------------------------------------------------------
(***************************************************************************)
(* What the gate hands out.                                                *)
(***************************************************************************)
WithinPolicy(r, account) ==
    LET policy == ResolvePolicy(snap[r], account) IN
    Restricts(policy) =>
        /\ outcome[r] = "proxy"
        /\ Numbered(r)
              => \E s \in Servers : PartAllowed(FactOf[s][req[r].part], policy.limit, policy.cap)

Bounded(r) ==
    Delivered(r) /\ Resolved(r) /\ Nobody \notin Accounts(req[r].token) =>
        \E account \in Accounts(req[r].token) : WithinPolicy(r, account)

Closed(r) == Delivered(r) /\ ~Resolved(r) => ~snap[r].failClosed

\* An undelivered request is bounded, and a step elsewhere changes nothing.
LEMMA UndeliveredBounded ==
    ASSUME NEW r, outcome'[r] \notin {"proxy", "redirect"}
    PROVE  Bounded(r)' /\ Closed(r)'
BY DEF Bounded, Closed, Delivered

LEMMA OthersBounded ==
    ASSUME NEW r, Bounded(r), Closed(r),
           outcome'[r] = outcome[r], sec'[r] = sec[r], req'[r] = req[r], snap'[r] = snap[r]
    PROVE  Bounded(r)' /\ Closed(r)'
BY DEF Bounded, Closed, Delivered, Resolved, WithinPolicy, Restricts, Numbered

LEMMA GateBounded ==
    ASSUME IInv, NEW r \in Requests, Gate(r)
    PROVE  Bounded(r)' /\ Closed(r)'
<1>1. UNCHANGED <<req, snap, sec, facts>>
    BY DEF Gate, Respond
<1>2. Resolved(r) /\ Nobody \notin Accounts(req[r].token)
        => sec[r].id \in Accounts(req[r].token)
    BY DEF IInv, IdentityIsPlexs
<1>3. CASE Respond(r, "refused")
    BY <1>3, UndeliveredBounded DEF Respond, IInv, TypeOK
<1>4. CASE /\ ~GateRefuses(r)
           /\ Resolved(r) => ~Restricts(PolicyOf(r))
           /\ Respond(r, Delivery(FALSE))
    <2>1. Resolved(r) => WithinPolicy(r, sec[r].id)'
        BY <1>1, <1>4 DEF PolicyOf, WithinPolicy, Restricts
    <2>2. ~Resolved(r) => ~snap[r].failClosed
        BY <1>4 DEF GateRefuses
    <2>3. Closed(r)'
        BY <1>1, <2>2 DEF Closed, Resolved
    <2>4. Bounded(r)'
        BY <1>1, <1>2, <2>1 DEF Bounded, Resolved
    <2> QED
        BY <2>3, <2>4
<1>5. CASE /\ ~GateRefuses(r) /\ Resolved(r) /\ Restricts(PolicyOf(r))
           /\ Respond(r, IF Numbered(r) /\ ~PartPasses(r) THEN "forbidden"
                         ELSE Delivery(TRUE))
    <2>1. CASE Numbered(r) /\ ~PartPasses(r)
        BY <1>5, <2>1, UndeliveredBounded DEF Respond, IInv, TypeOK
    <2>2. CASE ~(Numbered(r) /\ ~PartPasses(r))
        <3>1. outcome'[r] = "proxy"
            BY <1>5, <2>2 DEF Respond, Delivery, IInv, TypeOK
        <3>2. Numbered(r) => \E s \in Servers :
                  PartAllowed(FactOf[s][req[r].part], PolicyOf(r).limit, PolicyOf(r).cap)
            <4>1. req[r] \in Input
                BY WorldAssumption DEF IInv, TypeOK
            <4>2. Numbered(r) => req[r].part \in Parts
                BY <4>1 DEF Input, Numbered
            <4> QED
                BY <2>2, <4>2 DEF PartPasses, IInv, FactsAreTrue
        <3>3. Closed(r)'
            BY <1>1, <1>5 DEF Closed, Resolved
        <3>4. WithinPolicy(r, sec[r].id)'
            BY <1>1, <3>1, <3>2 DEF WithinPolicy, PolicyOf, Numbered
        <3>5. Bounded(r)'
            BY <1>1, <1>2, <1>5, <3>4 DEF Bounded, Resolved
        <3> QED
            BY <3>3, <3>5
    <2> QED
        BY <2>1, <2>2
<1> QED
    BY <1>3, <1>4, <1>5 DEF Gate

LEMMA StepQuiet ==
    ASSUME IInv, [Next]_vars
    PROVE  Quiet'
<1> USE DEF IInv, TypeOK, Quiet
<1>1. ASSUME NEW r \in Requests, NEW x \in Inputs, Arrive(r, x) PROVE Quiet'
    BY <1>1 DEF Arrive, Goto
<1>2. ASSUME NEW r \in Requests, NEW what, Respond(r, what) PROVE Quiet'
    BY <1>2 DEF Respond, Goto
<1>3. ASSUME NEW r \in Requests, NEW place \in Places, pc[r] \notin {"idle", "done"},
             Goto(r, place), UNCHANGED outcome
      PROVE  Quiet'
    BY <1>3 DEF Goto
<1>4. ASSUME NEW r \in Requests, Secure(r) \/ UseCached(r) \/ StartLookup(r) \/ StoreIdentity(r)
      PROVE  Quiet'
    BY <1>3, <1>4 DEF Secure, UseCached, StartLookup, StoreIdentity, Places
<1>5. ASSUME NEW r \in Requests, Identify(r) PROVE Quiet'
    BY <1>3, <1>5 DEF Identify, AfterLookup, Places
<1>6. ASSUME NEW r \in Requests, RejectHost(r) \/ LearnFacts(r) \/ ServeUnidentified(r) \/ Gate(r)
      PROVE  Quiet'
    BY <1>2, <1>6 DEF RejectHost, LearnFacts, ServeUnidentified, Gate
<1>7. CASE UNCHANGED <<pc, outcome>>
    BY <1>7
<1> QED
    BY <1>1, <1>4, <1>5, <1>6, <1>7 DEF Next, RequestStep, Reload, ForgetIdentity, ForgetFact, vars

LEMMA StepBounded ==
    ASSUME IInv, [Next]_vars, NEW s \in Requests
    PROVE  Bounded(s)' /\ Closed(s)'
<1> DEFINE Same == /\ outcome'[s] = outcome[s] /\ sec'[s] = sec[s]
                   /\ req'[s] = req[s] /\ snap'[s] = snap[s]
<1>1. Bounded(s) /\ Closed(s)
    BY DEF IInv, StreamsWithinPolicy, FailsClosed, Bounded, Closed, WithinPolicy
<1>2. Same => Bounded(s)' /\ Closed(s)'
    BY <1>1, OthersBounded
<1>3. ASSUME NEW r \in Requests, NEW x \in Inputs, Arrive(r, x) PROVE Bounded(s)' /\ Closed(s)'
    <2>1. CASE r = s
        BY <1>3, <2>1, UndeliveredBounded DEF Arrive, IInv, TypeOK
    <2>2. CASE r # s
        <3>1. Same
            BY <1>3, <2>2 DEF Arrive, IInv, TypeOK
        <3> QED
            BY <1>2, <3>1
    <2> QED
        BY <2>1, <2>2
<1>4. ASSUME NEW r \in Requests,
             Secure(r) \/ UseCached(r) \/ StartLookup(r) \/ Identify(r) \/ StoreIdentity(r)
      PROVE  Bounded(s)' /\ Closed(s)'
    <2>1. CASE r = s
        <3>1. outcome'[s] = "none"
            BY <1>4, <2>1 DEF IInv, Quiet, Secure, UseCached, StartLookup, Identify, StoreIdentity
        <3> QED
            BY <3>1, UndeliveredBounded
    <2>2. CASE r # s
        <3>1. Same
            BY <1>4, <2>2 DEF IInv, TypeOK, Secure, UseCached, StartLookup, Identify, StoreIdentity
        <3> QED
            BY <1>2, <3>1
    <2> QED
        BY <2>1, <2>2
<1>5. ASSUME NEW r \in Requests, NEW what, Respond(r, what),
             r = s => what \notin {"proxy", "redirect"} \/ Gate(r)
      PROVE  Bounded(s)' /\ Closed(s)'
    <2>1. CASE r = s /\ ~Gate(r)
        BY <1>5, <2>1, UndeliveredBounded DEF Respond, IInv, TypeOK
    <2>2. CASE r = s /\ Gate(r)
        BY <2>2, GateBounded
    <2>3. CASE r # s
        <3>1. Same
            BY <1>5, <2>3 DEF IInv, TypeOK, Respond
        <3> QED
            BY <1>2, <3>1
    <2> QED
        BY <2>1, <2>2, <2>3
<1>6. ASSUME NEW r \in Requests, RejectHost(r) \/ LearnFacts(r) \/ ServeUnidentified(r)
      PROVE  Bounded(s)' /\ Closed(s)'
    BY <1>5, <1>6 DEF RejectHost, LearnFacts, ServeUnidentified
<1>7. ASSUME NEW r \in Requests, Gate(r) PROVE Bounded(s)' /\ Closed(s)'
    BY <1>5, <1>7 DEF Gate
<1>8. ASSUME UNCHANGED <<outcome, sec, req, snap>> PROVE Bounded(s)' /\ Closed(s)'
    BY <1>2, <1>8
<1> QED
    BY <1>3, <1>4, <1>6, <1>7, <1>8 DEF Next, RequestStep, Reload, ForgetIdentity, ForgetFact, vars

LEMMA StepInv ==
    ASSUME IInv, [Next]_vars
    PROVE  IInv'
<1>1. TypeOK' /\ FactsAreTrue' /\ IdentityIsPlexs' /\ Quiet'
    BY StepType, StepFacts, StepIdentity, StepQuiet DEF IInv
<1>2. \A s \in Requests : Bounded(s)' /\ Closed(s)'
    BY StepBounded
<1>3. StreamsWithinPolicy' /\ FailsClosed'
    BY <1>2 DEF StreamsWithinPolicy, FailsClosed, Bounded, Closed, WithinPolicy
<1> QED
    BY <1>1, <1>3 DEF IInv

LEMMA InvHolds == Spec => []IInv
<1>1. IInv /\ [Next]_vars => IInv'
    BY StepInv
<1> QED
    BY InitInv, <1>1, PTL DEF Spec

-----------------------------------------------------------------------------
\* Every state has its shape: a request that stores an identity has one.
THEOREM TypeCorrect == Spec => []TypeOK
<1>1. IInv => TypeOK
    BY DEF IInv
<1> QED
    BY InvHolds, <1>1, PTL

\* The identity cache and the lookup's fallbacks never rename an account of a
\* token that Plex can name by itself or for every approved server.
THEOREM IdentityCorrect == Spec => []IdentityIsPlexs
<1>1. IInv => IdentityIsPlexs
    BY DEF IInv
<1> QED
    BY InvHolds, <1>1, PTL

\* protected_redirect_stream enforces the account's policy on every part with
\* a number, and never redirects who is restricted.
THEOREM StreamsBounded == Spec => []StreamsWithinPolicy
<1>1. IInv => StreamsWithinPolicy
    BY DEF IInv
<1> QED
    BY InvHolds, <1>1, PTL

\* protected_redirect_stream rejects who it cannot identify.
THEOREM ClosedCorrect == Spec => []FailsClosed
<1>1. IInv => FailsClosed
    BY DEF IInv
<1> QED
    BY InvHolds, <1>1, PTL
=============================================================================
