------------------------------- MODULE Access -------------------------------
(***************************************************************************)
(* Who asks, under which policy, and what part of a stream they get:       *)
(* RequestContextMiddleware and SecurityContextMiddleware, the identity    *)
(* lookup with its cache, the policy store with its reload, the facts      *)
(* about parts, and the gate in front of direct parts and transcode        *)
(* sessions (protected_redirect_stream).                                   *)
(*                                                                         *)
(* Requests run concurrently.  Each remembers the snapshot of the policy   *)
(* its security context was made from.  A request is for one of the        *)
(* approved upstream servers, which share tokens and number their parts    *)
(* each in its own way, while the caches of identities and of facts know   *)
(* a token or a part number alone.                                         *)
(***************************************************************************)
EXTENDS ResolutionRules

CONSTANTS
    Requests,       \* request slots
    Servers,        \* the upstream servers allows_upstream_host approves
    Inputs,         \* the requests clients send: records of Input
    Tokens, NoToken,
    Clients,        \* client identifiers
    Names,          \* user names
    Uuids,          \* account identifiers, "configured" among them
    NoName,         \* no user name header, no binding to a client
    Parts,          \* part numbers
    NoPart,         \* a path without a number for a part
    FactOf,         \* what each server says of a part: class and bitrate
    PlexUser,       \* the account plex.tv verifies for a token
    SharedUser,     \* the account its resources endpoint shows for a server
    ServerUser,     \* the account the admin's shared_servers list of one shows
    Nobody,         \* no account
    Bindings,       \* token_identity_map: user name and client, or NoBinding
    NoBinding,
    ClientMap,      \* client_identity_map: a name for some clients
    AllowUsername,  \* allow_username_fallback
    AdminToken,     \* whether REPLEX_TOKEN is set
    Redirects,      \* redirect_streams
    Snapshots,      \* the policies that may be in force
    NoFact

Identity == [uuid : Uuids, username : Names]

Fact == [class : Unknown..Unlimited, bitrate : Nat \cup {Absent}]

Input == [token : Tokens \cup {NoToken}, client : Clients, name : Names \cup {NoName},
          host : Servers \cup {"unknown"},
          kind : {"part", "session", "metadata"}, part : Parts \cup {NoPart}]

ASSUME WorldAssumption ==
    /\ Inputs \subseteq Input /\ "unknown" \notin Servers
    /\ FactOf \in [Servers -> [Parts -> Fact]] /\ NoFact \notin Fact /\ NoPart \notin Parts
    /\ PlexUser \in [Tokens -> Identity \cup {Nobody}]
    /\ SharedUser \in [Servers -> [Tokens -> Identity \cup {Nobody}]]
    /\ ServerUser \in [Servers -> [Tokens -> Identity \cup {Nobody}]]
    /\ "configured" \in Uuids /\ Nobody \notin Identity /\ NoName \notin Names /\ NoToken \notin Tokens
    /\ Bindings \in [Tokens -> [username : Names, client : Clients \cup {NoName}] \cup {NoBinding}]
    /\ DOMAIN ClientMap \subseteq Clients /\ \A c \in DOMAIN ClientMap : ClientMap[c] \in Names
    /\ {AllowUsername, AdminToken, Redirects} \subseteq BOOLEAN

VARIABLES
    store,       \* PolicyStore: the snapshot in force
    identities,  \* AppState.identity_cache
    facts,       \* AppState.part_media_cache
    pc,          \* where each request is
    req,         \* what it asks
    snap,        \* the snapshot its SecurityContextMiddleware took
    sec,         \* its SecurityContextState
    outcome      \* what its handler did

vars == <<store, identities, facts, pc, req, snap, sec, outcome>>

Unresolved == [state |-> "none", id |-> Nobody, source |-> "none"]

Init ==
    /\ store \in Snapshots
    /\ identities = [t \in Tokens |-> Unresolved]
    /\ facts = [p \in Parts |-> NoFact]
    /\ pc = [r \in Requests |-> "idle"]
    /\ req \in [Requests -> Inputs]
    /\ snap = [r \in Requests |-> store]
    /\ sec = [r \in Requests |-> Unresolved]
    /\ outcome = [r \in Requests |-> "none"]

-----------------------------------------------------------------------------
(***************************************************************************)
(* fetch_current_identity: plex.tv first, then what Plex knows of tokens   *)
(* shared for the server of the request, then what the administrator       *)
(* configured, the weakest last.  Each is a set of results, because a      *)
(* lookup may fail on the way.                                             *)
(***************************************************************************)
Found(id, source) == [state |-> "resolved", id |-> id, source |-> source]

Configured(username) == [uuid |-> "configured", username |-> username]

ByUsername(x) ==
    IF AllowUsername /\ x.name # NoName THEN {Found(Configured(x.name), "username")} ELSE {Unresolved}

ByClient(x) ==
    IF x.client \in DOMAIN ClientMap THEN {Found(Configured(ClientMap[x.client]), "client")}
    ELSE ByUsername(x)

\* A binding to another client rejects the token outright.
ByBinding(x) ==
    LET binding == Bindings[x.token] IN
    IF binding = NoBinding THEN ByClient(x)
    ELSE IF binding.client \in {NoName, x.client} THEN {Found(Configured(binding.username), "token")}
    ELSE {Unresolved}

\* An answer other than 200 counts as a list without the token.
ByServers(x) ==
    IF ~AdminToken THEN ByBinding(x)
    ELSE {Unresolved}
         \cup (IF ServerUser[x.host][x.token] # Nobody
               THEN {Found(ServerUser[x.host][x.token], "server")} ELSE {})
         \cup ByBinding(x)

ByResources(x) ==
    {Unresolved} \cup
    (IF SharedUser[x.host][x.token] # Nobody
     THEN {Found(SharedUser[x.host][x.token], "resource")} ELSE ByServers(x))

Fetched(x) ==
    {Unresolved} \cup
    (IF PlexUser[x.token] # Nobody THEN {Found(PlexUser[x.token], "plex")} ELSE ByResources(x))

-----------------------------------------------------------------------------
Goto(r, place) == pc' = [pc EXCEPT ![r] = place]

\* A new request reaches the proxy; its slot is free once it was answered.
Arrive(r, x) ==
    /\ pc[r] \in {"idle", "done"}
    /\ req' = [req EXCEPT ![r] = x]
    /\ outcome' = [outcome EXCEPT ![r] = "none"]
    /\ sec' = [sec EXCEPT ![r] = Unresolved]
    /\ Goto(r, "context")
    /\ UNCHANGED <<store, identities, facts, snap>>

Respond(r, what) ==
    /\ outcome' = [outcome EXCEPT ![r] = what]
    /\ Goto(r, "done")
    /\ UNCHANGED <<store, identities, req, snap, sec>>

\* RequestContextMiddleware: a dynamic host that is not approved ends it.
RejectHost(r) ==
    /\ pc[r] = "context" /\ req[r].host = "unknown"
    /\ Respond(r, "bad host")
    /\ UNCHANGED facts

\* SecurityContextMiddleware takes its snapshot of the policy.
Secure(r) ==
    /\ pc[r] = "context" /\ req[r].host # "unknown"
    /\ snap' = [snap EXCEPT ![r] = store]
    /\ Goto(r, IF req[r].token = NoToken THEN "handle" ELSE "identify")
    /\ UNCHANGED <<store, identities, facts, req, sec, outcome>>

Fault_CacheKey(x) == CHOOSE t \in Tokens : TRUE

\* identity_cache is keyed by the token's fingerprint alone.
CacheKey(x) == x.token

Cached(r) == identities[CacheKey(req[r])] # Unresolved

UseCached(r) ==
    /\ pc[r] = "identify" /\ Cached(r)
    /\ sec' = [sec EXCEPT ![r] = identities[CacheKey(req[r])]]
    /\ Goto(r, "handle")
    /\ UNCHANGED <<store, identities, facts, req, snap, outcome>>

StartLookup(r) ==
    /\ pc[r] = "identify" /\ ~Cached(r)
    /\ Goto(r, "lookup")
    /\ UNCHANGED <<store, identities, facts, req, snap, sec, outcome>>

Fault_AfterLookup(found) == "found"

\* A failure is not cached.
AfterLookup(found) == IF found = Unresolved THEN "handle" ELSE "found"

Identify(r) ==
    /\ pc[r] = "lookup"
    /\ \E found \in Fetched(req[r]) :
          /\ sec' = [sec EXCEPT ![r] = found]
          /\ Goto(r, AfterLookup(found))
    /\ UNCHANGED <<store, identities, facts, req, snap, outcome>>

\* The insert comes after the answer, over whatever is there by then.
StoreIdentity(r) ==
    /\ pc[r] = "found"
    /\ identities' = [identities EXCEPT ![CacheKey(req[r])] = sec[r]]
    /\ Goto(r, "handle")
    /\ UNCHANGED <<store, facts, req, snap, sec, outcome>>

Resolved(r) == sec[r].state = "resolved"

PolicyOf(r) == ResolvePolicy(snap[r], sec[r].id)

Restricts(policy) == policy.limit # Unlimited \/ policy.cap # Absent

-----------------------------------------------------------------------------
\* cache_part_classification, when metadata passes the policy transform:
\* what is recorded of a part is what the server says of it, whoever asked.
LearnFacts(r) ==
    /\ pc[r] = "handle" /\ req[r].kind = "metadata" /\ Resolved(r)
    /\ \E seen \in SUBSET Parts :
          facts' = [p \in Parts |-> IF p \in seen THEN FactOf[req[r].host][p] ELSE facts[p]]
    /\ Respond(r, "metadata")

\* Without an identity nothing is recorded; fail_closed strips the versions.
ServeUnidentified(r) ==
    /\ pc[r] = "handle" /\ req[r].kind = "metadata" /\ ~Resolved(r)
    /\ Respond(r, "metadata")
    /\ UNCHANGED facts

\* stream_delivery
Delivery(restricted) == IF restricted \/ ~Redirects THEN "proxy" ELSE "redirect"

Streams(r) == pc[r] = "handle" /\ req[r].kind \in {"part", "session"}

Fault_GateRefuses(r) == req[r].token = NoToken

GateRefuses(r) ==
    req[r].token = NoToken \/ (~Resolved(r) /\ snap[r].failClosed)

\* The path of a part names it by a number that fits an i64.
Numbered(r) == req[r].kind = "part" /\ req[r].part # NoPart

Fault_PartPasses(r) ==
    facts[req[r].part] # NoFact =>
        PartAllowed(facts[req[r].part], PolicyOf(r).limit, PolicyOf(r).cap)

PartPasses(r) ==
    /\ facts[req[r].part] # NoFact
    /\ PartAllowed(facts[req[r].part], PolicyOf(r).limit, PolicyOf(r).cap)

(***************************************************************************)
(* protected_redirect_stream: 401 or 503 without an identity, unless the   *)
(* policy fails open; then free delivery for who is not restricted; then   *)
(* 403 for a numbered part that is prohibited or unknown.  The rest, a     *)
(* session or a part without a number, is proxied.                         *)
(***************************************************************************)
Gate(r) ==
    /\ Streams(r)
    /\ \/ GateRefuses(r) /\ Respond(r, "refused")
       \/ /\ ~GateRefuses(r)
          /\ Resolved(r) => ~Restricts(PolicyOf(r))
          /\ Respond(r, Delivery(FALSE))
       \/ /\ ~GateRefuses(r) /\ Resolved(r) /\ Restricts(PolicyOf(r))
          /\ Respond(r, IF Numbered(r) /\ ~PartPasses(r) THEN "forbidden" ELSE Delivery(TRUE))
    /\ UNCHANGED facts

-----------------------------------------------------------------------------
(***************************************************************************)
(* The administrator and the caches: policy_reload replaces the snapshot   *)
(* as a whole; entries expire, are evicted or are purged at any time.      *)
(***************************************************************************)
Reload ==
    /\ store' \in Snapshots
    /\ UNCHANGED <<identities, facts, pc, req, snap, sec, outcome>>

ForgetIdentity(t) ==
    /\ identities[t] # Unresolved
    /\ identities' = [identities EXCEPT ![t] = Unresolved]
    /\ UNCHANGED <<store, facts, pc, req, snap, sec, outcome>>

ForgetFact(p) ==
    /\ facts[p] # NoFact
    /\ facts' = [facts EXCEPT ![p] = NoFact]
    /\ UNCHANGED <<store, identities, pc, req, snap, sec, outcome>>

RequestStep(r) ==
    \/ \E x \in Inputs : Arrive(r, x)
    \/ RejectHost(r) \/ Secure(r)
    \/ UseCached(r) \/ StartLookup(r) \/ Identify(r) \/ StoreIdentity(r)
    \/ LearnFacts(r) \/ ServeUnidentified(r) \/ Gate(r)

Next ==
    \/ \E r \in Requests : RequestStep(r)
    \/ Reload
    \/ \E t \in Tokens : ForgetIdentity(t)
    \/ \E p \in Parts : ForgetFact(p)

Spec == Init /\ [][Next]_vars

-----------------------------------------------------------------------------
Places == {"idle", "context", "identify", "lookup", "found", "handle", "done"}

Resolution == [state : {"resolved"}, id : Identity,
               source : {"plex", "resource", "server", "token", "client", "username"}]

\* The shape of the state: a request with an identity has a whole one.
TypeOK ==
    /\ store \in Snapshots
    /\ identities \in [Tokens -> Resolution \cup {Unresolved}]
    /\ facts \in [Parts -> Fact \cup {NoFact}]
    /\ pc \in [Requests -> Places]
    /\ req \in [Requests -> Inputs]
    /\ snap \in [Requests -> Snapshots]
    /\ sec \in [Requests -> Resolution \cup {Unresolved}]
    /\ outcome \in [Requests -> {"none", "bad host", "metadata", "refused", "forbidden",
                                 "proxy", "redirect"}]
    /\ \A r \in Requests :
          /\ pc[r] \in {"identify", "lookup", "found"} => req[r].token \in Tokens
          /\ pc[r] \in {"identify", "lookup", "found", "handle"} => req[r].host \in Servers
          /\ pc[r] = "found" => sec[r] \in Resolution

\* The accounts Plex names for a token, Nobody if an approved server has none.
Accounts(t) ==
    IF t = NoToken THEN {Nobody}
    ELSE IF PlexUser[t] # Nobody THEN {PlexUser[t]}
    ELSE {SharedUser[s][t] : s \in Servers}

(***************************************************************************)
(* A token that Plex can name, by itself or for every approved server, is  *)
(* only taken for an account Plex names for it, in the cache and in any    *)
(* request, whatever requests with the same client or user name, or to     *)
(* another server, came before and however purges and lookups interleave.  *)
(* With one server that is the account Plex names.                         *)
(***************************************************************************)
IdentityIsPlexs ==
    /\ \A t \in Tokens :
          identities[t] # Unresolved /\ Nobody \notin Accounts(t)
              => identities[t].id \in Accounts(t)
    /\ \A r \in Requests :
          Resolved(r) /\ Nobody \notin Accounts(req[r].token)
              => sec[r].id \in Accounts(req[r].token)

Delivered(r) == outcome[r] \in {"proxy", "redirect"}

(***************************************************************************)
(* "Restricted part and transcode-session streams always stay behind       *)
(* Replex" and, of parts with a number, "Unknown direct parts are          *)
(* rejected": the policy that an account of the token has in the snapshot  *)
(* of its request bounds what is delivered to it, by what an approved      *)
(* server says of that part number, across reloads, purges and cached      *)
(* identities.  With one server that is what the part is.                  *)
(***************************************************************************)
StreamsWithinPolicy ==
    \A r \in Requests :
        Delivered(r) /\ Resolved(r) /\ Nobody \notin Accounts(req[r].token) =>
            \E account \in Accounts(req[r].token) :
                LET policy == ResolvePolicy(snap[r], account) IN
                Restricts(policy) =>
                    /\ outcome[r] = "proxy"
                    /\ Numbered(r)
                          => \E s \in Servers :
                                PartAllowed(FactOf[s][req[r].part], policy.limit, policy.cap)

(***************************************************************************)
(* "Fail-closed mode rejects protected requests when identity cannot be    *)
(* established": no stream goes to a request nobody could identify, unless *)
(* the policy it came under fails open.                                    *)
(***************************************************************************)
FailsClosed ==
    \A r \in Requests : Delivered(r) /\ ~Resolved(r) => ~snap[r].failClosed
=============================================================================
