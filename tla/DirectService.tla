---------------------------- MODULE DirectService ----------------------------
(***************************************************************************)
(* What the caches in front of Plex promise: every request is answered as  *)
(* if Plex had been asked for it then and there, with the account's own    *)
(* token, in full, and a library page of status 200 filtered by the policy *)
(* that was in force when the request came in.  Or it fails.  The server   *)
(* that is asked for a page may be any approved one.                       *)
(***************************************************************************)
CONSTANTS Requests, Inputs, Servers, Home, Policies, Public, Raw, Failed, Pending

VARIABLES req, snap, answer

vars == <<req, snap, answer>>

\* Web assets are fetched from the configured server, without a token.
Owner(x) == IF x.kind = "asset" THEN Public ELSE x.account
Server(x) == IF x.kind = "asset" THEN Home ELSE x.server

Of(x, servers, sounds, status, under) ==
    [server : servers, account : {Owner(x)}, item : {x.item}, whole : {TRUE}, sound : sounds,
     status : {status}, under : {under}]

\* Assets, and pages of status 200, are only shown when they are sound.
Shown(x, under) ==
    IF x.kind = "page"
    THEN Of(x, Servers, {TRUE}, "ok", under) \cup Of(x, {Server(x)}, BOOLEAN, "other", Raw)
    ELSE Of(x, {Server(x)}, IF x.kind = "asset" THEN {TRUE} ELSE BOOLEAN, "ok", Raw)

Init ==
    /\ req \in [Requests -> Inputs]
    /\ snap \in [Requests -> Policies]
    /\ answer = [r \in Requests |-> Failed]

Ask(r, x) ==
    /\ answer[r] # Pending
    /\ req' = [req EXCEPT ![r] = x]
    /\ \E policy \in Policies : snap' = [snap EXCEPT ![r] = policy]
    /\ answer' = [answer EXCEPT ![r] = Pending]

Answer(r) ==
    /\ answer[r] = Pending
    /\ \E shown \in Shown(req[r], snap[r]) \cup {Failed} : answer' = [answer EXCEPT ![r] = shown]
    /\ UNCHANGED <<req, snap>>

Next == \E r \in Requests : Answer(r) \/ \E x \in Inputs : Ask(r, x)

Spec == Init /\ [][Next]_vars
=============================================================================
