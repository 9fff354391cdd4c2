--------------------------------- MODULE Jobs ---------------------------------
(***************************************************************************)
(* JobSupervisor (jobs.rs) and the one job it supervises, the notification *)
(* bootstrap (ntf_watchlist_force): a request claims its account, a        *)
(* spawned task looks the user up, posts the settings and two opt-outs,    *)
(* whichever of them fail, and releases the claim.                         *)
(***************************************************************************)
EXTENDS Integers, FiniteSets

CONSTANTS
    Attempts,   \* requests that reach the hoop
    Scopes,     \* token scopes
    Cooldown,   \* time_to_live of the cooldown cache, in ticks
    Horizon     \* bound of this model: the last tick

ASSUME JobsAssumption == Cooldown \in Nat \ {0} /\ Horizon \in Nat

VARIABLES
    now,        \* the clock
    cooledAt,   \* cooldown: when the entry of a scope was inserted
    inflight,   \* JobSupervisor.inflight
    pc,         \* where each attempt, or the task it spawned, is
    scope,      \* the scope an attempt is about
    arrived,    \* when its request came in
    failed      \* whether a call of its task failed

vars == <<now, cooledAt, inflight, pc, scope, arrived, failed>>

\* Before every tick of this model: nothing cools down at the start.
LongAgo == -Cooldown

Init ==
    /\ now = 0
    /\ cooledAt = [s \in Scopes |-> LongAgo]
    /\ inflight = {}
    /\ pc = [a \in Attempts |-> "idle"]
    /\ scope \in [Attempts -> Scopes]
    /\ arrived = [a \in Attempts |-> 0]
    /\ failed = [a \in Attempts |-> FALSE]

Goto(a, place) == pc' = [pc EXCEPT ![a] = place]

-----------------------------------------------------------------------------
\* A request with a token and a client identifier, its transforms not skipped.
Arrive(a, s) ==
    /\ pc[a] \in {"idle", "done"}
    /\ scope' = [scope EXCEPT ![a] = s]
    /\ arrived' = [arrived EXCEPT ![a] = now]
    /\ failed' = [failed EXCEPT ![a] = FALSE]
    /\ Goto(a, "arrived")
    /\ UNCHANGED <<now, cooledAt, inflight>>

Fault_Cooling(s) == cooledAt[s] + Cooldown > now + 1

Cooling(s) == cooledAt[s] + Cooldown > now

\* try_start looks at the cooldown before it takes the lock.
CheckCooldown(a) ==
    /\ pc[a] = "arrived"
    /\ Goto(a, IF Cooling(scope[a]) THEN "done" ELSE "checked")
    /\ UNCHANGED <<now, cooledAt, inflight, scope, arrived, failed>>

Fault_Claimable(s) == TRUE

Claimable(s) == s \notin inflight

\* The claim and its cooldown, under the lock; the cooldown is not read again.
Claim(a) ==
    /\ pc[a] = "checked"
    /\ IF Claimable(scope[a])
       THEN /\ inflight' = inflight \cup {scope[a]}
            /\ cooledAt' = [cooledAt EXCEPT ![scope[a]] = now]
            /\ Goto(a, "claimed")
       ELSE Goto(a, "done") /\ UNCHANGED <<inflight, cooledAt>>
    /\ UNCHANGED <<now, scope, arrived, failed>>

\* The rest of the hoop: tokio::spawn.
SpawnTask(a) ==
    /\ pc[a] = "claimed"
    /\ Goto(a, "user")
    /\ UNCHANGED <<now, cooledAt, inflight, scope, arrived, failed>>

\* The handler is dropped at an await, the timeout or the client being gone:
\* what it claimed until then stays claimed.
Drop(a) ==
    /\ pc[a] \in {"arrived", "checked", "claimed"}
    /\ Goto(a, "done")
    /\ UNCHANGED <<now, cooledAt, inflight, scope, arrived, failed>>

-----------------------------------------------------------------------------
Writes == {"settings", "optOutVod", "optOutMusic"}

\* A settings request that gets no answer ends the job, an opt-out does not.
NextCall(place, answered) ==
    CASE place = "settings" -> IF answered THEN "optOutVod" ELSE "finish"
      [] place = "optOutVod" -> "optOutMusic"
      [] place = "optOutMusic" -> "finish"

\* Without the user there is nothing to write.
GetUser(a) ==
    /\ pc[a] = "user"
    /\ \E found \in BOOLEAN :
          /\ failed' = [failed EXCEPT ![a] = ~found]
          /\ Goto(a, IF found THEN "settings" ELSE "finish")
    /\ UNCHANGED <<now, cooledAt, inflight, scope, arrived>>

\* A call is answered with success, answered with an error, or not answered.
Write(a) ==
    /\ pc[a] \in Writes
    /\ \E result \in {"success", "error", "none"} :
          /\ failed' = [failed EXCEPT ![a] = @ \/ result # "success"]
          /\ Goto(a, NextCall(pc[a], result # "none"))
    /\ UNCHANGED <<now, cooledAt, inflight, scope, arrived>>

Fault_Released(a) == IF failed[a] THEN {} ELSE {scope[a]}

Released(a) == {scope[a]}

\* finish, whatever the outcome.
Finish(a) ==
    /\ pc[a] = "finish"
    /\ inflight' = inflight \ Released(a)
    /\ Goto(a, "done")
    /\ UNCHANGED <<now, cooledAt, scope, arrived, failed>>

Tick ==
    /\ now < Horizon
    /\ now' = now + 1
    /\ UNCHANGED <<cooledAt, inflight, pc, scope, arrived, failed>>

Task(a) == GetUser(a) \/ Write(a) \/ Finish(a)

Next ==
    \/ \E a \in Attempts :
          \/ \E s \in Scopes : Arrive(a, s)
          \/ CheckCooldown(a) \/ Claim(a) \/ SpawnTask(a) \/ Drop(a) \/ Task(a)
    \/ Tick

\* The runtime polls spawned tasks until they end, and every call times out.
Fairness == \A a \in Attempts : WF_vars(Task(a))

Spec == Init /\ [][Next]_vars

FairSpec == Spec /\ Fairness

-----------------------------------------------------------------------------
Running == Writes \cup {"user", "finish"}

\* The shape of the state: a task holds the claim it was spawned with.
TypeOK ==
    /\ now \in 0..Horizon
    /\ cooledAt \in [Scopes -> Int]
    /\ inflight \subseteq Scopes
    /\ pc \in [Attempts -> Running \cup {"idle", "arrived", "checked", "claimed", "done"}]
    /\ scope \in [Attempts -> Scopes]
    /\ arrived \in [Attempts -> 0..Horizon]
    /\ failed \in [Attempts -> BOOLEAN]
    /\ \A a \in Attempts : pc[a] \in Running \cup {"claimed"} => scope[a] \in inflight

(***************************************************************************)
(* "Only one job runs per token-derived account scope": the writes of two  *)
(* attempts never overlap for an account, even when both passed the        *)
(* cooldown before either claimed it, and even across failed jobs.         *)
(***************************************************************************)
OneJobPerScope ==
    \A a, b \in Attempts :
        a # b /\ pc[a] \in Running \cup {"claimed"} /\ pc[b] \in Running \cup {"claimed"}
            => scope[a] # scope[b]

(***************************************************************************)
(* "Further attempts cool down for one hour": a request that arrives after *)
(* a claim of its account, failed jobs included, claims it again only when *)
(* the hour since that claim is over.                                      *)
(***************************************************************************)
FurtherAttemptsCoolDown ==
    [][\A a \in Attempts :
          pc[a] = "checked" /\ pc'[a] = "claimed" =>
              \/ cooledAt[scope[a]] >= arrived[a]
              \/ cooledAt[scope[a]] + Cooldown <= now]_vars

\* A job that was spawned ends and gives its account back, whatever fails.
JobsGiveBack ==
    \A a \in Attempts :
        pc[a] \in Running ~> scope[a] \notin inflight
=============================================================================
