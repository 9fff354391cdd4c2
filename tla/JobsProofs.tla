------------------------------ MODULE JobsProofs ------------------------------
(***************************************************************************)
(* Proofs about Jobs, for every set of requests and accounts and every     *)
(* length of the cooldown.                                                 *)
(***************************************************************************)
EXTENDS Jobs, TLAPS

\* A request that passed the cooldown finds it over, or came before the claim.
ChecksAreRecent ==
    \A a \in Attempts :
        /\ arrived[a] <= now
        /\ pc[a] = "checked" =>
              cooledAt[scope[a]] >= arrived[a] \/ cooledAt[scope[a]] + Cooldown <= now

IInv == TypeOK /\ OneJobPerScope /\ ChecksAreRecent

LEMMA InitInv == Init => IInv
BY JobsAssumption
   DEF Init, IInv, TypeOK, OneJobPerScope, ChecksAreRecent, LongAgo, Running, Writes

LEMMA StepInv ==
    ASSUME IInv, [Next]_vars
    PROVE  IInv'
<1> USE JobsAssumption
        DEF IInv, TypeOK, OneJobPerScope, ChecksAreRecent, Goto, Running, Writes
<1>1. ASSUME NEW a \in Attempts, NEW s \in Scopes, Arrive(a, s) PROVE IInv'
    BY <1>1 DEF Arrive
<1>2. ASSUME NEW a \in Attempts, CheckCooldown(a) PROVE IInv'
    BY <1>2 DEF CheckCooldown, Cooling
<1>3. ASSUME NEW a \in Attempts, Claim(a) PROVE IInv'
    <2>1. CASE Claimable(scope[a])
        BY <1>3, <2>1 DEF Claim, Claimable
    <2>2. CASE ~Claimable(scope[a])
        BY <1>3, <2>2 DEF Claim
    <2> QED
        BY <2>1, <2>2
<1>4. ASSUME NEW a \in Attempts, SpawnTask(a) \/ Drop(a) PROVE IInv'
    BY <1>4 DEF SpawnTask, Drop
<1>5. ASSUME NEW a \in Attempts, GetUser(a) PROVE IInv'
    BY <1>5 DEF GetUser
<1>6. ASSUME NEW a \in Attempts, Write(a) PROVE IInv'
    <2>1. PICK result \in {"success", "error", "none"} :
              /\ failed' = [failed EXCEPT ![a] = @ \/ result # "success"]
              /\ Goto(a, NextCall(pc[a], result # "none"))
        BY <1>6 DEF Write
    <2>2. NextCall(pc[a], result # "none") \in Running
        BY <1>6 DEF Write, NextCall
    <2>3. failed' \in [Attempts -> BOOLEAN]
        BY <2>1
    <2> QED
        BY <1>6, <2>1, <2>2, <2>3 DEF Write
<1>7. ASSUME NEW a \in Attempts, Finish(a) PROVE IInv'
    BY <1>7 DEF Finish, Released
<1>8. ASSUME Tick PROVE IInv'
    BY <1>8 DEF Tick
<1>9. CASE UNCHANGED vars
    BY <1>9 DEF vars
<1> QED
    BY <1>1, <1>2, <1>3, <1>4, <1>5, <1>6, <1>7, <1>8, <1>9 DEF Next, Task

LEMMA InvHolds == Spec => []IInv
<1>1. IInv /\ [Next]_vars => IInv'
    BY StepInv
<1> QED
    BY InitInv, <1>1, PTL DEF Spec

\* A running task holds the claim of its account.
THEOREM TypeCorrect == Spec => []TypeOK
<1>1. IInv => TypeOK
    BY DEF IInv
<1> QED
    BY InvHolds, <1>1, PTL

\* JobSupervisor.inflight keeps the jobs of an account from overlapping.
THEOREM SingleJob == Spec => []OneJobPerScope
<1>1. IInv => OneJobPerScope
    BY DEF IInv
<1> QED
    BY InvHolds, <1>1, PTL

\* try_start lets a request that arrives during the cooldown claim nothing.
THEOREM CooldownHolds == Spec => FurtherAttemptsCoolDown
<1> DEFINE A == \A a \in Attempts :
                    pc[a] = "checked" /\ pc'[a] = "claimed" =>
                        \/ cooledAt[scope[a]] >= arrived[a]
                        \/ cooledAt[scope[a]] + Cooldown <= now
<1>1. IInv => A
    BY DEF IInv, ChecksAreRecent
<1>2. IInv /\ [Next]_vars => [A]_vars
    BY <1>1
<1> QED
    BY InvHolds, <1>2, PTL DEF Spec, FurtherAttemptsCoolDown
=============================================================================
