-------------------------- MODULE DiskCacheProofs --------------------------
(***************************************************************************)
(* Proofs about DiskCache, for every set of keys, lengths, writers and     *)
(* readers, any limit and any set of actors that may be dropped.           *)
(***************************************************************************)
EXTENDS DiskCache, FiniteSetTheorems, TLAPS

LEMMA LessType ==
    ASSUME NEW n \in Nat, NEW d \in Nat
    PROVE  Less(n, d) \in Nat
BY DEF Less

LEMMA LenType ==
    ASSUME NEW f \in File \cup {NoFile}
    PROVE  LenOf(f) \in Nat
BY SizesAssumption DEF LenOf, File

LEMMA NoJobType == NoJob \in JobRecord
BY KeysAssumption DEF NoJob, JobRecord

LEMMA WalksType == StartWalk \in Walk /\ NoWalk \in Walk
BY DEF StartWalk, NoWalk, Walk

LEMMA NameType ==
    ASSUME TypeOK, NEW k \in Keys, counter + crashes < MaxPuts
    PROVE  TmpName(k, counter) \in Names
<1>1. counter \in 0..(MaxPuts - 1)
    BY BoundsAssumption DEF TypeOK
<1> QED
    BY <1>1 DEF TmpName, Names

\* Where an actor goes: with its job, or back to idle without.
LEMMA MoveType ==
    ASSUME TypeOK, NEW a \in Actors, NEW place \in Places, Move(a, place)
    PROVE  pc' \in [Actors -> Places] /\ job' \in [Actors -> JobRecord]
BY DEF TypeOK, Move, Goto, JobRecord

LEMMA GotoType ==
    ASSUME TypeOK, NEW a \in Actors, NEW place \in Places, Goto(a, place)
    PROVE  pc' \in [Actors -> Places]
BY DEF TypeOK, Goto

LEMMA FinishType ==
    ASSUME TypeOK, NEW a \in Actors, Finish(a)
    PROVE  pc' \in [Actors -> Places] /\ job' \in [Actors -> JobRecord]
BY NoJobType DEF TypeOK, Finish, Goto, JobRecord, Places

LEMMA VisitType ==
    ASSUME TypeOK, NEW k \in Keys, Visit(k)
    PROVE  scan' \in Walk
<1>1. LenOf(files[k]) \in Nat
    BY LenType DEF TypeOK
<1>2. CASE files[k] = NoFile
    BY <1>1, <1>2 DEF TypeOK, Visit, Walk
<1>3. CASE files[k] # NoFile
    <2>1. files[k].len \in Sizes
        BY <1>3 DEF TypeOK, File
    <2>2. <<k, files[k].len>> \in Keys \X Sizes
        BY <2>1
    <2> QED
        BY <1>1, <1>3, <2>2 DEF TypeOK, Visit, Walk
<1> QED
    BY <1>2, <1>3

LEMMA HistoryType ==
    ASSUME History
    PROVE  exact' \in BOOLEAN /\ calm' \in BOOLEAN
BY DEF History

\* The part of the type invariant that the steps of actors preserve.
Shape ==
    /\ files \in [Keys -> File \cup {NoFile}]
    /\ temps \in [Names -> File \cup {NoFile}]
    /\ size \in Nat /\ counter \in 0..MaxPuts
    /\ commitLock \in Writers \cup {Nobody} /\ cleanLock \in Writers \cup {Nobody}
    /\ pc \in [Actors -> Places]
    /\ job \in [Actors -> JobRecord]
    /\ scan \in Walk
    /\ purge \subseteq Keys \X {"record", "temps"}
    /\ strays \subseteq [op : {"write", "rename", "unlink"}, key : Keys, name : Names \cup {NoFile}]
    /\ litter \subseteq Names
    /\ up \in BOOLEAN
    /\ failures \in Nat /\ crashes \in Nat

LEMMA TypeShape == TypeOK <=> Shape /\ exact \in BOOLEAN /\ calm \in BOOLEAN
BY DEF TypeOK, Shape, JobRecord, Walk

-----------------------------------------------------------------------------
(***************************************************************************)
(* The inductive invariant.  A put under way, or its stray, has claimed    *)
(* its name: WRITE_COUNTER is past it, so no later put writes to it.       *)
(***************************************************************************)
Claimed(n) == n \in Names /\ n[2] < counter

TempStages == {"writing", "queued", "locked", "renaming"}

NamesInv ==
    /\ \A a \in Actors : pc[a] \in TempStages => Claimed(job[a].name)
    /\ \A s \in strays : s.op \in {"write", "rename"} => Claimed(s.name)

\* Once written a temporary file stays whole until it is gone.
WholeOrGone(n) == temps[n] = NoFile \/ temps[n].whole

WholeInv ==
    /\ \A a \in Actors : pc[a] \in TempStages \ {"writing"} => WholeOrGone(job[a].name)
    /\ \A s \in strays : s.op = "rename" => WholeOrGone(s.name)

-----------------------------------------------------------------------------
(***************************************************************************)
(* Type correctness.                                                       *)
(***************************************************************************)

LEMMA InitType == Init => TypeOK
<1> SUFFICES ASSUME Init PROVE TypeOK
    OBVIOUS
<1>1. files \in [Keys -> File \cup {NoFile}]
    BY DEF Init, File, WholeFile
<1>2. job \in [Actors -> JobRecord] /\ scan \in Walk
    BY NoJobType, WalksType DEF Init
<1>3. pc \in [Actors -> Places]
    BY DEF Init, Places
<1>4. /\ purge \subseteq Keys \X {"record", "temps"}
      /\ strays \subseteq [op : {"write", "rename", "unlink"}, key : Keys, name : Names \cup {NoFile}]
    BY Zenon DEF Init
<1>6. temps \in [Names -> File \cup {NoFile}] /\ counter \in 0..MaxPuts
    BY BoundsAssumption DEF Init
<1>7. Shape
    BY <1>1, <1>2, <1>3, <1>4, <1>6 DEF Init, Shape
<1>5. exact \in BOOLEAN /\ calm \in BOOLEAN
    BY Zenon DEF Init
<1> QED
    BY <1>5, <1>7, TypeShape

LEMMA RenameType ==
    ASSUME TypeOK, NEW n \in Names, NEW k \in Keys, Rename(n, k)
    PROVE  /\ files' \in [Keys -> File \cup {NoFile}]
           /\ temps' \in [Names -> File \cup {NoFile}]
BY DEF TypeOK, Rename

LEMMA DiscardType ==
    ASSUME TypeOK, NamesInv, NEW a \in Actors, pc[a] \in TempStages, Discard(job[a].name)
    PROVE  temps' \in [Names -> File \cup {NoFile}] /\ litter' \subseteq Names
<1>1. job[a].name \in Names
    BY DEF NamesInv, Claimed
<1> QED
    BY <1>1 DEF Discard, TypeOK

LEMMA CommitType ==
    ASSUME TypeOK, NamesInv, NEW w \in Writers, CommitStep(w)
    PROVE  Shape'
<1> USE DEF diskVars, tempVars, lockVars, walkVars, boundVars
<1>0. Shape /\ w \in Actors
    BY TypeShape DEF Actors
<1>1. CASE PutWritten(w)
    <2>1. temps' \in [Names -> File \cup {NoFile}]
        BY <1>1 DEF PutWritten, Complete, TypeOK, File
    <2>2. pc' \in [Actors -> Places] /\ job' \in [Actors -> JobRecord]
        BY <1>0, <1>1, MoveType DEF PutWritten, Places
    <2> QED
        BY <1>0, <1>1, <2>1, <2>2 DEF PutWritten, Complete, Shape
<1>2. CASE PutWriteFails(w)
    <2>1. pc[w] \in TempStages /\ Discard(job[w].name)
        BY <1>2 DEF PutWriteFails, TempStages
    <2>3. temps' \in [Names -> File \cup {NoFile}] /\ litter' \subseteq Names
        BY <1>0, <2>1, DiscardType
    <2>4. failures' \in Nat
        BY <1>0, <1>2 DEF PutWriteFails, Fails, Shape
    <2>2. pc' \in [Actors -> Places] /\ job' \in [Actors -> JobRecord]
        BY <1>0, <1>2, FinishType DEF PutWriteFails
    <2> QED
        BY <1>0, <1>2, <2>2, <2>3, <2>4 DEF PutWriteFails, Shape
<1>3. CASE PutLock(w)
    <2>1. pc' \in [Actors -> Places] /\ job' \in [Actors -> JobRecord]
        BY <1>0, <1>3, MoveType DEF PutLock, Places
    <2> QED
        BY <1>0, <1>3, <2>1 DEF PutLock, Shape
<1>4. CASE PutStat(w)
    <2>1. LenOf(files[job[w].key]) \in Nat
        BY <1>0, LenType DEF TypeOK, JobRecord
    <2>2. pc' \in [Actors -> Places]
        BY <1>0, <1>4, GotoType DEF PutStat, Places
    <2>3. job' \in [Actors -> JobRecord]
        BY <1>0, <1>4, <2>1 DEF PutStat, TypeOK, JobRecord
    <2> QED
        BY <1>0, <1>4, <2>2, <2>3 DEF PutStat, Shape
<1>5. CASE PutRename(w)
    <2>1. pc' \in [Actors -> Places] /\ job' \in [Actors -> JobRecord]
        BY <1>0, <1>5, MoveType DEF PutRename, Places
    <2>2. job[w].name \in Names /\ job[w].key \in Keys
        BY <1>0, <1>5 DEF PutRename, NamesInv, TempStages, Claimed, TypeOK, JobRecord
    <2>3. /\ files' \in [Keys -> File \cup {NoFile}]
          /\ temps' \in [Names -> File \cup {NoFile}]
        BY <1>5, <2>2, RenameType DEF PutRename
    <2> QED
        BY <1>0, <1>5, <2>1, <2>3 DEF PutRename, Rename, Shape
<1>6. CASE PutRenameFails(w)
    <2>1. pc[w] \in TempStages /\ Discard(job[w].name)
        BY <1>6 DEF PutRenameFails, TempStages
    <2>3. temps' \in [Names -> File \cup {NoFile}] /\ litter' \subseteq Names
        BY <1>0, <2>1, DiscardType
    <2>4. failures' \in Nat
        BY <1>0, <1>6 DEF PutRenameFails, Fails, Shape
    <2>2. pc' \in [Actors -> Places] /\ job' \in [Actors -> JobRecord]
        BY <1>0, <1>6, FinishType DEF PutRenameFails
    <2> QED
        BY <1>0, <1>6, <2>2, <2>3, <2>4 DEF PutRenameFails, Shape
<1>7. CASE PutAccount(w)
    <2>1. size' \in Nat
        <3>1. Less(size, job[w].old) \in Nat
            BY <1>0, LessType DEF TypeOK, JobRecord
        <3> QED
            BY <1>0, <1>7, <3>1 DEF PutAccount, TypeOK, JobRecord
    <2>2. pc' \in [Actors -> Places] /\ job' \in [Actors -> JobRecord]
        BY <1>0, <1>7, MoveType DEF PutAccount, Places
    <2> QED
        BY <1>0, <1>7, <2>1, <2>2 DEF PutAccount, Shape
<1> QED
    BY <1>1, <1>2, <1>3, <1>4, <1>5, <1>6, <1>7 DEF CommitStep

LEMMA StartType ==
    ASSUME TypeOK, NEW w \in Writers, NEW k \in Keys, NEW len \in Sizes, PutStart(w, k, len)
    PROVE  Shape'
<1> USE DEF diskVars, tempVars, lockVars, walkVars, boundVars
<1>0. Shape /\ w \in Actors /\ len \in Nat
    BY TypeShape, SizesAssumption DEF Actors
<1>1. TmpName(k, counter) \in Names
    BY NameType DEF PutStart
<1>2. temps' \in [Names -> File \cup {NoFile}]
    BY <1>1 DEF PutStart, TypeOK, File
<1>3. counter' \in 0..MaxPuts
    BY BoundsAssumption DEF PutStart, TypeOK
<1>4. job' \in [Actors -> JobRecord]
    BY <1>0, <1>1 DEF PutStart, TypeOK, JobRecord
<1>5. pc' \in [Actors -> Places]
    BY <1>0, GotoType DEF PutStart, Places
<1> QED
    BY <1>0, <1>2, <1>3, <1>4, <1>5 DEF PutStart, Shape

\* A removal, by the cleaner or by a reader.
LEMMA UnlinkType ==
    ASSUME TypeOK, NEW a \in Actors, Unlink(a) \/ UnlinkFails(a) \/ Deduct(a)
    PROVE  Shape'
<1> USE DEF diskVars, tempVars, lockVars, walkVars, boundVars
<1>0. Shape
    BY TypeShape
<1>1. Return(a) => pc' \in [Actors -> Places] /\ job' \in [Actors -> JobRecord]
    BY MoveType, FinishType DEF Return, Places
<1>2. CASE Unlink(a)
    <2>1. pc' \in [Actors -> Places] /\ job' \in [Actors -> JobRecord]
        BY <1>1, <1>2, MoveType DEF Unlink, Places
    <2>2. files' \in [Keys -> File \cup {NoFile}]
        BY <1>2 DEF Unlink, TypeOK
    <2> QED
        BY <1>0, <1>2, <2>1, <2>2 DEF Unlink, Shape
<1>3. CASE Deduct(a)
    <2>1. size' \in Nat
        BY <1>3, LessType DEF Deduct, TypeOK, JobRecord
    <2> QED
        BY <1>0, <1>1, <1>3, <2>1 DEF Deduct, Shape
<1>4. CASE UnlinkFails(a)
    <2>1. job[a].key \in Keys
        BY DEF TypeOK, JobRecord
    <2>2. scan' \in Walk
        BY <1>4, <2>1 DEF UnlinkFails, TypeOK, Walk
    <2> QED
        BY <1>0, <1>1, <1>4, <2>2 DEF UnlinkFails, Fails, Shape
<1> QED
    BY <1>2, <1>3, <1>4

LEMMA CleanType ==
    ASSUME TypeOK, NEW w \in Writers, CleanStep(w)
    PROVE  Shape'
<1> USE DEF diskVars, tempVars, lockVars, walkVars, boundVars
<1>0. Shape /\ w \in Actors
    BY TypeShape DEF Actors
<1>1. CASE CheckCapacity(w)
    <2>1. pc' \in [Actors -> Places] /\ job' \in [Actors -> JobRecord]
        BY <1>0, <1>1, MoveType, FinishType DEF CheckCapacity, Places
    <2> QED
        BY <1>0, <1>1, <2>1 DEF CheckCapacity, Shape
<1>2. CASE TakeCleanLock(w)
    <2>1. pc' \in [Actors -> Places] /\ job' \in [Actors -> JobRecord]
        BY <1>0, <1>2, MoveType, FinishType DEF TakeCleanLock, Places
    <2>2. scan' \in Walk /\ cleanLock' \in Writers \cup {Nobody}
        BY <1>0, <1>2, WalksType DEF TakeCleanLock, Shape
    <2> QED
        BY <1>0, <1>2, <2>1, <2>2 DEF TakeCleanLock, Shape
<1>3. CASE \E k \in Keys : ScanVisit(w, k)
    <2> PICK k \in Keys : ScanVisit(w, k)
        BY <1>3
    <2>1. scan' \in Walk
        BY VisitType DEF ScanVisit
    <2> QED
        BY <1>0, <2>1 DEF ScanVisit, Shape
<1>4. CASE ScanDone(w)
    <2>1. pc' \in [Actors -> Places] /\ job' \in [Actors -> JobRecord]
        BY <1>0, <1>4, MoveType, FinishType DEF ScanDone, Places
    <2>2. size' \in Nat /\ scan' \in Walk /\ cleanLock' \in Writers \cup {Nobody}
        BY <1>0, <1>4, WalksType DEF ScanDone, Shape, Walk
    <2> QED
        BY <1>0, <1>4, <2>1, <2>2 DEF ScanDone, Shape
<1>5. CASE \E x \in scan.found : EvictNext(w, x)
    <2> PICK x \in scan.found : EvictNext(w, x)
        BY <1>5
    <2>1. x[1] \in Keys /\ x[2] \in Nat
        BY SizesAssumption DEF TypeOK, Walk
    <2>2. scan' \in Walk
        BY DEF EvictNext, TypeOK, Walk
    <2>3. job' \in [Actors -> JobRecord]
        <3>1. job' = [job EXCEPT ![w] = [job[w] EXCEPT !.key = x[1], !.old = x[2]]]
            BY DEF EvictNext, TypeOK
        <3>2. [job[w] EXCEPT !.key = x[1], !.old = x[2]] \in JobRecord
            BY <1>0, <2>1 DEF TypeOK, JobRecord
        <3> QED
            BY <1>0, <3>1, <3>2 DEF TypeOK
    <2>4. pc' \in [Actors -> Places]
        BY <1>0, GotoType DEF EvictNext, Places
    <2> QED
        BY <1>0, <2>2, <2>3, <2>4 DEF EvictNext, Shape
<1>6. CASE EvictStop(w)
    <2>1. pc' \in [Actors -> Places] /\ job' \in [Actors -> JobRecord]
        BY <1>0, <1>6, FinishType DEF EvictStop
    <2> QED
        BY <1>0, <1>6, <2>1, WalksType DEF EvictStop, Shape
<1> QED
    BY <1>0, <1>1, <1>2, <1>3, <1>4, <1>5, <1>6, UnlinkType DEF CleanStep

LEMMA ReaderType ==
    ASSUME TypeOK, NEW r \in Readers, RemoveStep(r) \/ \E k \in Keys : ReadBad(r, k)
    PROVE  Shape'
<1> USE DEF diskVars, tempVars, lockVars, walkVars, boundVars
<1>0. Shape /\ r \in Actors
    BY TypeShape DEF Actors
<1>1. CASE \E k \in Keys : ReadBad(r, k)
    <2> PICK k \in Keys : ReadBad(r, k)
        BY <1>1
    <2>1. job' \in [Actors -> JobRecord]
        BY <1>0 DEF ReadBad, TypeOK, JobRecord
    <2>2. pc' \in [Actors -> Places]
        BY <1>0, GotoType DEF ReadBad, Places
    <2> QED
        BY <1>0, <2>1, <2>2 DEF ReadBad, Shape
<1>2. CASE RemoveStat(r)
    <2> DEFINE f == files[job[r].key]
    <2>1. f \in File \cup {NoFile}
        BY <1>0 DEF TypeOK, JobRecord
    <2>2. CASE f = NoFile
        <3>1. pc' \in [Actors -> Places] /\ job' \in [Actors -> JobRecord]
            BY <1>0, <1>2, <2>2, FinishType DEF RemoveStat
        <3> QED
            BY <1>0, <1>2, <3>1 DEF RemoveStat, Shape
    <2>3. CASE f # NoFile
        <3>1. f.len \in Nat
            BY <2>1, <2>3, SizesAssumption DEF File
        <3>2. job' \in [Actors -> JobRecord]
            BY <1>0, <1>2, <2>3, <3>1 DEF RemoveStat, TypeOK, JobRecord
        <3>3. pc' \in [Actors -> Places]
            BY <1>0, <1>2, <2>3, GotoType DEF RemoveStat, Places
        <3> QED
            BY <1>0, <1>2, <3>2, <3>3 DEF RemoveStat, Shape
    <2> QED
        BY <2>2, <2>3
<1> QED
    BY <1>0, <1>1, <1>2, UnlinkType DEF RemoveStep

LEMMA PurgeType ==
    ASSUME TypeOK, PurgeStart \/ PurgeStep
    PROVE  Shape'
<1> USE DEF diskVars, tempVars, lockVars, walkVars, boundVars
<1>0. Shape /\ Purger \in Actors
    BY TypeShape DEF Actors
<1>1. CASE PurgeStart
    <2>1. pc' \in [Actors -> Places]
        BY <1>0, <1>1, GotoType DEF PurgeStart, Places
    <2> QED
        BY <1>0, <1>1, <2>1 DEF PurgeStart, Shape
<1>2. CASE PurgeDone
    <2>1. pc' \in [Actors -> Places]
        BY <1>0, <1>2, GotoType DEF PurgeDone, Places
    <2>2. size' \in Nat
        BY <1>0, <1>2 DEF PurgeDone, Shape
    <2> QED
        BY <1>0, <1>2, <2>1, <2>2 DEF PurgeDone, Shape
<1>3. CASE \E x \in purge : PurgeVisit(x)
    <2> PICK x \in purge : PurgeVisit(x)
        BY <1>3
    <2>1. /\ files' \in [Keys -> File \cup {NoFile}] /\ temps' \in [Names -> File \cup {NoFile}]
          /\ litter' \subseteq Names
        BY DEF PurgeVisit, Sweep, TypeOK
    <2> QED
        BY <1>0, <2>1 DEF PurgeVisit, Shape
<1>4. CASE \E x \in purge : PurgeSkip(x)
    <2> PICK x \in purge : PurgeSkip(x)
        BY <1>4
    <2>1. temps' \in [Names -> File \cup {NoFile}] /\ litter' \subseteq Names
        BY DEF PurgeSkip, Sweep, TypeOK
    <2> QED
        BY <1>0, <2>1 DEF PurgeSkip, Fails, Shape
<1> QED
    BY <1>1, <1>2, <1>3, <1>4 DEF PurgeStep

LEMMA DropType ==
    ASSUME TypeOK, NEW a \in Actors, Drop(a)
    PROVE  Shape'
<1> USE DEF diskVars, tempVars, lockVars, walkVars, boundVars
<1>0. Shape
    BY TypeShape
<1>1. pc' \in [Actors -> Places] /\ job' \in [Actors -> JobRecord]
    BY MoveType, FinishType DEF Drop, Places
<1>2. strays' \subseteq [op : {"write", "rename", "unlink"}, key : Keys, name : Names \cup {NoFile}]
    <2>1. job[a].key \in Keys /\ job[a].name \in Names \cup {NoFile}
        BY DEF TypeOK, JobRecord
    <2>2. Pending(a) \subseteq [op : {"write", "rename", "unlink"}, key : Keys, name : Names \cup {NoFile}]
        BY <2>1 DEF Pending
    <2> QED
        BY <2>2 DEF Drop, TypeOK
<1>3. scan' \in Walk
    BY <1>0, WalksType DEF Drop, Shape
<1>4. commitLock' \in Writers \cup {Nobody} /\ cleanLock' \in Writers \cup {Nobody}
    BY <1>0 DEF Drop, Release, Shape
<1> QED
    BY <1>0, <1>1, <1>2, <1>3, <1>4 DEF Drop, Shape

LEMMA StrayType ==
    ASSUME TypeOK, NamesInv, NEW s \in strays, Stray(s) \/ StrayFails(s)
    PROVE  Shape'
<1> USE DEF diskVars, tempVars, lockVars, walkVars, boundVars
<1>0. Shape /\ s.key \in Keys
    BY TypeShape DEF TypeOK
<1>1. strays' \subseteq strays /\ failures' \in Nat
    BY <1>0 DEF Stray, StrayFails, Fails, Shape
<1>2. /\ files' \in [Keys -> File \cup {NoFile}] /\ temps' \in [Names -> File \cup {NoFile}]
      /\ litter' = litter
    <2>1. CASE s.op = "unlink" /\ files' = [files EXCEPT ![s.key] = NoFile] /\ UNCHANGED tempVars
        BY <1>0, <2>1 DEF TypeOK
    <2>2. CASE s.op = "write" /\ Complete(s.name)
        BY <2>2 DEF Complete, TypeOK, File
    <2>3. CASE s.op = "rename" /\ Rename(s.name, s.key)
        <3>1. s.name \in Names
            BY <2>3 DEF NamesInv, Claimed
        <3> QED
            BY <1>0, <2>3, <3>1, RenameType DEF Rename
    <2>4. CASE UNCHANGED diskVars
        BY <2>4 DEF TypeOK
    <2> QED
        BY <2>1, <2>2, <2>3, <2>4 DEF Stray, StrayFails
<1> QED
    BY <1>0, <1>1, <1>2 DEF Stray, StrayFails, Shape

LEMMA RestartType ==
    ASSUME TypeOK, BootStep \/ Crash
    PROVE  Shape'
<1> USE DEF diskVars, tempVars, lockVars, walkVars, boundVars
<1>0. Shape
    BY TypeShape
<1>1. CASE BootDone
    BY <1>0, <1>1, WalksType DEF BootDone, Shape, Walk
<1>2. CASE \E k \in Keys : BootVisit(k)
    <2> PICK k \in Keys : BootVisit(k)
        BY <1>2
    <2>1. scan' \in Walk
        BY VisitType DEF BootVisit
    <2>2. temps' \in [Names -> File \cup {NoFile}] /\ litter' \subseteq Names
        BY DEF BootVisit, Sweep, TempsOf, TypeOK
    <2>3. failures' \in Nat
        BY <1>0 DEF BootVisit, Fails, Shape
    <2> QED
        BY <1>0, <2>1, <2>2, <2>3 DEF BootVisit, Shape
<1>3. CASE Crash
    <2>1. job' \in [Actors -> JobRecord] /\ scan' \in Walk
        BY <1>3, NoJobType, WalksType DEF Crash
    <2>2. pc' \in [Actors -> Places]
        BY <1>3 DEF Crash, Places
    <2>3. counter' \in 0..MaxPuts
        BY <1>3, BoundsAssumption DEF Crash
    <2>4. /\ purge' \subseteq Keys \X {"record", "temps"}
          /\ strays' \subseteq [op : {"write", "rename", "unlink"}, key : Keys, name : Names \cup {NoFile}]
        BY <1>3, Zenon DEF Crash
    <2>5. /\ files' \in [Keys -> File \cup {NoFile}]
          /\ temps' \in [Names -> File \cup {NoFile}] /\ litter' \subseteq Names
          /\ failures' \in Nat /\ crashes' \in Nat
        BY <1>0, <1>3 DEF Crash, Shape
    <2>6. /\ size' \in Nat /\ up' \in BOOLEAN
          /\ commitLock' \in Writers \cup {Nobody} /\ cleanLock' \in Writers \cup {Nobody}
        BY <1>3 DEF Crash
    <2> QED
        BY <2>1, <2>2, <2>3, <2>4, <2>5, <2>6 DEF Shape
<1> QED
    BY <1>1, <1>2, <1>3 DEF BootStep

LEMMA NextType ==
    ASSUME TypeOK, NamesInv, [Next]_vars
    PROVE  TypeOK'
<1>1. CASE Step /\ History
    <2>1. Shape'
        BY <1>1, StartType, CommitType, CleanType, ReaderType, PurgeType, DropType, StrayType,
           RestartType DEF Step, UpStep
    <2>2. exact' \in BOOLEAN /\ calm' \in BOOLEAN
        BY <1>1, HistoryType
    <2>3. (Shape /\ exact \in BOOLEAN /\ calm \in BOOLEAN)'
        BY <2>1, <2>2
    <2>4. (TypeOK <=> Shape /\ exact \in BOOLEAN /\ calm \in BOOLEAN)'
        BY TypeShape, PTL
    <2> QED
        BY <2>3, <2>4
<1>2. CASE UNCHANGED vars
    BY <1>2 DEF TypeOK, vars
<1> QED
    BY <1>1, <1>2 DEF Next, Rest

-----------------------------------------------------------------------------
(***************************************************************************)
(* What every step other than PutStart and Crash does to temporary files:  *)
(* it creates none, leaves none half-written that was not, lets nobody     *)
(* take another name, and drops a name only with its file, or as litter.   *)
(***************************************************************************)
Written == TempStages \ {"writing"}

KeepsJobs ==
    \A a \in Actors :
        /\ pc'[a] \in TempStages => pc[a] \in TempStages /\ job'[a].name = job[a].name
        /\ pc'[a] \in Written =>
              \/ pc[a] \in Written
              \/ temps'[job[a].name] = NoFile
              \/ temps'[job[a].name].whole

KeepsTemps ==
    \A n \in Names :
        \/ temps'[n] = NoFile
        \/ temps[n] # NoFile /\ (temps'[n] = temps[n] \/ temps'[n].whole)

KeepsFiles ==
    \A k \in Keys : files'[k] \in {NoFile, files[k]} \/ files'[k].whole

KeepsOwners ==
    \A w \in Writers, n \in Names :
        Owns(w, n) => Owns(w, n)' \/ temps'[n] = NoFile \/ n \in litter' \/ w \in Cancellable

KeepsLitter == \A n \in litter : temps'[n] = NoFile \/ n \in litter'

KeepsStrays ==
    \A s \in strays' \ strays :
        \E a \in Cancellable :
            \/ s.op = "unlink"
            \/ s.op = "write" /\ pc[a] = "writing" /\ s.name = job[a].name
            \/ s.op = "rename" /\ pc[a] = "renaming" /\ s.name = job[a].name

Keeps ==
    /\ counter' = counter
    /\ KeepsJobs /\ KeepsTemps /\ KeepsFiles /\ KeepsOwners /\ KeepsStrays /\ KeepsLitter

\* An actor goes elsewhere than to a stage with a temporary file.
LEMMA LeaveKeeps ==
    ASSUME TypeOK, NEW a \in Actors, NEW place \in Places \ TempStages,
           Goto(a, place),
           \A b \in Actors \ {a} : job'[b] = job[b]
    PROVE  KeepsJobs
BY DEF KeepsJobs, TypeOK, Goto, Written

\* It did not come from such a stage either.
LEMMA OutsideKeeps ==
    ASSUME TypeOK, NEW a \in Actors, NEW place \in Places \ TempStages,
           pc[a] \notin TempStages,
           Goto(a, place),
           \A b \in Actors \ {a} : job'[b] = job[b]
    PROVE  KeepsOwners
BY DEF KeepsOwners, Owns, TypeOK, Goto, TempStages, Actors

LEMMA SameKeeps ==
    ASSUME TypeOK
    PROVE  /\ UNCHANGED <<pc, job>> => KeepsJobs /\ KeepsOwners
           /\ UNCHANGED temps => KeepsTemps
           /\ UNCHANGED files => KeepsFiles
           /\ UNCHANGED strays => KeepsStrays
           /\ UNCHANGED litter => KeepsLitter
BY DEF KeepsLitter, KeepsJobs, KeepsOwners, KeepsTemps, KeepsFiles, KeepsStrays, Owns, Written, TypeOK

\* Moving or finishing changes no other actor's job.
LEMMA JobsOfOthers ==
    ASSUME TypeOK, NEW a \in Actors
    PROVE  /\ \A place : Move(a, place) => Goto(a, place) /\ \A b \in Actors \ {a} : job'[b] = job[b]
           /\ Finish(a) => Goto(a, "idle") /\ \A b \in Actors \ {a} : job'[b] = job[b]
BY DEF Move, Finish, TypeOK

LEMMA CommitKeeps ==
    ASSUME TypeOK, NamesInv, WholeInv, NEW w \in Writers, CommitStep(w)
    PROVE  Keeps
<1> USE DEF diskVars, tempVars, lockVars, walkVars, boundVars
<1>0. w \in Actors
    BY DEF Actors
<1> DEFINE n == job[w].name
<1>1. pc[w] \in TempStages => n \in Names
    BY <1>0 DEF NamesInv, Claimed
<1>2. ASSUME Discard(n), Finish(w), UNCHANGED <<files, counter, strays>>
      PROVE  Keeps
    <2>1. KeepsJobs
        BY <1>0, <1>2, LeaveKeeps, JobsOfOthers DEF Places, TempStages
    <2>2. KeepsTemps
        BY <1>2 DEF Discard, KeepsTemps, TypeOK
    <2>3. KeepsOwners
        BY <1>0, <1>2 DEF KeepsOwners, Owns, Discard, Finish, Goto, TypeOK
    <2>4. KeepsLitter
        BY <1>2 DEF KeepsLitter, Discard
    <2> QED
        BY <1>2, <2>1, <2>2, <2>3, <2>4, SameKeeps DEF Keeps
<1>3. CASE PutWritten(w)
    <2>1. n \in Names
        BY <1>1, <1>3 DEF PutWritten, TempStages
    <2>2. \A m \in Names : \/ temps'[m] = temps[m]
                           \/ m = n /\ temps[m] # NoFile /\ temps'[m].whole
        BY <1>3, <2>1 DEF PutWritten, Complete, TypeOK, File
    <2>3. temps'[n] = NoFile \/ temps'[n].whole
        BY <1>3, <2>1 DEF PutWritten, Complete, TypeOK, File
    <2>4. KeepsTemps
        BY <2>2 DEF KeepsTemps
    <2>5. KeepsJobs
        BY <1>0, <1>3, <2>3 DEF KeepsJobs, Written, TempStages, PutWritten, Move, Goto, TypeOK
    <2>6. KeepsOwners
        BY <1>0, <1>3 DEF KeepsOwners, Owns, PutWritten, Move, Goto, TypeOK
    <2> QED
        BY <1>3, <2>4, <2>5, <2>6, SameKeeps DEF PutWritten, Complete, Keeps
<1>4. CASE PutWriteFails(w)
    BY <1>2, <1>4 DEF PutWriteFails
<1>5. CASE PutLock(w)
    <2>1. KeepsJobs
        BY <1>0, <1>5 DEF KeepsJobs, Written, TempStages, PutLock, Move, Goto, TypeOK
    <2>2. KeepsOwners
        BY <1>0, <1>5 DEF KeepsOwners, Owns, PutLock, Move, Goto, TypeOK
    <2> QED
        BY <1>5, <2>1, <2>2, SameKeeps DEF PutLock, Keeps
<1>6. CASE PutStat(w)
    <2>1. \A a \in Actors : job'[a].name = job[a].name
        BY <1>0, <1>6 DEF PutStat, TypeOK, JobRecord
    <2>2. KeepsJobs
        BY <1>0, <1>6, <2>1 DEF KeepsJobs, Written, TempStages, PutStat, Goto, TypeOK
    <2>3. KeepsOwners
        BY <1>0, <1>6, <2>1 DEF KeepsOwners, Owns, PutStat, Goto, TypeOK, Actors
    <2> QED
        BY <1>6, <2>2, <2>3, SameKeeps DEF PutStat, Keeps
<1>7. CASE PutRename(w)
    <2>1. n \in Names /\ WholeOrGone(n)
        BY <1>0, <1>1, <1>7 DEF PutRename, TempStages, WholeInv
    <2>2. KeepsJobs
        BY <1>0, <1>7, LeaveKeeps, JobsOfOthers DEF PutRename, Places, TempStages
    <2>3. KeepsTemps
        BY <1>7 DEF PutRename, Rename, KeepsTemps, TypeOK
    <2>4. KeepsFiles
        BY <1>7, <2>1 DEF PutRename, Rename, KeepsFiles, WholeOrGone, TypeOK
    <2>5. KeepsOwners
        BY <1>0, <1>7, <2>1 DEF KeepsOwners, Owns, PutRename, Rename, Move, Goto, TypeOK
    <2> QED
        BY <1>7, <2>2, <2>3, <2>4, <2>5, SameKeeps DEF PutRename, Rename, Keeps
<1>8. CASE PutRenameFails(w)
    BY <1>2, <1>8 DEF PutRenameFails
<1>9. CASE PutAccount(w)
    <2>1. KeepsJobs /\ KeepsOwners
        BY <1>0, <1>9, LeaveKeeps, OutsideKeeps, JobsOfOthers DEF PutAccount, Places, TempStages
    <2> QED
        BY <1>9, <2>1, SameKeeps DEF PutAccount, Keeps
<1> QED
    BY <1>3, <1>4, <1>5, <1>6, <1>7, <1>8, <1>9 DEF CommitStep

LEMMA UnlinkKeeps ==
    ASSUME TypeOK, NEW a \in Actors, Unlink(a) \/ UnlinkFails(a) \/ Deduct(a)
    PROVE  Keeps
<1> USE DEF diskVars, tempVars, lockVars, walkVars, boundVars
<1>0. pc[a] \notin TempStages
    BY DEF Unlink, UnlinkFails, Deduct, TempStages
<1>1. Return(a) => KeepsJobs /\ KeepsOwners
    BY <1>0, LeaveKeeps, OutsideKeeps, JobsOfOthers DEF Return, Places, TempStages
<1>2. CASE Unlink(a)
    <2>1. KeepsJobs /\ KeepsOwners
        BY <1>0, <1>1, <1>2, LeaveKeeps, OutsideKeeps, JobsOfOthers DEF Unlink, Places, TempStages
    <2>2. KeepsFiles
        BY <1>2 DEF Unlink, KeepsFiles, TypeOK
    <2> QED
        BY <1>2, <2>1, <2>2, SameKeeps DEF Unlink, Keeps
<1>3. CASE Deduct(a)
    BY <1>1, <1>3, SameKeeps DEF Deduct, Keeps
<1>4. CASE UnlinkFails(a)
    BY <1>1, <1>4, SameKeeps DEF UnlinkFails, Keeps
<1> QED
    BY <1>2, <1>3, <1>4

LEMMA CleanKeeps ==
    ASSUME TypeOK, NEW w \in Writers, CleanStep(w)
    PROVE  Keeps
<1> USE DEF diskVars, tempVars, lockVars, walkVars, boundVars
<1>0. w \in Actors
    BY DEF Actors
<1>1. \A place \in Places \ TempStages :
         pc[w] \notin TempStages /\ (Move(w, place) \/ Finish(w)) => KeepsJobs /\ KeepsOwners
    BY <1>0, LeaveKeeps, OutsideKeeps, JobsOfOthers DEF Places, TempStages
<1>2. CASE CheckCapacity(w)
    BY <1>1, <1>2, SameKeeps DEF CheckCapacity, Keeps, Places, TempStages
<1>3. CASE TakeCleanLock(w)
    BY <1>1, <1>3, SameKeeps DEF TakeCleanLock, Keeps, Places, TempStages
<1>4. CASE \E k \in Keys : ScanVisit(w, k)
    BY <1>4, SameKeeps DEF ScanVisit, Keeps
<1>5. CASE ScanDone(w)
    BY <1>1, <1>5, SameKeeps DEF ScanDone, Keeps, Places, TempStages
<1>6. CASE \E x \in scan.found : EvictNext(w, x)
    <2> PICK x \in scan.found : EvictNext(w, x)
        BY <1>6
    <2>1. \A b \in Actors \ {w} : job'[b] = job[b]
        BY DEF EvictNext, TypeOK
    <2>2. KeepsJobs /\ KeepsOwners
        BY <1>0, <2>1, LeaveKeeps, OutsideKeeps DEF EvictNext, Places, TempStages
    <2> QED
        BY <2>2, SameKeeps DEF EvictNext, Keeps
<1>7. CASE EvictStop(w)
    BY <1>1, <1>7, SameKeeps DEF EvictStop, Keeps, Places, TempStages
<1> QED
    BY <1>0, <1>2, <1>3, <1>4, <1>5, <1>6, <1>7, UnlinkKeeps DEF CleanStep

LEMMA ReaderKeeps ==
    ASSUME TypeOK, NEW r \in Readers, RemoveStep(r) \/ \E k \in Keys : ReadBad(r, k)
    PROVE  Keeps
<1> USE DEF diskVars, tempVars, lockVars, walkVars, boundVars
<1>0. r \in Actors
    BY DEF Actors
<1>1. CASE \E k \in Keys : ReadBad(r, k)
    <2> PICK k \in Keys : ReadBad(r, k)
        BY <1>1
    <2>1. \A b \in Actors \ {r} : job'[b] = job[b]
        BY DEF ReadBad, TypeOK
    <2>2. KeepsJobs /\ KeepsOwners
        BY <1>0, <2>1, LeaveKeeps, OutsideKeeps DEF ReadBad, Places, TempStages
    <2> QED
        BY <2>2, SameKeeps DEF ReadBad, Keeps
<1>2. CASE RemoveStat(r)
    <2>1. \A b \in Actors \ {r} : job'[b] = job[b]
        BY <1>2 DEF RemoveStat, Finish, TypeOK
    <2>2. PICK place \in {"idle", "unlinking"} : Goto(r, place)
        BY <1>2 DEF RemoveStat, Finish
    <2>3. KeepsJobs /\ KeepsOwners
        BY <1>0, <1>2, <2>1, <2>2, LeaveKeeps, OutsideKeeps DEF RemoveStat, Places, TempStages
    <2> QED
        BY <1>2, <2>3, SameKeeps DEF RemoveStat, Keeps
<1> QED
    BY <1>0, <1>1, <1>2, UnlinkKeeps DEF RemoveStep

LEMMA PurgeKeeps ==
    ASSUME TypeOK, PurgeStart \/ PurgeStep
    PROVE  Keeps
<1> USE DEF diskVars, tempVars, lockVars, walkVars, boundVars
<1>0. Purger \in Actors
    BY DEF Actors
<1>1. CASE PurgeStart
    <2>1. KeepsJobs /\ KeepsOwners
        BY <1>0, <1>1, LeaveKeeps, OutsideKeeps DEF PurgeStart, Places, TempStages
    <2> QED
        BY <1>1, <2>1, SameKeeps DEF PurgeStart, Keeps
<1>2. CASE PurgeDone
    <2>1. KeepsJobs /\ KeepsOwners
        BY <1>0, <1>2, LeaveKeeps, OutsideKeeps DEF PurgeDone, Places, TempStages
    <2> QED
        BY <1>2, <2>1, SameKeeps DEF PurgeDone, Keeps
<1>3. CASE \E x \in purge : PurgeVisit(x)
    <2> PICK x \in purge : PurgeVisit(x)
        BY <1>3
    <2>1. KeepsTemps /\ KeepsFiles /\ KeepsLitter
        BY DEF PurgeVisit, Sweep, KeepsTemps, KeepsFiles, KeepsLitter, TypeOK
    <2> QED
        BY <2>1, SameKeeps DEF PurgeVisit, Keeps
<1>4. CASE \E x \in purge : PurgeSkip(x)
    <2> PICK x \in purge : PurgeSkip(x)
        BY <1>4
    <2>1. KeepsTemps /\ KeepsLitter
        BY DEF PurgeSkip, Sweep, KeepsTemps, KeepsLitter, TypeOK
    <2> QED
        BY <2>1, SameKeeps DEF PurgeSkip, Keeps
<1> QED
    BY <1>1, <1>2, <1>3, <1>4 DEF PurgeStep

LEMMA DropKeeps ==
    ASSUME TypeOK, NEW a \in Actors, Drop(a)
    PROVE  Keeps
<1> USE DEF diskVars, tempVars, lockVars, walkVars, boundVars
<1>1. KeepsJobs
    <2>1. CASE a = Purger
        BY <2>1, LeaveKeeps, JobsOfOthers DEF Drop, Places, TempStages
    <2>2. CASE a # Purger
        BY <2>2, LeaveKeeps, JobsOfOthers DEF Drop, Places, TempStages
    <2> QED
        BY <2>1, <2>2
<1>2. KeepsOwners
    <2>1. a \in Cancellable
        BY DEF Drop
    <2>2. \A w \in Writers \ {a} : pc'[w] = pc[w] /\ job'[w] = job[w]
        BY DEF Drop, Move, Finish, Goto, TypeOK, Actors
    <2> QED
        BY <2>1, <2>2 DEF KeepsOwners, Owns
<1>3. KeepsStrays
    BY DEF KeepsStrays, Drop, Pending
<1> QED
    BY <1>1, <1>2, <1>3, SameKeeps DEF Drop, Keeps

LEMMA StrayKeeps ==
    ASSUME TypeOK, NamesInv, WholeInv, NEW s \in strays, Stray(s) \/ StrayFails(s)
    PROVE  Keeps
<1> USE DEF diskVars, tempVars, lockVars, walkVars, boundVars
<1>1. KeepsJobs /\ KeepsOwners
    BY SameKeeps DEF Stray, StrayFails
<1>2. KeepsStrays
    BY DEF Stray, StrayFails, KeepsStrays
<1>3. KeepsTemps /\ KeepsFiles /\ UNCHANGED litter
    <2>1. CASE s.op = "unlink" /\ files' = [files EXCEPT ![s.key] = NoFile] /\ UNCHANGED tempVars
        BY <2>1, SameKeeps DEF KeepsFiles, TypeOK
    <2>2. CASE s.op = "write" /\ Complete(s.name)
        <3>1. s.name \in Names
            BY <2>2 DEF NamesInv, Claimed
        <3>2. KeepsTemps
            BY <2>2, <3>1 DEF KeepsTemps, Complete, TypeOK, File
        <3> QED
            BY <2>2, <3>2, SameKeeps DEF Complete
    <2>3. CASE s.op = "rename" /\ temps[s.name] # NoFile /\ Rename(s.name, s.key)
        <3>1. s.name \in Names /\ WholeOrGone(s.name)
            BY <2>3 DEF NamesInv, Claimed, WholeInv
        <3>2. KeepsTemps
            BY <2>3, <3>1 DEF KeepsTemps, Rename, TypeOK
        <3>3. KeepsFiles
            BY <2>3, <3>1 DEF KeepsFiles, Rename, WholeOrGone, TypeOK
        <3> QED
            BY <2>3, <3>2, <3>3 DEF Rename
    <2>4. CASE UNCHANGED diskVars
        BY <2>4, SameKeeps
    <2> QED
        BY <2>1, <2>2, <2>3, <2>4 DEF Stray, StrayFails
<1> QED
    BY <1>1, <1>2, <1>3, SameKeeps DEF Stray, StrayFails, Keeps

LEMMA BootKeeps ==
    ASSUME TypeOK, BootStep
    PROVE  Keeps
<1> USE DEF diskVars, tempVars, lockVars, walkVars, boundVars
<1>1. CASE BootDone
    BY <1>1, SameKeeps DEF BootDone, Keeps
<1>2. CASE \E k \in Keys : BootVisit(k)
    <2> PICK k \in Keys : BootVisit(k)
        BY <1>2
    <2>1. KeepsTemps /\ KeepsLitter
        BY DEF BootVisit, Sweep, KeepsTemps, KeepsLitter, TypeOK
    <2> QED
        BY <2>1, SameKeeps DEF BootVisit, Keeps
<1> QED
    BY <1>1, <1>2 DEF BootStep

\* Every step, sorted.
LEMMA NextKeeps ==
    ASSUME TypeOK, NamesInv, WholeInv, [Next]_vars
    PROVE  \/ Keeps
           \/ up /\ \E w \in Writers, k \in Keys, len \in Sizes : PutStart(w, k, len)
           \/ Crash
<1>1. CASE UNCHANGED vars
    BY <1>1, SameKeeps DEF vars, Keeps
<1>2. CASE Step
    BY <1>2, CommitKeeps, CleanKeeps, ReaderKeeps, PurgeKeeps, DropKeeps, StrayKeeps, BootKeeps
       DEF Step, UpStep
<1> QED
    BY <1>1, <1>2 DEF Next, Rest

-----------------------------------------------------------------------------
(***************************************************************************)
(* Records are never torn.                                                 *)
(***************************************************************************)

IInv == TypeOK /\ NamesInv /\ WholeInv /\ NoTornRecords

LEMMA InitIInv == Init => IInv
<1> SUFFICES ASSUME Init PROVE IInv
    OBVIOUS
<1>1. TypeOK
    BY InitType
<1>2. NamesInv /\ WholeInv
    BY DEF Init, NamesInv, WholeInv, TempStages
<1>3. NoTornRecords
    BY DEF Init, NoTornRecords, WholeFile
<1> QED
    BY <1>1, <1>2, <1>3 DEF IInv

\* The new name is past every claimed one, so nobody else's file changes.
LEMMA StartInv ==
    ASSUME IInv, NEW w \in Writers, NEW k \in Keys, NEW len \in Sizes, PutStart(w, k, len)
    PROVE  NamesInv' /\ WholeInv' /\ NoTornRecords'
<1> USE DEF IInv
<1>0. /\ w \in Actors /\ counter \in Nat /\ counter' = counter + 1
      /\ UNCHANGED <<files, strays>>
    BY DEF Actors, PutStart, TypeOK
<1> DEFINE new == TmpName(k, counter)
<1>1. new \in Names /\ new[2] = counter
    BY NameType DEF PutStart, TmpName
<1>2. \A n : Claimed(n) => n # new /\ Claimed(n)' /\ temps'[n] = temps[n]
    BY <1>0, <1>1 DEF Claimed, PutStart, TypeOK, Names
<1>3. /\ job'[w].name = new /\ pc'[w] = "writing"
      /\ \A a \in Actors \ {w} : job'[a] = job[a] /\ pc'[a] = pc[a]
    BY <1>0 DEF PutStart, Goto, TypeOK
<1>4. NamesInv'
    BY <1>0, <1>1, <1>2, <1>3 DEF NamesInv, Claimed
<1>5. WholeInv'
    <2>1. \A a \in Actors : pc'[a] \in TempStages \ {"writing"}
                               => WholeOrGone(job[a].name) /\ Claimed(job[a].name) /\ a # w
        BY <1>3 DEF WholeInv, NamesInv
    <2>2. \A s \in strays : s.op = "rename" => WholeOrGone(s.name) /\ Claimed(s.name)
        BY DEF WholeInv, NamesInv
    <2> QED
        BY <1>0, <1>2, <1>3, <2>1, <2>2 DEF WholeInv, WholeOrGone
<1>6. NoTornRecords'
    BY <1>0 DEF NoTornRecords
<1> QED
    BY <1>4, <1>5, <1>6

LEMMA KeepInv ==
    ASSUME IInv, Keeps
    PROVE  NamesInv' /\ WholeInv' /\ NoTornRecords'
<1> USE DEF IInv
<1>1. \A n : Claimed(n) <=> Claimed(n)'
    BY DEF Keeps, Claimed
<1>2. \A n \in Names : WholeOrGone(n) => temps'[n] = NoFile \/ temps'[n].whole
    BY DEF Keeps, KeepsTemps, WholeOrGone
<1>3. NamesInv'
    <2>1. \A a \in Actors : pc'[a] \in TempStages => Claimed(job'[a].name)
        BY DEF Keeps, KeepsJobs, NamesInv
    <2>2. \A s \in strays' : s.op \in {"write", "rename"} => Claimed(s.name)
        <3>1. \A a \in Cancellable : a \in Actors
            BY ActorsAssumption
        <3> QED
            BY <3>1 DEF Keeps, KeepsStrays, NamesInv, TempStages
    <2> QED
        BY <1>1, <2>1, <2>2 DEF NamesInv, Claimed
<1>4. WholeInv'
    <2>1. \A a \in Actors : pc'[a] \in TempStages \ {"writing"}
                               => temps'[job'[a].name] = NoFile \/ temps'[job'[a].name].whole
        <3> SUFFICES ASSUME NEW a \in Actors, pc'[a] \in Written
                     PROVE  temps'[job'[a].name] = NoFile \/ temps'[job'[a].name].whole
            BY DEF Written
        <3>1. job'[a].name = job[a].name /\ job[a].name \in Names
            BY DEF Keeps, KeepsJobs, NamesInv, Claimed, Written
        <3>2. CASE pc[a] \in Written
            BY <1>2, <3>1, <3>2 DEF WholeInv, Written
        <3>3. CASE pc[a] \notin Written
            BY <3>1, <3>3 DEF Keeps, KeepsJobs
        <3> QED
            BY <3>2, <3>3
    <2>2. \A s \in strays' : s.op = "rename" => temps'[s.name] = NoFile \/ temps'[s.name].whole
        <3> SUFFICES ASSUME NEW s \in strays', s.op = "rename"
                     PROVE  temps'[s.name] = NoFile \/ temps'[s.name].whole
            OBVIOUS
        <3>1. CASE s \in strays
            BY <1>2, <3>1 DEF NamesInv, WholeInv, Claimed
        <3>2. CASE s \notin strays
            <4>1. PICK a \in Actors : pc[a] = "renaming" /\ s.name = job[a].name
                BY <3>2, ActorsAssumption DEF Keeps, KeepsStrays
            <4> QED
                BY <1>2, <4>1 DEF NamesInv, WholeInv, Claimed, TempStages
        <3> QED
            BY <3>1, <3>2
    <2> QED
        BY <2>1, <2>2 DEF WholeInv, WholeOrGone
<1>5. NoTornRecords'
    BY DEF Keeps, KeepsFiles, NoTornRecords
<1> QED
    BY <1>3, <1>4, <1>5

LEMMA CrashInv ==
    ASSUME IInv, Crash
    PROVE  NamesInv' /\ WholeInv' /\ NoTornRecords'
BY DEF IInv, Crash, diskVars, NamesInv, WholeInv, NoTornRecords, TempStages

LEMMA NextIInv == IInv /\ [Next]_vars => IInv'
<1> SUFFICES ASSUME IInv, [Next]_vars PROVE IInv'
    OBVIOUS
<1>1. TypeOK'
    BY NextType DEF IInv
<1>2. NamesInv' /\ WholeInv' /\ NoTornRecords'
    BY NextKeeps, StartInv, KeepInv, CrashInv DEF IInv
<1> QED
    BY <1>1, <1>2 DEF IInv

THEOREM IInvHolds == Spec => []IInv
<1>1. Init => IInv
    BY InitIInv
<1>2. IInv /\ [Next]_vars => IInv'
    BY NextIInv
<1> QED
    BY <1>1, <1>2, PTL DEF Spec

\* The state keeps its shape, whatever the keys, lengths, limit and actors.
THEOREM TypeCorrect == Spec => []TypeOK
<1>1. IInv => TypeOK
    BY DEF IInv
<1> QED
    BY <1>1, IInvHolds, PTL

(***************************************************************************)
(* What is read under a key is one whole record, through concurrent puts,  *)
(* removals, cleaning, purges, dropped callers, failing file operations    *)
(* and crashes.                                                            *)
(***************************************************************************)
THEOREM RecordsNeverTorn == Spec => []NoTornRecords
<1>1. IInv => NoTornRecords
    BY DEF IInv
<1> QED
    BY <1>1, IInvHolds, PTL

-----------------------------------------------------------------------------
(***************************************************************************)
(* Temporary files have owners, or could not be removed.  While the        *)
(* process starts, any other is still to be visited by init.               *)
(***************************************************************************)

LeftToInit ==
    ~up => \A n \in Names : temps[n] # NoFile => n[1] \in scan.left \/ n \in litter

OwnedInv == LeftToInit /\ TempsOwned

LEMMA InitOwned == Init => OwnedInv
BY DEF Init, OwnedInv, LeftToInit, TempsOwned

LEMMA UpStays ==
    ASSUME UpStep
    PROVE  up' = up
<1>1. ASSUME NEW w \in Writers, CommitStep(w)
      PROVE  up' = up
    BY <1>1 DEF CommitStep, PutWritten, PutWriteFails, PutLock, PutStat, PutRename,
                PutRenameFails, PutAccount
<1>2. ASSUME NEW w \in Writers, CleanStep(w)
      PROVE  up' = up
    BY <1>2 DEF CleanStep, CheckCapacity, TakeCleanLock, ScanVisit, ScanDone, EvictNext,
                EvictStop, Unlink, UnlinkFails, Deduct
<1>3. ASSUME NEW r \in Readers, RemoveStep(r) \/ \E k \in Keys : ReadBad(r, k)
      PROVE  up' = up
    BY <1>3 DEF RemoveStep, RemoveStat, ReadBad, Unlink, UnlinkFails, Deduct
<1>4. PurgeStart \/ PurgeStep => up' = up
    BY DEF PurgeStep, PurgeStart, PurgeVisit, PurgeSkip, PurgeDone
<1> QED
    BY <1>1, <1>2, <1>3, <1>4 DEF UpStep, PutStart, Drop, Stray, StrayFails

LEMMA StartOwned ==
    ASSUME IInv, OwnedInv, up,
           NEW w \in Writers, NEW k \in Keys, NEW len \in Sizes, PutStart(w, k, len)
    PROVE  OwnedInv'
<1> DEFINE new == TmpName(k, counter)
<1>0. TypeOK /\ w \in Actors
    BY DEF IInv, Actors
<1>1. up' = up
    BY DEF PutStart
<1>2. pc'[w] = "writing" /\ job'[w].name = new
    BY <1>0 DEF PutStart, Goto, TypeOK
<1>3. \A n \in Names : n # new => temps'[n] = temps[n]
    BY <1>0 DEF PutStart, TypeOK
<1>4. \A n : ~Owns(w, n)
    BY DEF PutStart, Owns
<1>5. \A v \in Writers \ {w}, n \in Names : Owns(v, n) => Owns(v, n)'
    BY <1>0 DEF PutStart, Owns, Goto, TypeOK, Actors
<1>6. TempsOwned'
    <2> SUFFICES ASSUME Cancellable = {}, NEW n \in Names, temps'[n] # NoFile
                 PROVE  n \in litter' \/ \E v \in Writers : Owns(v, n)'
        BY DEF TempsOwned
    <2>1. CASE n = new
        BY <1>2, <2>1 DEF Owns
    <2>2. CASE n # new
        <3>1. CASE n \in litter
            BY <2>2, <3>1 DEF PutStart
        <3>2. CASE \E v \in Writers : Owns(v, n)
            BY <1>4, <1>5, <3>2
        <3> QED
            BY <1>3, <2>2, <3>1, <3>2 DEF OwnedInv, TempsOwned
    <2> QED
        BY <2>1, <2>2
<1> QED
    BY <1>1, <1>6 DEF OwnedInv, LeftToInit

LEMMA KeepOwned ==
    ASSUME OwnedInv, Keeps, up, up' = up
    PROVE  OwnedInv'
<1>1. TempsOwned'
    <2> SUFFICES ASSUME Cancellable = {}, NEW n \in Names, temps'[n] # NoFile
                 PROVE  n \in litter' \/ \E v \in Writers : Owns(v, n)'
        BY DEF TempsOwned
    <2>1. n \in litter \/ \E v \in Writers : Owns(v, n)
        BY DEF Keeps, KeepsTemps, OwnedInv, TempsOwned
    <2> QED
        BY <2>1 DEF Keeps, KeepsOwners, KeepsLitter
<1> QED
    BY <1>1 DEF OwnedInv, LeftToInit

LEMMA BootOwned ==
    ASSUME TypeOK, OwnedInv, ~up, BootStep
    PROVE  OwnedInv'
<1> USE DEF diskVars, tempVars, lockVars, walkVars, boundVars
<1>1. CASE BootDone
    <2>1. \A n \in Names : temps'[n] # NoFile => n \in litter'
        BY <1>1 DEF BootDone, OwnedInv, LeftToInit
    <2> QED
        BY <1>1, <2>1 DEF BootDone, OwnedInv, LeftToInit, TempsOwned
<1>2. CASE \E k \in Keys : BootVisit(k)
    <2> PICK k \in Keys : BootVisit(k)
        BY <1>2
    <2>1. scan'.left = scan.left \ {k} /\ up' = up
        BY DEF BootVisit, Visit
    <2>2. \A n \in Names : temps'[n] # NoFile =>
             temps[n] # NoFile /\ (n[1] = k \/ n \in litter => n \in litter')
        BY DEF BootVisit, Sweep
    <2> QED
        BY <2>1, <2>2 DEF OwnedInv, LeftToInit, TempsOwned
<1> QED
    BY <1>1, <1>2 DEF BootStep

LEMMA CrashOwned ==
    ASSUME Crash
    PROVE  OwnedInv'
<1>1. \A n \in Names : n[1] \in Keys
    BY DEF Names
<1> QED
    BY <1>1 DEF Crash, diskVars, StartWalk, OwnedInv, LeftToInit, TempsOwned

LEMMA NextOwned == IInv /\ OwnedInv /\ [Next]_vars => OwnedInv'
<1> SUFFICES ASSUME IInv, OwnedInv, [Next]_vars PROVE OwnedInv'
    OBVIOUS
<1>1. CASE UNCHANGED vars
    BY <1>1 DEF vars, OwnedInv, LeftToInit, TempsOwned, Owns
<1>2. CASE up /\ UpStep
    <2>1. CASE \E w \in Writers, k \in Keys, len \in Sizes : PutStart(w, k, len)
        BY <1>2, <2>1, StartOwned
    <2>2. CASE Keeps
        BY <1>2, <2>2, KeepOwned, UpStays
    <2> QED
        BY <1>2, <2>1, <2>2, CommitKeeps, CleanKeeps, ReaderKeeps, PurgeKeeps, DropKeeps, StrayKeeps
           DEF UpStep, IInv
<1>3. CASE BootStep
    <2>1. ~up
        BY <1>3 DEF BootStep, BootDone, BootVisit
    <2> QED
        BY <1>3, <2>1, BootOwned DEF IInv
<1>4. CASE Crash
    BY <1>4, CrashOwned
<1> QED
    BY <1>1, <1>2, <1>3, <1>4 DEF Next, Step, Rest

(***************************************************************************)
(* Unless a caller was dropped, every temporary file belongs to a put      *)
(* under way or resisted its removal: failing puts try to remove theirs,   *)
(* and init those of a crash.                                              *)
(***************************************************************************)
THEOREM TempsAreOwned == Spec => []TempsOwned
<1>1. Init => OwnedInv
    BY InitOwned
<1>2. IInv /\ OwnedInv /\ [Next]_vars => OwnedInv'
    BY NextOwned
<1>3. OwnedInv => TempsOwned
    BY DEF OwnedInv
<1> QED
    BY <1>1, <1>2, <1>3, IInvHolds, PTL DEF Spec

-----------------------------------------------------------------------------
(***************************************************************************)
(* The bytes below a set of paths, and how their number changes with one   *)
(* file.                                                                   *)
(***************************************************************************)
Disks == [Keys -> File \cup {NoFile}]

LEMMA BytesFinite ==
    ASSUME NEW fs \in Disks, NEW S \in SUBSET Keys
    PROVE  IsFiniteSet(BytesOf(fs, S))
<1> DEFINE Below(k) == {k} \X (1..LenOf(fs[k]))
           T == {Below(k) : k \in S}
           f == [k \in S |-> Below(k)]
<1>1. IsFiniteSet(S)
    BY KeysAssumption, FS_Subset
<1>2. IsFiniteSet(T)
    <2>1. f \in Surjection(S, T)
        BY DEF Surjection
    <2> QED
        BY <1>1, <2>1, FS_Surjection
<1>3. \A k \in S : IsFiniteSet(Below(k))
    <2> TAKE k \in S
    <2>1. LenOf(fs[k]) \in Nat
        BY LenType DEF Disks
    <2>2. IsFiniteSet(1..LenOf(fs[k]))
        BY <2>1, FS_Interval
    <2>3. IsFiniteSet({k})
        BY FS_Singleton
    <2> QED
        BY <2>2, <2>3, FS_Product
<1> QED
    BY <1>2, <1>3, FS_UNION DEF BytesOf

LEMMA BytesSplit ==
    ASSUME NEW fs \in Disks, NEW S \in SUBSET Keys, NEW k \in S
    PROVE  /\ Cardinality(BytesOf(fs, S)) \in Nat
           /\ Cardinality(BytesOf(fs, S \ {k})) \in Nat
           /\ Cardinality(BytesOf(fs, S)) = LenOf(fs[k]) + Cardinality(BytesOf(fs, S \ {k}))
<1> DEFINE Below == {k} \X (1..LenOf(fs[k]))
           Rest1 == BytesOf(fs, S \ {k})
<1>1. LenOf(fs[k]) \in Nat
    BY LenType DEF Disks
<1>2. IsFiniteSet(Below) /\ Cardinality(Below) = LenOf(fs[k])
    <2>1. IsFiniteSet(1..LenOf(fs[k])) /\ Cardinality(1..LenOf(fs[k])) = LenOf(fs[k])
        BY <1>1, FS_Interval
    <2>2. IsFiniteSet({k}) /\ Cardinality({k}) = 1
        BY FS_Singleton
    <2>3. IsFiniteSet(Below) /\ Cardinality(Below) = 1 * LenOf(fs[k])
        <3>1. /\ IsFiniteSet(Below)
              /\ Cardinality(Below) = Cardinality({k}) * Cardinality(1..LenOf(fs[k]))
            BY <2>1, <2>2, FS_Product, Zenon
        <3> QED
            BY <2>1, <2>2, <3>1
    <2> QED
        BY <1>1, <2>3
<1>3. IsFiniteSet(Rest1) /\ IsFiniteSet(BytesOf(fs, S))
    BY BytesFinite
<1>4. BytesOf(fs, S) = Below \cup Rest1
    BY Zenon DEF BytesOf
<1>5. Below \cap Rest1 = {}
    BY DEF BytesOf
<1>6. /\ Cardinality(Rest1) \in Nat /\ Cardinality(BytesOf(fs, S)) \in Nat
      /\ Cardinality(Below \cap Rest1) = 0
    BY <1>3, <1>5, FS_CardinalityType, FS_EmptySet
<1>7. Cardinality(Below \cup Rest1)
          = Cardinality(Below) + Cardinality(Rest1) - Cardinality(Below \cap Rest1)
    BY <1>2, <1>3, FS_Union
<1> QED
    BY <1>1, <1>2, <1>4, <1>6, <1>7

LEMMA BytesMore ==
    ASSUME NEW fs \in Disks, NEW S \in SUBSET Keys, NEW k \in Keys, k \notin S
    PROVE  /\ Cardinality(BytesOf(fs, S)) \in Nat
           /\ Cardinality(BytesOf(fs, S \cup {k})) = LenOf(fs[k]) + Cardinality(BytesOf(fs, S))
<1> DEFINE T == S \cup {k}
<1>1. T \in SUBSET Keys /\ k \in T /\ T \ {k} = S
    OBVIOUS
<1> HIDE DEF T
<1>2. /\ Cardinality(BytesOf(fs, T \ {k})) \in Nat
      /\ Cardinality(BytesOf(fs, T)) = LenOf(fs[k]) + Cardinality(BytesOf(fs, T \ {k}))
    BY <1>1, BytesSplit
<1> QED
    BY <1>1, <1>2, Zenon DEF T

\* One file is replaced, or disappears.
LEMMA BytesReplace ==
    ASSUME NEW fs \in Disks, NEW k \in Keys, NEW f \in File \cup {NoFile}
    PROVE  LET before == Cardinality(BytesOf(fs, Keys))
               after == Cardinality(BytesOf([fs EXCEPT ![k] = f], Keys))
           IN  /\ before \in Nat /\ after \in Nat
               /\ LenOf(fs[k]) \in Nat /\ LenOf(f) \in Nat
               /\ LenOf(fs[k]) <= before
               /\ after + LenOf(fs[k]) = before + LenOf(f)
<1> DEFINE gs == [fs EXCEPT ![k] = f]
<1>1. gs \in Disks /\ gs[k] = f /\ \A j \in Keys \ {k} : gs[j] = fs[j]
    BY DEF Disks
<1> HIDE DEF gs
<1>2. BytesOf(gs, Keys \ {k}) = BytesOf(fs, Keys \ {k})
    BY <1>1 DEF BytesOf
<1>3. LenOf(fs[k]) \in Nat /\ LenOf(f) \in Nat
    BY LenType DEF Disks
<1>4. /\ Cardinality(BytesOf(gs, Keys)) \in Nat
      /\ Cardinality(BytesOf(gs, Keys \ {k})) \in Nat
      /\ Cardinality(BytesOf(gs, Keys)) = LenOf(gs[k]) + Cardinality(BytesOf(gs, Keys \ {k}))
    BY <1>1, BytesSplit
<1>5. /\ Cardinality(BytesOf(fs, Keys)) \in Nat
      /\ Cardinality(BytesOf(fs, Keys)) = LenOf(fs[k]) + Cardinality(BytesOf(fs, Keys \ {k}))
    BY BytesSplit
<1> QED
    BY <1>1, <1>2, <1>3, <1>4, <1>5 DEF gs

LEMMA BytesNone ==
    ASSUME NEW fs, NEW S, \A k \in S : fs[k] = NoFile
    PROVE  Cardinality(BytesOf(fs, S)) = 0
<1>1. \A k \in S : {k} \X (1..LenOf(fs[k])) = {}
    BY DEF LenOf
<1>2. BytesOf(fs, S) = {}
    BY <1>1 DEF BytesOf
<1> QED
    BY <1>2, FS_EmptySet

-----------------------------------------------------------------------------
(***************************************************************************)
(* What a walk finds below a set of paths.                                 *)
(***************************************************************************)
FoundOf(fs, keys) == {<<k, fs[k].len>> : k \in {j \in keys : fs[j] # NoFile}}

LEMMA FoundNothing == \A fs : FoundOf(fs, {}) = {}
BY DEF FoundOf

LEMMA FoundMore ==
    ASSUME NEW fs, NEW S, NEW k, k \notin S
    PROVE  FoundOf(fs, S \cup {k})
               = IF fs[k] = NoFile THEN FoundOf(fs, S)
                 ELSE FoundOf(fs, S) \cup {<<k, fs[k].len>>}
BY DEF FoundOf

\* Without one record the others are found, whether it is gone or skipped.
LEMMA FoundLess ==
    ASSUME NEW fs \in Disks, NEW k \in Keys, NEW S \in SUBSET Keys
    PROVE  /\ FoundOf([fs EXCEPT ![k] = NoFile], S) = FoundOf(fs, S \ {k})
           /\ fs[k] = NoFile => FoundOf(fs, S) = FoundOf(fs, S \ {k})
           /\ FoundOf(fs, S) \ {<<k, fs[k].len>>} = FoundOf(fs, S \ {k})
BY DEF FoundOf, Disks

\* Taking one file out of what a walk found is leaving its key out of the walk.
LEMMA FoundRest ==
    ASSUME NEW fs \in Disks, NEW k \in Keys, NEW S \in SUBSET Keys
    PROVE  FoundOf(fs, S) \ {<<k, fs[k].len>>} = FoundOf(fs, S \ {k})
BY DEF FoundOf, Disks

LEMMA FoundEmpty ==
    ASSUME NEW fs, NEW S, FoundOf(fs, S) = {}
    PROVE  \A k \in S : fs[k] = NoFile
BY DEF FoundOf

-----------------------------------------------------------------------------
(***************************************************************************)
(* The inductive invariant, on top of IInv.  Where an actor can stand, and *)
(* who holds the locks.                                                    *)
(***************************************************************************)
Cleaning == {"scanning", "evicting", "unlinking", "unlinked"}

PlaceInv ==
    /\ \A w \in Writers : pc[w] \notin {"bad", "purging", "abandoned"}
    /\ \A r \in Readers : pc[r] \in {"idle", "bad", "unlinking", "unlinked"}
    /\ pc[Purger] \in {"idle", "purging", "abandoned"}

LockInv ==
    \A w \in Writers :
        /\ pc[w] \in {"locked", "renaming", "renamed"} => commitLock = w
        /\ pc[w] \in Cleaning => cleanLock = w

\* The temporary file of a put has the length the put will account for.
LenInv ==
    \A a \in Actors :
        pc[a] \in TempStages
            => temps[job[a].name] = NoFile \/ temps[job[a].name].len = job[a].len

\* Before init is done nothing runs.
RestInv == ~up => exact /\ strays = {} /\ \A a \in Actors : pc[a] = "idle"

\* What the history variables vouch for ran alone.
ApartInv == exact \/ calm => ~Overlap

Scanning == \E w \in Writers : pc[w] = "scanning"

\* A walk that runs alone has what is on disk below the keys it has visited.
WalkExact ==
    /\ scan.total = Cardinality(BytesOf(files, Keys \ scan.left))
    /\ scan.found = FoundOf(files, Keys \ scan.left)
    /\ scan.stuck = {}

WalkInv == ~up \/ (calm /\ Scanning) => WalkExact

(***************************************************************************)
(* The tracked size, while it is exact.  Between a change of the disk and  *)
(* its accounting, size and Total differ by what is still to be accounted; *)
(* before the change, the actor knows the length it will deduct, and the   *)
(* cleaner knows the files it has not yet tried to remove.                 *)
(***************************************************************************)
Unsettled == {"renamed", "unlinked", "purging"}

Dues(a) ==
    /\ pc[a] = "renaming" => job[a].old = LenOf(files[job[a].key])
    /\ pc[a] = "renamed" => Total + job[a].old = size + job[a].len /\ job[a].old <= size
    /\ pc[a] = "unlinking" => files[job[a].key] = NoFile \/ files[job[a].key].len = job[a].old
    /\ pc[a] = "unlinked" => size = Total + job[a].old
    /\ pc[a] = "purging" => \A k \in Keys : <<k, "record">> \notin purge => files[k] = NoFile
    /\ pc[a] # "abandoned"

Untried == Keys \ scan.stuck

Finds(a) ==
    a \in Writers =>
        /\ pc[a] = "scanning" => calm
        /\ pc[a] \in {"evicting", "unlinked"} => scan.found = FoundOf(files, Untried)
        /\ pc[a] = "unlinking" => scan.found = FoundOf(files, Untried \ {job[a].key})

Settled == (\A a \in Actors : pc[a] \notin Unsettled) => size = Total

SizeInv == up /\ exact => Settled /\ \A a \in Actors : Dues(a) /\ Finds(a)

AccInv == PlaceInv /\ LockInv /\ LenInv /\ RestInv /\ ApartInv /\ WalkInv /\ SizeInv

-----------------------------------------------------------------------------
(***************************************************************************)
(* Places, locks and lengths.  No step but PutStart gives an actor another *)
(* temporary file, or a temporary file another length.                     *)
(***************************************************************************)
LensKept ==
    /\ \A n \in Names : \/ temps'[n] = NoFile
                        \/ temps[n] # NoFile /\ temps'[n].len = temps[n].len
    /\ \A a \in Actors :
          pc'[a] \in TempStages
              => /\ pc[a] \in TempStages
                 /\ job'[a].name = job[a].name /\ job'[a].len = job[a].len

PlacesKept == PlaceInv' /\ LockInv' /\ LensKept

LEMMA KindsApart ==
    /\ Writers \subseteq Actors /\ Readers \subseteq Actors /\ Purger \in Actors
    /\ Nobody \notin Writers /\ Purger \notin Writers /\ Purger \notin Readers
    /\ \A w \in Writers : w \notin Readers
    /\ \A a \in Actors : a \in Writers \/ a \in Readers \/ a = Purger
    /\ \A a \in Cancellable : a \in Actors
BY ActorsAssumption DEF Actors

LEMMA CommitPlaces ==
    ASSUME TypeOK, PlaceInv, LockInv, NamesInv, NEW w \in Writers, CommitStep(w)
    PROVE  PlacesKept
<1> USE KindsApart DEF diskVars, tempVars, lockVars, walkVars, boundVars, Goto, Move, Finish, TypeOK
<1> DEFINE n == job[w].name
<1>0. w \in Actors /\ (pc[w] \in TempStages => n \in Names)
    BY DEF NamesInv, Claimed
<1>1. PlaceInv'
    BY <1>0 DEF CommitStep, PutWritten, PutWriteFails, PutLock, PutStat, PutRename,
                PutRenameFails, PutAccount, PlaceInv
<1>2. LockInv'
    <2>1. CASE PutWritten(w) \/ PutWriteFails(w) \/ PutStat(w) \/ PutRename(w)
        BY <1>0, <2>1 DEF PutWritten, PutWriteFails, PutStat, PutRename, LockInv, Cleaning
    <2>2. CASE PutLock(w)
        BY <1>0, <2>2 DEF PutLock, CommitFree, LockInv, Cleaning
    <2>3. CASE PutRenameFails(w) \/ PutAccount(w)
        BY <1>0, <2>3 DEF PutRenameFails, PutAccount, LockInv, Cleaning
    <2> QED
        BY <2>1, <2>2, <2>3 DEF CommitStep
<1>3. LensKept
    <2>1. CASE PutWritten(w)
        BY <1>0, <2>1 DEF PutWritten, Complete, LensKept, TempStages, File
    <2>2. CASE PutWriteFails(w) \/ PutRenameFails(w)
        BY <1>0, <2>2 DEF PutWriteFails, PutRenameFails, Discard, LensKept, TempStages
    <2>3. CASE PutLock(w) \/ PutStat(w) \/ PutAccount(w)
        BY <1>0, <2>3 DEF PutLock, PutStat, PutAccount, LensKept, TempStages, JobRecord
    <2>4. CASE PutRename(w)
        BY <1>0, <2>4 DEF PutRename, Rename, LensKept, TempStages
    <2> QED
        BY <2>1, <2>2, <2>3, <2>4 DEF CommitStep
<1> QED
    BY <1>1, <1>2, <1>3 DEF PlacesKept

LEMMA StartPlaces ==
    ASSUME TypeOK, PlaceInv, LockInv, NEW w \in Writers, NEW k \in Keys, NEW len \in Sizes,
           PutStart(w, k, len)
    PROVE  PlaceInv' /\ LockInv'
BY KindsApart DEF PutStart, Goto, lockVars, TypeOK, PlaceInv, LockInv, Cleaning

LEMMA UnlinkPlaces ==
    ASSUME TypeOK, PlaceInv, LockInv, NEW a \in Actors, a # Purger,
           Unlink(a) \/ UnlinkFails(a) \/ Deduct(a)
    PROVE  PlacesKept
<1> USE KindsApart DEF lockVars, Goto, Move, Finish, Return, TypeOK
<1>1. PlaceInv'
    BY DEF Unlink, UnlinkFails, Deduct, PlaceInv
<1>2. LockInv'
    BY DEF Unlink, UnlinkFails, Deduct, LockInv, Cleaning
<1>3. LensKept
    BY DEF Unlink, UnlinkFails, Deduct, LensKept, TempStages, diskVars, tempVars
<1> QED
    BY <1>1, <1>2, <1>3 DEF PlacesKept

LEMMA CleanPlaces ==
    ASSUME TypeOK, PlaceInv, LockInv, NEW w \in Writers, CleanStep(w)
    PROVE  PlacesKept
<1> USE KindsApart DEF diskVars, tempVars, lockVars, Goto, Move, Finish, TypeOK
<1>1. CASE CheckCapacity(w)
    BY <1>1 DEF CheckCapacity, PlacesKept, PlaceInv, LockInv, LensKept, Cleaning, TempStages
<1>2. CASE TakeCleanLock(w)
    BY <1>2 DEF TakeCleanLock, PlacesKept, PlaceInv, LockInv, LensKept, Cleaning, TempStages
<1>3. CASE \E k \in Keys : ScanVisit(w, k)
    BY <1>3 DEF ScanVisit, PlacesKept, PlaceInv, LockInv, LensKept, Cleaning, TempStages
<1>4. CASE ScanDone(w)
    BY <1>4 DEF ScanDone, PlacesKept, PlaceInv, LockInv, LensKept, Cleaning, TempStages
<1>5. CASE \E x \in scan.found : EvictNext(w, x)
    BY <1>5 DEF EvictNext, PlacesKept, PlaceInv, LockInv, LensKept, Cleaning, TempStages
<1>6. CASE EvictStop(w)
    BY <1>6 DEF EvictStop, PlacesKept, PlaceInv, LockInv, LensKept, Cleaning, TempStages
<1> QED
    BY <1>1, <1>2, <1>3, <1>4, <1>5, <1>6, UnlinkPlaces DEF CleanStep

LEMMA ReaderPlaces ==
    ASSUME TypeOK, PlaceInv, LockInv, NEW r \in Readers,
           RemoveStep(r) \/ \E k \in Keys : ReadBad(r, k)
    PROVE  PlacesKept
<1> USE KindsApart DEF diskVars, tempVars, lockVars, Goto, Finish, TypeOK
<1>1. CASE \E k \in Keys : ReadBad(r, k)
    BY <1>1 DEF ReadBad, PlacesKept, PlaceInv, LockInv, LensKept, Cleaning, TempStages
<1>2. CASE RemoveStat(r)
    BY <1>2 DEF RemoveStat, PlacesKept, PlaceInv, LockInv, LensKept, Cleaning, TempStages
<1> QED
    BY <1>1, <1>2, UnlinkPlaces DEF RemoveStep

LEMMA PurgePlaces ==
    ASSUME TypeOK, PlaceInv, LockInv, PurgeStart \/ PurgeStep
    PROVE  PlacesKept
<1> USE KindsApart DEF diskVars, tempVars, lockVars, Goto, TypeOK
<1>1. CASE PurgeStart
    BY <1>1 DEF PurgeStart, PlacesKept, PlaceInv, LockInv, LensKept, Cleaning, TempStages
<1>2. CASE PurgeDone
    BY <1>2 DEF PurgeDone, PlacesKept, PlaceInv, LockInv, LensKept, Cleaning, TempStages
<1>3. CASE \E x \in purge : PurgeVisit(x)
    BY <1>3 DEF PurgeVisit, Sweep, PlacesKept, PlaceInv, LockInv, LensKept, Cleaning, TempStages
<1>4. CASE \E x \in purge : PurgeSkip(x)
    BY <1>4 DEF PurgeSkip, Sweep, PlacesKept, PlaceInv, LockInv, LensKept, Cleaning, TempStages
<1> QED
    BY <1>1, <1>2, <1>3, <1>4 DEF PurgeStep

LEMMA DropPlaces ==
    ASSUME TypeOK, PlaceInv, LockInv, NEW a \in Actors, Drop(a)
    PROVE  PlacesKept
<1> USE KindsApart DEF diskVars, tempVars, Goto, Move, Finish, Release, TypeOK
<1>1. PlaceInv'
    BY DEF Drop, PlaceInv
<1>2. LockInv'
    BY DEF Drop, LockInv, Cleaning
<1>3. LensKept
    BY DEF Drop, LensKept, TempStages
<1> QED
    BY <1>1, <1>2, <1>3 DEF PlacesKept

LEMMA StrayPlaces ==
    ASSUME TypeOK, PlaceInv, LockInv, NamesInv, NEW s \in strays, Stray(s) \/ StrayFails(s)
    PROVE  PlacesKept
<1> USE DEF diskVars, tempVars, lockVars, TypeOK
<1>1. PlaceInv' /\ LockInv' /\ UNCHANGED <<pc, job>>
    BY DEF Stray, StrayFails, PlaceInv, LockInv, Cleaning
<1>2. \A n \in Names : \/ temps'[n] = NoFile
                       \/ temps[n] # NoFile /\ temps'[n].len = temps[n].len
    BY DEF Stray, StrayFails, Complete, Rename, NamesInv, Claimed, File
<1> QED
    BY <1>1, <1>2 DEF PlacesKept, LensKept

LEMMA RestartPlaces ==
    ASSUME TypeOK, PlaceInv, LockInv, BootStep \/ Crash
    PROVE  PlacesKept
<1> USE KindsApart DEF diskVars, tempVars, lockVars, TypeOK
<1>1. CASE BootDone
    BY <1>1 DEF BootDone, PlacesKept, PlaceInv, LockInv, LensKept, Cleaning, TempStages
<1>2. CASE \E k \in Keys : BootVisit(k)
    BY <1>2 DEF BootVisit, Sweep, PlacesKept, PlaceInv, LockInv, LensKept, Cleaning, TempStages
<1>3. CASE Crash
    BY <1>3 DEF Crash, PlacesKept, PlaceInv, LockInv, LensKept, Cleaning, TempStages
<1> QED
    BY <1>1, <1>2, <1>3 DEF BootStep

LEMMA KeptLens ==
    ASSUME NamesInv, LenInv, LensKept
    PROVE  LenInv'
<1>1. \A a \in Actors : pc[a] \in TempStages => job[a].name \in Names
    BY DEF NamesInv, Claimed
<1> QED
    BY <1>1 DEF LenInv, LensKept

\* WRITE_COUNTER is past every name in use.
LEMMA StartLens ==
    ASSUME TypeOK, NamesInv, LenInv, NEW w \in Writers, NEW k \in Keys, NEW len \in Sizes,
           PutStart(w, k, len)
    PROVE  LenInv'
<1> DEFINE new == TmpName(k, counter)
<1>0. w \in Actors /\ counter \in Nat
    BY DEF Actors, TypeOK
<1>1. new \in Names /\ new[2] = counter
    BY NameType DEF PutStart, TmpName
<1>2. \A n : Claimed(n) => temps'[n] = temps[n]
    BY <1>0, <1>1 DEF Claimed, PutStart, TypeOK, Names
<1>3. temps'[new].len = len
    BY <1>1 DEF PutStart, TypeOK
<1>4. /\ job'[w].name = new /\ job'[w].len = len
      /\ \A a \in Actors \ {w} : job'[a] = job[a] /\ pc'[a] = pc[a]
    BY <1>0 DEF PutStart, Goto, TypeOK
<1> QED
    BY <1>2, <1>3, <1>4 DEF LenInv, NamesInv

LEMMA NextPlaces ==
    ASSUME TypeOK, NamesInv, PlaceInv, LockInv, LenInv, [Next]_vars
    PROVE  PlaceInv' /\ LockInv' /\ LenInv'
<1>1. CASE UNCHANGED vars
    BY <1>1 DEF vars, PlaceInv, LockInv, LenInv
<1>2. CASE \E w \in Writers, k \in Keys, len \in Sizes : PutStart(w, k, len)
    BY <1>2, StartPlaces, StartLens
<1>3. CASE PlacesKept
    BY <1>3, KeptLens DEF PlacesKept
<1> QED
    BY <1>1, <1>2, <1>3, KindsApart, CommitPlaces, CleanPlaces, ReaderPlaces, PurgePlaces, DropPlaces,
       StrayPlaces, RestartPlaces DEF Next, Step, UpStep, Rest

-----------------------------------------------------------------------------
(***************************************************************************)
(* What the history variables promise.                                     *)
(***************************************************************************)

LEMMA NextRest ==
    ASSUME RestInv, Next
    PROVE  RestInv'
<1>1. CASE up /\ UpStep
    BY <1>1, UpStays DEF RestInv
<1>2. CASE BootStep /\ History
    <2>1. ~up /\ UNCHANGED <<pc, strays>>
        BY <1>2 DEF BootStep, BootDone, BootVisit
    <2> QED
        BY <1>2, <2>1 DEF RestInv, History
<1>3. CASE Crash /\ History
    BY <1>3 DEF Crash, History, RestInv
<1>4. CASE Rest
    BY <1>4 DEF Rest, RestInv, vars
<1> QED
    BY <1>1, <1>2, <1>3, <1>4 DEF Next, Step

LEMMA RestAlone ==
    ASSUME strays = {}, \A a \in Actors : pc[a] = "idle"
    PROVE  ~Overlap
BY KindsApart DEF Overlap, Others, Commits

LEMMA NextApart ==
    ASSUME RestInv, ApartInv, Next
    PROVE  ApartInv'
<1>1. CASE Rest
    BY <1>1 DEF Rest, vars, ApartInv, Overlap, Others, Commits
<1>2. CASE History
    <2>1. CASE up'
        BY <1>2, <2>1 DEF History, ApartInv
    <2>2. CASE ~up'
        <3>1. RestInv'
            BY NextRest
        <3>2. (strays = {} /\ (\A a \in Actors : pc[a] = "idle") => ~Overlap)'
            BY RestAlone, PTL
        <3> QED
            BY <2>2, <3>1, <3>2 DEF RestInv, ApartInv
    <2> QED
        BY <2>1, <2>2
<1> QED
    BY <1>1, <1>2 DEF Next

(***************************************************************************)
(* One accounting section at a time: before a step of it, and after.       *)
(***************************************************************************)
Sections == {"renaming", "renamed", "purging", "abandoned"} \cup Cleaning

LEMMA Alone ==
    ASSUME PlaceInv, LockInv, ~Overlap, NEW a \in Actors, pc[a] \in Sections
    PROVE  \A b \in Actors \ {a} : pc[b] \notin Sections
BY KindsApart DEF PlaceInv, LockInv, Overlap, Others, Commits, Sections, Cleaning

LEMMA AloneNext ==
    ASSUME PlaceInv', LockInv', (~Overlap)', NEW a \in Actors, pc'[a] \in Sections
    PROVE  \A b \in Actors \ {a} : pc'[b] \notin Sections
BY KindsApart DEF PlaceInv, LockInv, Overlap, Others, Commits, Sections, Cleaning

-----------------------------------------------------------------------------
(***************************************************************************)
(* Walks, of init and of the cleaner.                                      *)
(***************************************************************************)

LEMMA StartExact ==
    ASSUME scan' = StartWalk
    PROVE  WalkExact'
<1>1. /\ scan'.left = Keys /\ scan'.found = {} /\ scan'.total = 0 /\ scan'.stuck = {}
      /\ Keys \ Keys = {}
    BY DEF StartWalk
<1>2. Cardinality(BytesOf(files', {})) = 0 /\ FoundOf(files', {}) = {}
    BY BytesNone, FoundNothing
<1> QED
    BY <1>1, <1>2 DEF WalkExact

LEMMA VisitExact ==
    ASSUME TypeOK, WalkExact, NEW k \in Keys, Visit(k), UNCHANGED files
    PROVE  WalkExact'
<1> DEFINE seen == Keys \ scan.left
<1>1. /\ k \in scan.left /\ k \notin seen /\ files \in Disks /\ seen \in SUBSET Keys
    BY DEF Visit, TypeOK, Disks, Walk
<1>2. /\ scan'.left = scan.left \ {k}
      /\ scan'.found = IF files[k] = NoFile THEN scan.found
                       ELSE scan.found \cup {<<k, files[k].len>>}
      /\ scan'.total = scan.total + LenOf(files[k])
      /\ scan'.stuck = {}
    BY DEF Visit, WalkExact
<1>3. Keys \ scan'.left = seen \cup {k}
    BY <1>1, <1>2
<1>4. scan.total = Cardinality(BytesOf(files, seen)) /\ scan.found = FoundOf(files, seen)
    BY DEF WalkExact
<1> HIDE DEF seen
<1>5. scan'.total = Cardinality(BytesOf(files, seen \cup {k}))
    <2>1. LenOf(files[k]) \in Nat /\ scan.total \in Nat
        BY <1>1, LenType DEF Disks, TypeOK, Walk
    <2>2. Cardinality(BytesOf(files, seen \cup {k})) = LenOf(files[k]) + scan.total
        BY <1>1, <1>4, BytesMore
    <2> QED
        BY <1>2, <2>1, <2>2
<1>6. scan'.found = FoundOf(files, seen \cup {k})
    <2>1. FoundOf(files, seen \cup {k})
              = IF files[k] = NoFile THEN FoundOf(files, seen)
                ELSE FoundOf(files, seen) \cup {<<k, files[k].len>>}
        BY <1>1, FoundMore
    <2> QED
        BY <1>2, <1>4, <2>1, Zenon
<1>7. Keys \ scan'.left = seen \cup {k} /\ UNCHANGED files
    BY <1>3
<1> QED
    BY <1>2, <1>5, <1>6, <1>7, Zenon DEF WalkExact

\* While one writer walks alone, nothing on disk changes, and only its walk goes on.
LEMMA WalkAlone ==
    ASSUME TypeOK, PlaceInv, LockInv, ~Overlap, UpStep,
           NEW w \in Writers, pc[w] = "scanning", pc'[w] = "scanning"
    PROVE  UNCHANGED files /\ (UNCHANGED scan \/ \E k \in Keys : Visit(k))
<1> USE KindsApart DEF diskVars, tempVars, lockVars, walkVars, boundVars, Goto, TypeOK
<1>0. /\ w \in Actors /\ pc[w] \in Sections /\ cleanLock = w
      /\ \A b \in Actors \ {w} : pc[b] \notin Sections
    BY Alone DEF Sections, Cleaning, LockInv
<1>1. CASE \E v \in Writers, k \in Keys, len \in Sizes : PutStart(v, k, len)
    BY <1>1 DEF PutStart
<1>2. CASE \E v \in Writers : CommitStep(v)
    <2> PICK v \in Writers : CommitStep(v)
        BY <1>2
    <2>1. ~PutRename(v)
        BY <1>0 DEF PutRename, Sections
    <2> QED
        BY <2>1 DEF CommitStep, PutWritten, Complete, PutWriteFails, PutLock, PutStat,
                    PutRenameFails, PutAccount
<1>3. ASSUME NEW a \in Actors, Unlink(a) \/ UnlinkFails(a) \/ Deduct(a)
      PROVE  FALSE
    BY <1>0, <1>3 DEF Unlink, UnlinkFails, Deduct, Sections, Cleaning
<1>4. CASE \E v \in Writers : CleanStep(v)
    <2> PICK v \in Writers : CleanStep(v)
        BY <1>4
    <2>1. CASE CheckCapacity(v)
        BY <2>1 DEF CheckCapacity
    <2>2. CASE TakeCleanLock(v)
        BY <1>0, <2>2 DEF TakeCleanLock
    <2>3. CASE \E k \in Keys : ScanVisit(v, k)
        BY <2>3 DEF ScanVisit
    <2>4. CASE ScanDone(v)
        <3>1. v = w
            BY <1>0, <2>4 DEF ScanDone, Sections, Cleaning
        <3> QED
            BY <1>0, <2>4, <3>1 DEF ScanDone, Finish, Move
    <2>5. CASE (\E x \in scan.found : EvictNext(v, x)) \/ EvictStop(v)
        BY <1>0, <2>5 DEF EvictNext, EvictStop, Sections, Cleaning
    <2> QED
        BY <1>3, <2>1, <2>2, <2>3, <2>4, <2>5 DEF CleanStep
<1>5. CASE \E r \in Readers : RemoveStep(r) \/ \E k \in Keys : ReadBad(r, k)
    BY <1>3, <1>5 DEF RemoveStep, RemoveStat, ReadBad
<1>6. CASE PurgeStart \/ PurgeStep
    BY <1>0, <1>6 DEF PurgeStart, PurgeStep, PurgeDone, PurgeVisit, PurgeSkip, Sections
<1>7. CASE \E a \in Actors : Drop(a)
    BY <1>0, <1>7 DEF Drop, Move, Finish
<1>8. CASE \E s \in strays : Stray(s) \/ StrayFails(s)
    BY <1>8 DEF Stray, StrayFails, Complete, Overlap
<1> QED
    BY <1>1, <1>2, <1>4, <1>5, <1>6, <1>7, <1>8 DEF UpStep

LEMMA WalkStarts ==
    ASSUME TypeOK, UpStep, NEW w \in Writers, pc[w] # "scanning", pc'[w] = "scanning"
    PROVE  TakeCleanLock(w) /\ scan' = StartWalk
<1> USE KindsApart DEF Goto, Move, Finish, Return, TypeOK
<1>1. ASSUME NEW v \in Writers, CommitStep(v)
      PROVE  FALSE
    BY <1>1 DEF CommitStep, PutWritten, PutWriteFails, PutLock, PutStat, PutRename, PutRenameFails,
                PutAccount
<1>2. ASSUME NEW a \in Actors, Unlink(a) \/ UnlinkFails(a) \/ Deduct(a)
      PROVE  FALSE
    BY <1>2 DEF Unlink, UnlinkFails, Deduct
<1>3. ASSUME NEW v \in Writers, CleanStep(v), ~TakeCleanLock(v)
      PROVE  FALSE
    BY <1>2, <1>3 DEF CleanStep, CheckCapacity, ScanVisit, ScanDone, EvictNext, EvictStop
<1>4. ASSUME NEW r \in Readers, RemoveStep(r) \/ \E k \in Keys : ReadBad(r, k)
      PROVE  FALSE
    BY <1>2, <1>4 DEF RemoveStep, RemoveStat, ReadBad
<1>5. PurgeStart \/ PurgeStep => FALSE
    BY DEF PurgeStart, PurgeStep, PurgeDone, PurgeVisit, PurgeSkip
<1>6. ASSUME NEW a \in Actors, Drop(a)
      PROVE  FALSE
    BY <1>6 DEF Drop
<1>7. ASSUME NEW s \in strays, Stray(s) \/ StrayFails(s)
      PROVE  FALSE
    BY <1>7 DEF Stray, StrayFails
<1>8. \A v \in Writers, k \in Keys, len \in Sizes : ~PutStart(v, k, len)
    BY DEF PutStart
<1>9. PICK v \in Writers : TakeCleanLock(v)
    BY <1>1, <1>3, <1>4, <1>5, <1>6, <1>7, <1>8 DEF UpStep
<1> QED
    BY <1>9 DEF TakeCleanLock

LEMMA NextWalk ==
    ASSUME TypeOK, PlaceInv, LockInv, RestInv, ApartInv, WalkInv, Next
    PROVE  WalkInv'
<1>1. CASE Rest
    BY <1>1 DEF Rest, vars, WalkInv, WalkExact, Scanning
<1>2. CASE Crash
    BY <1>2, StartExact DEF Crash, WalkInv
<1>3. CASE BootStep
    <2>1. ~up /\ WalkExact /\ ~Scanning'
        BY <1>3, KindsApart DEF BootStep, BootDone, BootVisit, WalkInv, RestInv, Scanning
    <2>2. CASE BootDone
        BY <2>1, <2>2 DEF BootDone, WalkInv
    <2>3. CASE \E k \in Keys : BootVisit(k)
        BY <2>1, <2>3, VisitExact DEF BootVisit, WalkInv
    <2> QED
        BY <1>3, <2>2, <2>3 DEF BootStep
<1>4. CASE up /\ UpStep /\ History
    <2> SUFFICES ASSUME calm', NEW w \in Writers, pc'[w] = "scanning"
                 PROVE  WalkExact'
        BY <1>4, UpStays DEF WalkInv, Scanning
    <2>1. CASE pc[w] # "scanning"
        BY <1>4, <2>1, WalkStarts, StartExact
    <2>2. CASE pc[w] = "scanning"
        <3>1. ~\E v \in Writers : TakeCleanLock(v)
            BY <2>2, KindsApart DEF TakeCleanLock, LockInv, Cleaning
        <3>2. calm /\ ~Overlap
            BY <1>4, <3>1 DEF History, ApartInv
        <3>3. UNCHANGED files /\ (UNCHANGED scan \/ \E k \in Keys : Visit(k))
            BY <1>4, <2>2, <3>2, WalkAlone
        <3>4. WalkExact
            BY <2>2, <3>2 DEF WalkInv, Scanning
        <3> QED
            BY <3>3, <3>4, VisitExact DEF WalkExact
    <2> QED
        BY <2>1, <2>2
<1> QED
    BY <1>1, <1>2, <1>3, <1>4 DEF Next, Step

-----------------------------------------------------------------------------
(***************************************************************************)
(* The tracked size, over a step that keeps it exact.                      *)
(***************************************************************************)
Accounts == Settled /\ \A a \in Actors : Dues(a) /\ Finds(a)

\* What is known when exact was and stays true.
Before == TypeOK /\ NamesInv /\ PlaceInv /\ LockInv /\ LenInv /\ ~Overlap /\ Accounts

After ==
    /\ PlaceInv' /\ LockInv' /\ (~Overlap)'
    /\ calm \/ (\E w \in Writers : TakeCleanLock(w)) => calm'

\* One actor moves to or between places that no accounting is due at.
LEMMA AsideSize ==
    ASSUME Accounts, NEW a \in Actors,
           UNCHANGED <<files, size, purge>>,
           \A b \in Actors \ {a} : pc'[b] = pc[b] /\ job'[b] = job[b],
           pc[a] \notin Unsettled, pc'[a] \notin Sections,
           UNCHANGED scan \/ \A b \in Writers \ {a} : pc[b] \notin Cleaning,
           calm => calm'
    PROVE  Accounts'
<1>1. Settled'
    BY DEF Accounts, Settled, Unsettled, Total
<1>2. Dues(a)' /\ Finds(a)'
    BY DEF Dues, Finds, Sections, Cleaning
<1>3. \A b \in Actors \ {a} : Dues(b)' /\ Finds(b)'
    <2> TAKE b \in Actors \ {a}
    <2>1. Dues(b) /\ Finds(b) /\ pc'[b] = pc[b] /\ job'[b] = job[b]
        BY DEF Accounts
    <2>2. Dues(b)'
        BY <2>1 DEF Dues, Total
    <2>3. Finds(b)'
        BY <2>1 DEF Finds, Untried, Cleaning
    <2> QED
        BY <2>2, <2>3
<1> QED
    BY <1>1, <1>2, <1>3 DEF Accounts

\* One actor moves in its section, and nobody else is in one.
LEMMA SectionSize ==
    ASSUME NEW a \in Actors,
           \A b \in Actors \ {a} : pc'[b] \notin Sections,
           Dues(a)', Finds(a)',
           pc'[a] \notin Unsettled => size' = Total'
    PROVE  Accounts'
<1>1. Settled'
    BY DEF Settled
<1>2. \A b \in Actors \ {a} : Dues(b)' /\ Finds(b)'
    BY DEF Dues, Finds, Sections, Cleaning
<1> QED
    BY <1>1, <1>2 DEF Accounts

\* Nobody else is in a section when one actor is, or is about to be.
LEMMA OnlyOne ==
    ASSUME Before, After, NEW a \in Actors,
           \A b \in Actors \ {a} : pc'[b] = pc[b],
           pc[a] \in Sections \/ pc'[a] \in Sections
    PROVE  /\ \A b \in Actors \ {a} : pc[b] \notin Sections /\ pc'[b] \notin Sections
           /\ pc[a] \notin Unsettled => size = Total
<1>1. \A b \in Actors \ {a} : pc[b] \notin Sections /\ pc'[b] \notin Sections
    BY Alone, AloneNext DEF Before, After
<1>2. \A b \in Actors \ {a} : pc[b] \notin Unsettled
    BY <1>1 DEF Unsettled, Sections, Cleaning
<1> QED
    BY <1>1, <1>2 DEF Before, Accounts, Settled

LEMMA CommitSize ==
    ASSUME Before, After, NEW w \in Writers, CommitStep(w)
    PROVE  Accounts'
<1> USE DEF diskVars, tempVars, lockVars, walkVars, boundVars
<1> DEFINE k == job[w].key
           old == job[w].old
           f == temps[job[w].name]
<1>0. /\ w \in Actors /\ TypeOK /\ Accounts /\ Dues(w) /\ Finds(w)
      /\ k \in Keys /\ files \in Disks /\ size \in Nat /\ old \in Nat /\ job[w].len \in Nat
    BY KindsApart DEF Before, Accounts, TypeOK, JobRecord, Disks
<1>1. CASE PutWritten(w) \/ PutWriteFails(w) \/ PutLock(w) \/ PutRenameFails(w)
    <2>1. /\ \A b \in Actors \ {w} : pc'[b] = pc[b] /\ job'[b] = job[b]
          /\ UNCHANGED <<files, size, purge, scan>>
          /\ pc[w] \notin Unsettled /\ pc'[w] \notin Sections
        BY <1>0, <1>1 DEF PutWritten, Complete, PutWriteFails, PutLock, PutRenameFails, Goto, Move, Finish,
                          Unsettled, Sections, Cleaning, TypeOK
    <2> QED
        BY <1>0, <2>1, AsideSize DEF After
<1>2. CASE PutStat(w)
    <2>1. /\ \A b \in Actors \ {w} : pc'[b] = pc[b]
          /\ pc[w] = "locked" /\ pc'[w] = "renaming"
          /\ job'[w].key = k /\ job'[w].old = LenOf(files[k])
          /\ UNCHANGED <<files, size>>
        BY <1>0, <1>2 DEF PutStat, Goto, TypeOK, JobRecord
    <2>2. /\ \A b \in Actors \ {w} : pc'[b] \notin Sections
          /\ size = Total
        BY <1>0, <2>1, OnlyOne DEF Sections, Unsettled
    <2>3. Dues(w)' /\ Finds(w)'
        BY <2>1 DEF Dues, Finds
    <2> QED
        BY <1>0, <2>1, <2>2, <2>3, SectionSize DEF Total
<1>3. CASE PutRename(w)
    <2>1. /\ \A b \in Actors \ {w} : pc'[b] = pc[b]
          /\ pc[w] = "renaming" /\ pc'[w] = "renamed" /\ UNCHANGED <<job, size>>
          /\ f # NoFile /\ files' = [files EXCEPT ![k] = f]
        BY <1>0, <1>3 DEF PutRename, Rename, Move, Goto, TypeOK
    <2>2. /\ \A b \in Actors \ {w} : pc'[b] \notin Sections
          /\ size = Total
        BY <1>0, <2>1, OnlyOne DEF Sections, Unsettled
    <2>3. f \in File /\ LenOf(f) = job[w].len
        BY <1>0, <2>1 DEF Before, LenInv, NamesInv, Claimed, TempStages, TypeOK, LenOf
    <2>4. /\ Total \in Nat /\ Total' \in Nat /\ LenOf(files[k]) <= Total
          /\ Total' + LenOf(files[k]) = Total + LenOf(f)
        BY <1>0, <2>1, <2>3, BytesReplace DEF Total
    <2>5. old = LenOf(files[k])
        BY <1>0, <2>1 DEF Dues
    <2>6. Total' + old = size + job[w].len /\ old <= size
        BY <2>2, <2>3, <2>4, <2>5
    <2>7. Dues(w)' /\ Finds(w)'
        BY <2>1, <2>6 DEF Dues, Finds
    <2> QED
        BY <1>0, <2>1, <2>2, <2>7, SectionSize DEF Unsettled
<1>4. CASE PutAccount(w)
    <2>1. /\ \A b \in Actors \ {w} : pc'[b] = pc[b]
          /\ pc[w] = "renamed" /\ pc'[w] = "check" /\ UNCHANGED files
          /\ size' = Less(size, old) + job[w].len
        BY <1>0, <1>4 DEF PutAccount, Move, Goto, TypeOK
    <2>2. \A b \in Actors \ {w} : pc'[b] \notin Sections
        BY <1>0, <2>1, OnlyOne DEF Sections
    <2>3. Total + old = size + job[w].len /\ old <= size
        BY <1>0, <2>1 DEF Dues
    <2>4. Total \in Nat
        BY <1>0, BytesFinite, FS_CardinalityType DEF Total
    <2>5. size' = Total'
        BY <1>0, <2>1, <2>3, <2>4 DEF Less, Total
    <2>6. Dues(w)' /\ Finds(w)'
        BY <2>1 DEF Dues, Finds
    <2> QED
        BY <1>0, <2>2, <2>5, <2>6, SectionSize
<1> QED
    BY <1>1, <1>2, <1>3, <1>4 DEF CommitStep

\* A removal by the cleaner, which then goes on with its list, or by a reader.
LEMMA UnlinkSize ==
    ASSUME Before, After, NEW a \in Actors, a # Purger,
           Unlink(a) \/ UnlinkFails(a) \/ Deduct(a)
    PROVE  Accounts'
<1> USE DEF diskVars, tempVars, lockVars, walkVars, boundVars
<1> DEFINE k == job[a].key
           old == job[a].old
<1>0. /\ TypeOK /\ Accounts /\ Dues(a) /\ Finds(a)
      /\ k \in Keys /\ files \in Disks /\ size \in Nat /\ old \in Nat
      /\ Total \in Nat /\ Untried \in SUBSET Keys
    BY BytesFinite, FS_CardinalityType DEF Before, Accounts, TypeOK, JobRecord, Disks, Total, Untried
<1>1. /\ \A b \in Actors \ {a} : pc'[b] = pc[b]
      /\ pc[a] \in {"unlinking", "unlinked"}
      /\ pc'[a] \in {"idle", "evicting", "unlinked"}
      /\ pc'[a] = "evicting" => a \in Writers
      /\ ~UnlinkFails(a) => UNCHANGED scan /\ Untried' = Untried
    BY <1>0 DEF Unlink, UnlinkFails, Deduct, Return, Move, Finish, Goto, TypeOK, Untried
<1>2. /\ \A b \in Actors \ {a} : pc'[b] \notin Sections
      /\ pc[a] = "unlinking" => size = Total
    BY <1>1, OnlyOne DEF Sections, Cleaning, Unsettled
<1>3. CASE Unlink(a) /\ files[k] = NoFile
    <2>1. /\ pc[a] = "unlinking" /\ UNCHANGED <<files, size, scan>> /\ Untried' = Untried
          /\ pc'[a] \in {"idle", "evicting"}
        BY <1>0, <1>3 DEF Unlink, Return, Move, Finish, Goto, TypeOK, Untried
    <2>2. pc'[a] = "evicting" => scan.found = FoundOf(files, Untried)
        BY <1>0, <1>1, <1>3, <2>1, FoundLess DEF Finds
    <2>3. Dues(a)' /\ Finds(a)'
        BY <1>1, <2>1, <2>2 DEF Dues, Finds
    <2> QED
        BY <1>2, <2>1, <2>3, SectionSize DEF Total
<1>4. CASE Unlink(a) /\ files[k] # NoFile
    <2>1. /\ pc[a] = "unlinking" /\ pc'[a] = "unlinked" /\ UNCHANGED <<job, size, scan>>
          /\ files' = [files EXCEPT ![k] = NoFile] /\ Untried' = Untried
        BY <1>0, <1>4 DEF Unlink, Move, Goto, TypeOK, Untried
    <2>2. LenOf(files[k]) = old /\ LenOf(NoFile) = 0
        BY <1>0, <1>4, <2>1 DEF Dues, LenOf
    <2>3. Total' \in Nat /\ Total' + old = Total
        <3>1. NoFile \in File \cup {NoFile}
            OBVIOUS
        <3>2. Total' \in Nat /\ Total' + LenOf(files[k]) = Total + LenOf(NoFile)
            BY <1>0, <2>1, <3>1, BytesReplace DEF Total
        <3> QED
            BY <1>0, <2>2, <3>2
    <2>4. a \in Writers => scan.found = FoundOf(files', Untried)
        BY <1>0, <2>1, FoundLess DEF Finds
    <2>5. Dues(a)' /\ Finds(a)'
        BY <1>1, <1>2, <2>1, <2>3, <2>4 DEF Dues, Finds
    <2> QED
        BY <1>2, <2>1, <2>5, SectionSize DEF Unsettled
<1>5. CASE Deduct(a)
    <2>1. /\ pc[a] = "unlinked" /\ pc'[a] \in {"idle", "evicting"}
          /\ size' = Less(size, old) /\ UNCHANGED <<files, scan>> /\ Untried' = Untried
        BY <1>0, <1>5 DEF Deduct, Return, Move, Finish, Goto, TypeOK, Untried
    <2>2. size = Total + old
        BY <1>0, <2>1 DEF Dues
    <2>3. size' = Total'
        BY <1>0, <2>1, <2>2 DEF Less, Total
    <2>4. Dues(a)' /\ Finds(a)'
        BY <1>0, <1>1, <2>1 DEF Dues, Finds
    <2> QED
        BY <1>2, <2>3, <2>4, SectionSize
<1>6. CASE UnlinkFails(a)
    <2>1. /\ pc[a] = "unlinking" /\ UNCHANGED <<files, size>>
          /\ pc'[a] \in {"idle", "evicting"}
        BY <1>0, <1>6 DEF UnlinkFails, Return, Move, Finish, Goto, TypeOK
    <2>2. a \in Writers => scan'.found = scan.found /\ Untried' = Untried \ {k}
        BY <1>0, <1>6 DEF UnlinkFails, Untried, TypeOK, Walk
    <2>3. Dues(a)' /\ Finds(a)'
        BY <1>0, <1>1, <2>1, <2>2 DEF Dues, Finds
    <2> QED
        BY <1>2, <2>1, <2>3, SectionSize DEF Total
<1> QED
    BY <1>3, <1>4, <1>5, <1>6

LEMMA StartSize ==
    ASSUME Before, After, NEW w \in Writers, NEW k \in Keys, NEW len \in Sizes, PutStart(w, k, len)
    PROVE  Accounts'
<1> USE DEF walkVars
<1>0. w \in Actors /\ TypeOK
    BY KindsApart DEF Before
<1>1. /\ \A b \in Actors \ {w} : pc'[b] = pc[b] /\ job'[b] = job[b]
      /\ UNCHANGED <<files, size, purge, scan>>
      /\ pc[w] \notin Unsettled /\ pc'[w] \notin Sections
    BY <1>0 DEF PutStart, Goto, Unsettled, Sections, Cleaning, TypeOK
<1> QED
    BY <1>0, <1>1, AsideSize DEF Before, After

LEMMA CleanSize ==
    ASSUME Before, After, NEW w \in Writers, CleanStep(w), ~ScanDone(w)
    PROVE  Accounts'
<1> USE DEF diskVars, tempVars, lockVars, walkVars, boundVars
<1>0. /\ w \in Actors /\ w # Purger /\ TypeOK /\ Accounts /\ Dues(w) /\ Finds(w)
      /\ files \in Disks
    BY KindsApart DEF Before, Accounts, TypeOK, Disks
<1>1. CASE CheckCapacity(w)
    <2>1. /\ \A b \in Actors \ {w} : pc'[b] = pc[b] /\ job'[b] = job[b]
          /\ UNCHANGED <<files, size, purge, scan>>
          /\ pc[w] \notin Unsettled /\ pc'[w] \notin Sections
        BY <1>0, <1>1 DEF CheckCapacity, Goto, Move, Finish, Unsettled, Sections, Cleaning, TypeOK
    <2> QED
        BY <1>0, <2>1, AsideSize DEF After
<1>2. CASE TakeCleanLock(w)
    <2>1. /\ \A b \in Actors \ {w} : pc'[b] = pc[b] /\ job'[b] = job[b]
          /\ UNCHANGED <<files, size, purge>>
          /\ pc[w] = "full" /\ pc'[w] \in {"idle", "scanning"}
          /\ pc'[w] = "idle" => UNCHANGED scan
        BY <1>0, <1>2 DEF TakeCleanLock, Goto, Move, Finish, TypeOK
    <2>2. CASE pc'[w] = "idle"
        BY <1>0, <2>1, <2>2, AsideSize DEF After, Unsettled, Sections, Cleaning
    <2>3. CASE pc'[w] = "scanning"
        <3>1. /\ \A b \in Actors \ {w} : pc'[b] \notin Sections
              /\ size = Total
            BY <1>0, <2>1, <2>3, OnlyOne DEF Sections, Cleaning, Unsettled
        <3>2. Dues(w)' /\ Finds(w)'
            BY <1>2, <2>3 DEF Dues, Finds, After
        <3> QED
            BY <1>0, <2>1, <3>1, <3>2, SectionSize DEF Total
    <2> QED
        BY <2>1, <2>2, <2>3
<1>3. CASE \E k \in Keys : ScanVisit(w, k)
    <2>1. /\ pc[w] = "scanning" /\ UNCHANGED <<pc, files, size>>
        BY <1>3 DEF ScanVisit
    <2>2. /\ \A b \in Actors \ {w} : pc'[b] \notin Sections
          /\ size = Total
        BY <1>0, <2>1, OnlyOne DEF Sections, Cleaning, Unsettled
    <2>3. Dues(w)' /\ Finds(w)'
        BY <1>0, <2>1 DEF Dues, Finds, After
    <2> QED
        BY <1>0, <2>1, <2>2, <2>3, SectionSize DEF Total
<1>4. CASE \E x \in scan.found : EvictNext(w, x)
    <2> PICK x \in scan.found : EvictNext(w, x)
        BY <1>4
    <2>1. /\ \A b \in Actors \ {w} : pc'[b] = pc[b]
          /\ pc[w] = "evicting" /\ pc'[w] = "unlinking"
          /\ UNCHANGED <<files, size>>
          /\ job'[w].key = x[1] /\ job'[w].old = x[2]
          /\ scan'.found = scan.found \ {x}
          /\ Untried' = Untried /\ Untried \in SUBSET Keys
        BY <1>0 DEF EvictNext, Goto, TypeOK, JobRecord, Walk, Untried
    <2>2. /\ \A b \in Actors \ {w} : pc'[b] \notin Sections
          /\ size = Total
        BY <1>0, <2>1, OnlyOne DEF Sections, Cleaning, Unsettled
    <2>3. scan.found = FoundOf(files, Untried)
        BY <1>0, <2>1 DEF Finds
    <2>9. x \in FoundOf(files, Untried)
        BY <2>3
    <2>4. PICK k \in Keys : x = <<k, files[k].len>> /\ files[k] # NoFile
        <3>1. PICK k \in {j \in Untried : files[j] # NoFile} : x = <<k, files[k].len>>
            BY ONLY <2>9, Zenon DEF FoundOf
        <3> QED
            BY ONLY <2>1, <3>1
    <2>5. FoundOf(files, Untried) \ {x} = FoundOf(files, Untried \ {k})
        <3>1. /\ files \in Disks
              /\ Untried \in SUBSET Keys
            BY <1>0, <2>1 DEF TypeOK
        <3>2. FoundOf(files, Untried) \ {<<k, files[k].len>>} = FoundOf(files, Untried \ {k})
            BY ONLY <2>4, <3>1, FoundRest
        <3> QED
            BY ONLY <2>4, <3>2, Zenon
    <2>6. scan'.found = FoundOf(files, Untried \ {k})
        BY <2>1, <2>3, <2>5, Zenon
    <2>7. job'[w].key = k /\ job'[w].old = files[k].len
        BY <2>1, <2>4
    <2>8. Dues(w)' /\ Finds(w)'
        BY <2>1, <2>6, <2>7 DEF Dues, Finds
    <2> QED
        BY <1>0, <2>1, <2>2, <2>8, SectionSize DEF Total
<1>5. CASE EvictStop(w)
    <2>1. /\ \A b \in Actors \ {w} : pc'[b] = pc[b] /\ job'[b] = job[b]
          /\ UNCHANGED <<files, size, purge>>
          /\ pc[w] = "evicting" /\ pc'[w] = "idle"
        BY <1>0, <1>5 DEF EvictStop, Goto, Finish, TypeOK
    <2>2. \A b \in Writers \ {w} : pc[b] \notin Cleaning
        BY <1>0, <2>1, OnlyOne, KindsApart DEF Sections, Cleaning
    <2> QED
        BY <1>0, <2>1, <2>2, AsideSize DEF After, Unsettled, Sections, Cleaning
<1> QED
    BY <1>0, <1>1, <1>2, <1>3, <1>4, <1>5, UnlinkSize DEF CleanStep

LEMMA ReaderSize ==
    ASSUME Before, After, NEW r \in Readers, RemoveStep(r) \/ \E k \in Keys : ReadBad(r, k)
    PROVE  Accounts'
<1> USE DEF diskVars, tempVars, walkVars
<1>0. r \in Actors /\ r # Purger /\ r \notin Writers /\ TypeOK /\ Accounts
    BY KindsApart DEF Before
<1>1. CASE (\E k \in Keys : ReadBad(r, k)) \/ (RemoveStat(r) /\ files[job[r].key] = NoFile)
    <2>1. /\ \A b \in Actors \ {r} : pc'[b] = pc[b] /\ job'[b] = job[b]
          /\ UNCHANGED <<files, size, purge, scan>>
          /\ pc[r] \notin Unsettled /\ pc'[r] \notin Sections
        BY <1>0, <1>1 DEF ReadBad, RemoveStat, Goto, Finish, Unsettled, Sections, Cleaning, TypeOK
    <2> QED
        BY <1>0, <2>1, AsideSize DEF After
<1>2. CASE RemoveStat(r) /\ files[job[r].key] # NoFile
    <2>1. /\ \A b \in Actors \ {r} : pc'[b] = pc[b]
          /\ pc[r] = "bad" /\ pc'[r] = "unlinking"
          /\ UNCHANGED <<files, size>>
          /\ job'[r].key = job[r].key /\ job'[r].old = files[job[r].key].len
        BY <1>0, <1>2 DEF RemoveStat, Goto, TypeOK, JobRecord
    <2>2. /\ \A b \in Actors \ {r} : pc'[b] \notin Sections
          /\ size = Total
        BY <1>0, <2>1, OnlyOne DEF Sections, Cleaning, Unsettled
    <2>3. Dues(r)' /\ Finds(r)'
        BY <1>0, <2>1 DEF Dues, Finds
    <2> QED
        BY <1>0, <2>1, <2>2, <2>3, SectionSize DEF Total
<1> QED
    BY <1>0, <1>1, <1>2, UnlinkSize DEF RemoveStep

LEMMA PurgeSize ==
    ASSUME Before, After, ~Skipped, PurgeStart \/ PurgeStep
    PROVE  Accounts'
<1> USE DEF diskVars, tempVars, lockVars, walkVars, boundVars
<1>0. /\ Purger \in Actors /\ Purger \notin Writers /\ TypeOK /\ Accounts /\ Dues(Purger)
      /\ pc[Purger] # "abandoned"
    BY KindsApart DEF Before, Accounts, Dues
<1>1. \A b \in Actors \ {Purger} : pc'[b] = pc[b]
    BY <1>0 DEF PurgeStart, PurgeStep, PurgeDone, PurgeVisit, PurgeSkip, Goto, TypeOK
<1>2. CASE PurgeStart
    <2>1. pc'[Purger] = "purging" /\ \A k \in Keys : <<k, "record">> \in purge'
        BY <1>0, <1>2 DEF PurgeStart, Goto, TypeOK
    <2>2. \A b \in Actors \ {Purger} : pc'[b] \notin Sections
        BY <1>0, <1>1, <2>1, OnlyOne DEF Sections
    <2>3. Dues(Purger)' /\ Finds(Purger)'
        BY <1>0, <2>1 DEF Dues, Finds
    <2> QED
        BY <1>0, <2>1, <2>2, <2>3, SectionSize DEF Unsettled
<1>3. CASE \E x \in purge : PurgeVisit(x)
    <2> PICK x \in purge : PurgeVisit(x)
        BY <1>3
    <2>1. pc[Purger] = "purging" /\ pc'[Purger] = "purging" /\ purge' = purge \ {x}
        BY <1>0 DEF PurgeVisit
    <2>2. \A b \in Actors \ {Purger} : pc'[b] \notin Sections
        BY <1>0, <1>1, <2>1, OnlyOne DEF Sections
    <2>3. \A k \in Keys : <<k, "record">> \notin purge' => files'[k] = NoFile
        BY <1>0, <2>1 DEF PurgeVisit, Dues, TypeOK
    <2>4. Dues(Purger)' /\ Finds(Purger)'
        BY <1>0, <2>1, <2>3 DEF Dues, Finds
    <2> QED
        BY <1>0, <2>1, <2>2, <2>4, SectionSize DEF Unsettled
<1>4. CASE PurgeDone
    <2>1. /\ pc[Purger] = "purging" /\ pc'[Purger] = "idle" /\ purge = {}
          /\ size' = 0 /\ UNCHANGED files
        BY <1>0, <1>4 DEF PurgeDone, Goto, TypeOK
    <2>2. \A b \in Actors \ {Purger} : pc'[b] \notin Sections
        BY <1>0, <1>1, <2>1, OnlyOne DEF Sections
    <2>3. \A k \in Keys : files[k] = NoFile
        BY <1>0, <2>1 DEF Dues
    <2>4. size' = Total'
        BY <2>1, <2>3, BytesNone DEF Total
    <2>5. Dues(Purger)' /\ Finds(Purger)'
        BY <1>0, <2>1 DEF Dues, Finds
    <2> QED
        BY <1>0, <2>2, <2>4, <2>5, SectionSize
<1>5. CASE \E x \in purge : PurgeSkip(x)
    <2> PICK x \in purge : PurgeSkip(x)
        BY <1>5
    <2>1. /\ pc[Purger] = "purging" /\ pc'[Purger] = "purging" /\ purge' = purge \ {x}
          /\ x[2] # "record" /\ UNCHANGED files
        BY <1>0 DEF PurgeSkip, Skipped
    <2>2. \A b \in Actors \ {Purger} : pc'[b] \notin Sections
        BY <1>0, <1>1, <2>1, OnlyOne DEF Sections
    <2>3. \A k \in Keys : <<k, "record">> \notin purge' => files'[k] = NoFile
        BY <1>0, <2>1 DEF Dues
    <2>4. Dues(Purger)' /\ Finds(Purger)'
        BY <1>0, <2>1, <2>3 DEF Dues, Finds
    <2> QED
        BY <1>0, <2>1, <2>2, <2>4, SectionSize DEF Unsettled
<1> QED
    BY <1>2, <1>3, <1>4, <1>5 DEF PurgeStep

\* Who is dropped in a section takes exactness along: Lost.
LEMMA DropSize ==
    ASSUME Before, After, NEW a \in Actors, Drop(a), ~Lost
    PROVE  Accounts'
<1> USE DEF diskVars, tempVars, boundVars
<1>0. TypeOK /\ Accounts /\ PlaceInv /\ LockInv
    BY DEF Before
<1>1. pc[a] \notin Sections
    BY <1>0, KindsApart DEF Lost, Others, Commits, Sections, Cleaning, PlaceInv
<1>2. a # Purger
    BY <1>0, <1>1 DEF Drop, PlaceInv, Sections
<1>3. /\ \A b \in Actors \ {a} : pc'[b] = pc[b] /\ job'[b] = job[b]
      /\ pc'[a] = "idle" /\ UNCHANGED <<files, size, purge>>
    BY <1>0, <1>2 DEF Drop, Finish, Goto, TypeOK
<1>4. UNCHANGED scan \/ \A b \in Writers \ {a} : pc[b] \notin Cleaning
    BY <1>0 DEF Drop, LockInv
<1>5. pc[a] \notin Unsettled /\ pc'[a] \notin Sections
    BY <1>1, <1>3 DEF Unsettled, Sections, Cleaning
<1> QED
    BY <1>0, <1>3, <1>4, <1>5, AsideSize DEF After

\* Only writes are under way without a caller.
LEMMA StraySize ==
    ASSUME Before, After, NEW s \in strays, Stray(s) \/ StrayFails(s)
    PROVE  Accounts'
<1> USE DEF diskVars, tempVars, lockVars, walkVars
<1>1. UNCHANGED <<files, size, purge, scan, pc, job>>
    BY DEF Before, Overlap, Stray, StrayFails, Complete
<1>2. Settled' /\ \A b \in Actors : Dues(b)' /\ Finds(b)'
    BY <1>1 DEF Before, After, Accounts, Settled, Dues, Finds, Untried, Total
<1> QED
    BY <1>2 DEF Accounts

(***************************************************************************)
(* A walk that ran alone makes the size exact, whatever it was before.     *)
(***************************************************************************)
LEMMA WalkedSize ==
    ASSUME TypeOK, PlaceInv, LockInv, ~Overlap, WalkExact, NEW w \in Writers, ScanDone(w)
    PROVE  Accounts'
<1> USE DEF diskVars, tempVars, lockVars
<1>0. w \in Actors
    BY KindsApart
<1>1. /\ \A b \in Actors \ {w} : pc'[b] = pc[b]
      /\ pc[w] = "scanning" /\ pc'[w] \in {"idle", "evicting"}
      /\ pc'[w] = "evicting" => UNCHANGED scan
      /\ UNCHANGED files /\ scan.left = {} /\ size' = scan.total
    BY <1>0 DEF ScanDone, Move, Finish, Goto, TypeOK
<1>2. \A b \in Actors \ {w} : pc'[b] \notin Sections
    BY <1>0, <1>1, Alone DEF Sections, Cleaning
<1>3. Keys \ scan.left = Keys
    BY <1>1
<1>4. size' = Total' /\ scan.found = FoundOf(files, Keys) /\ scan.stuck = {}
    BY <1>1, <1>3, Zenon DEF WalkExact, Total
<1>6. pc'[w] = "evicting" => Untried' = Keys
    BY <1>1, <1>4 DEF Untried
<1>5. Dues(w)' /\ Finds(w)'
    BY <1>1, <1>4, <1>6 DEF Dues, Finds
<1> QED
    BY <1>0, <1>2, <1>4, <1>5, SectionSize

LEMMA BootSize ==
    ASSUME RestInv, WalkInv, ~up, BootDone
    PROVE  Accounts'
<1>1. /\ scan.left = {} /\ size' = scan.total /\ UNCHANGED files
      /\ \A a \in Actors : pc'[a] = "idle"
    BY DEF BootDone, diskVars, RestInv
<1>2. Keys \ scan.left = Keys
    BY <1>1
<1>3. size' = Total'
    BY <1>1, <1>2, Zenon DEF WalkInv, WalkExact, Total
<1> QED
    BY <1>1, <1>3 DEF Accounts, Settled, Dues, Finds

LEMMA UpSize ==
    ASSUME Before, After, UpStep, ~Lost, ~Skipped, ~Walked
    PROVE  Accounts'
<1>1. \A w \in Writers : ~ScanDone(w)
    BY DEF Walked
<1>2. \A a \in Actors : Drop(a) => Accounts'
    BY DropSize
<1> QED
    BY <1>1, <1>2, StartSize, CommitSize, CleanSize, ReaderSize, PurgeSize, StraySize DEF UpStep

LEMMA NextSize ==
    ASSUME IInv, AccInv, Next, PlaceInv', LockInv', ApartInv'
    PROVE  SizeInv'
<1> USE DEF IInv, AccInv
<1>1. CASE Rest
    BY <1>1 DEF Rest, vars, SizeInv, Settled, Dues, Finds, Untried, Total
<1>2. CASE Crash
    BY <1>2 DEF Crash, SizeInv
<1>3. CASE BootStep
    <2>1. ~up
        BY <1>3 DEF BootStep, BootDone, BootVisit
    <2>2. CASE BootDone
        BY <2>1, <2>2, BootSize DEF SizeInv, Accounts
    <2>3. CASE \E k \in Keys : BootVisit(k)
        BY <2>1, <2>3 DEF BootVisit, SizeInv
    <2> QED
        BY <1>3, <2>2, <2>3 DEF BootStep
<1>4. CASE up /\ UpStep /\ History
    <2> SUFFICES ASSUME exact' PROVE Accounts'
        BY DEF SizeInv, Accounts
    <2>1. /\ up' /\ (~Overlap)' /\ ~Lost /\ ~Skipped /\ (exact \/ (Walked /\ calm))
          /\ calm \/ (\E w \in Writers : TakeCleanLock(w)) => calm'
        BY <1>4, UpStays DEF History
    <2>2. ~Overlap
        BY <2>1 DEF ApartInv
    <2>3. exact => Accounts
        BY <1>4 DEF SizeInv, Accounts
    <2>4. CASE Walked
        <3> PICK w \in Writers : ScanDone(w)
            BY <2>4 DEF Walked
        <3>1. pc[w] = "scanning" /\ w \in Actors
            BY KindsApart DEF ScanDone
        <3>2. calm
            BY <2>1, <2>3, <3>1 DEF Accounts, Finds
        <3>3. WalkExact
            BY <3>1, <3>2 DEF WalkInv, Scanning
        <3> QED
            BY <2>2, <3>3, WalkedSize
    <2>5. CASE ~Walked
        <3>1. Before /\ After
            BY <2>1, <2>2, <2>3, <2>5 DEF Before, After
        <3> QED
            BY <1>4, <2>1, <2>5, <3>1, UpSize
    <2> QED
        BY <2>4, <2>5
<1> QED
    BY <1>1, <1>2, <1>3, <1>4 DEF Next, Step

-----------------------------------------------------------------------------
LEMMA InitAcc == Init => AccInv
<1> SUFFICES ASSUME Init PROVE AccInv
    OBVIOUS
<1>1. \A a \in Actors : pc[a] = "idle"
    BY DEF Init
<1>2. PlaceInv /\ LockInv /\ LenInv /\ RestInv
    BY <1>1, KindsApart DEF Init, PlaceInv, LockInv, LenInv, RestInv, Cleaning, TempStages
<1>3. ApartInv
    BY <1>1, RestAlone DEF Init, ApartInv
<1>4. WalkInv
    <2>1. /\ scan.left = Keys /\ scan.found = {} /\ scan.total = 0 /\ scan.stuck = {}
          /\ Keys \ Keys = {}
        BY DEF Init, StartWalk
    <2>2. Cardinality(BytesOf(files, {})) = 0 /\ FoundOf(files, {}) = {}
        BY BytesNone, FoundNothing
    <2> QED
        BY <2>1, <2>2 DEF WalkInv, WalkExact
<1>5. SizeInv
    BY DEF Init, SizeInv
<1> QED
    BY <1>2, <1>3, <1>4, <1>5 DEF AccInv

LEMMA NextAcc == IInv /\ AccInv /\ [Next]_vars => AccInv'
<1> SUFFICES ASSUME IInv, AccInv, [Next]_vars PROVE AccInv'
    OBVIOUS
<1>1. PlaceInv' /\ LockInv' /\ LenInv'
    BY NextPlaces DEF IInv, AccInv
<1>2. CASE UNCHANGED vars
    <2>1. RestInv' /\ ApartInv' /\ WalkInv'
        BY <1>2 DEF vars, AccInv, RestInv, ApartInv, Overlap, Others, Commits, WalkInv, WalkExact,
                    Scanning
    <2>2. SizeInv'
        BY <1>2 DEF vars, AccInv, SizeInv, Settled, Dues, Finds, Untried, Total
    <2> QED
        BY <1>1, <2>1, <2>2 DEF AccInv
<1>3. CASE Next
    <2>1. RestInv' /\ ApartInv' /\ WalkInv'
        BY <1>3, NextRest, NextApart, NextWalk DEF IInv, AccInv
    <2> QED
        BY <1>1, <1>3, <2>1, NextSize DEF AccInv
<1> QED
    BY <1>2, <1>3

THEOREM AccInvHolds == Spec => []AccInv
<1>1. Init => AccInv
    BY InitAcc
<1>2. IInv /\ AccInv /\ [Next]_vars => AccInv'
    BY NextAcc
<1> QED
    BY <1>1, <1>2, IInvHolds, PTL DEF Spec

(***************************************************************************)
(* Whenever no accounting section is open and exact holds, CURRENT_SIZE is *)
(* the number of bytes on disk: through concurrent commits of one key,     *)
(* removals, eviction, purges, drops, failures, crashes and init.          *)
(***************************************************************************)
THEOREM AccountingCorrect == Spec => []AccountingExact
<1>1. AccInv => AccountingExact
    <2> SUFFICES ASSUME AccInv, up, exact, Commits = {}, Others = {}
                 PROVE  size = Total
        BY DEF AccountingExact
    <2>1. \A a \in Actors : pc[a] \notin Unsettled
        BY KindsApart DEF Commits, Others, Unsettled, AccInv, PlaceInv
    <2> QED
        BY <2>1 DEF AccInv, SizeInv, Settled
<1> QED
    BY <1>1, AccInvHolds, PTL

-----------------------------------------------------------------------------
(***************************************************************************)
(* Puts act on the limit.                                                  *)
(***************************************************************************)

LEMMA ThresholdBelow == CleanThreshold \in Nat /\ CleanThreshold <= MaxSize
BY BoundsAssumption DEF CleanThreshold

LEMMA RoomStep ==
    ASSUME IInv, AccInv, Next, up', exact',
           NEW w \in Writers \ Cancellable, pc[w] \in AtWork, pc'[w] = "idle"
    PROVE  size' < MaxSize \/ \A k \in Keys : files'[k] # NoFile => k \in scan.stuck
<1> USE DEF diskVars, tempVars, Goto, Move, Finish, Return
<1>0. /\ w \in Actors /\ pc[w] # "idle" /\ TypeOK
      /\ MaxSize \in Nat /\ MaxSize > 0 /\ size \in Nat
    BY KindsApart, BoundsAssumption DEF AtWork, IInv, TypeOK
<1>1. up /\ UpStep /\ History
    BY <1>0 DEF Next, Step, Rest, vars, BootStep, BootDone, BootVisit, Crash, AccInv, RestInv
<1>2. CleanStep(w)
    <2> USE DEF TypeOK
    <2>1. ASSUME NEW v \in Writers, CommitStep(v)
          PROVE  FALSE
        BY <1>0, <2>1 DEF AtWork, CommitStep, PutWritten, PutWriteFails, PutLock, PutStat, PutRename,
                          PutRenameFails, PutAccount
    <2>2. ASSUME NEW a \in Actors \ {w}, Unlink(a) \/ UnlinkFails(a) \/ Deduct(a)
          PROVE  FALSE
        BY <1>0, <2>2 DEF Unlink, UnlinkFails, Deduct
    <2>3. ASSUME NEW v \in Writers \ {w}, CleanStep(v)
          PROVE  FALSE
        BY <1>0, <2>2, <2>3, KindsApart DEF CleanStep, CheckCapacity, TakeCleanLock, ScanVisit,
                                            ScanDone, EvictNext, EvictStop
    <2>4. ASSUME NEW r \in Readers, RemoveStep(r) \/ \E k \in Keys : ReadBad(r, k)
          PROVE  FALSE
        BY <1>0, <2>2, <2>4, KindsApart DEF RemoveStep, RemoveStat, ReadBad
    <2>5. PurgeStart \/ PurgeStep => FALSE
        BY <1>0, KindsApart DEF PurgeStart, PurgeStep, PurgeDone, PurgeVisit, PurgeSkip
    <2>6. ASSUME NEW a \in Actors, Drop(a)
          PROVE  FALSE
        BY <1>0, <2>6 DEF Drop
    <2>7. ASSUME NEW s \in strays, Stray(s) \/ StrayFails(s)
          PROVE  FALSE
        BY <1>0, <2>7 DEF Stray, StrayFails
    <2>8. \A v \in Writers, k \in Keys, len \in Sizes : ~PutStart(v, k, len)
        BY <1>0 DEF PutStart
    <2> QED
        BY <1>1, <2>1, <2>3, <2>4, <2>5, <2>6, <2>7, <2>8 DEF UpStep
<1>3. CASE CheckCapacity(w) \/ TakeCleanLock(w)
    BY <1>0, <1>3 DEF CheckCapacity, TakeCleanLock, TypeOK
<1>4. CASE ScanDone(w)
    BY <1>0, <1>4, ThresholdBelow DEF ScanDone, TypeOK, Walk
<1>5. CASE EvictStop(w)
    <2>1. size' = size
        BY <1>5 DEF EvictStop
    <2>2. CASE EnoughRoom
        BY <1>0, <2>1, <2>2, ThresholdBelow DEF EnoughRoom
    <2>3. CASE scan.found = {}
        <3>2. exact
            <4>1. ASSUME NEW v \in Writers, ScanDone(v)
                  PROVE  FALSE
                BY <1>0, <1>5, <4>1 DEF ScanDone, EvictStop, AccInv, LockInv, Cleaning, TypeOK
            <4> QED
                BY <1>1, <4>1 DEF History, Walked
        <3>3. scan.found = FoundOf(files, Untried)
            BY <1>0, <1>1, <1>5, <3>2 DEF EvictStop, AccInv, SizeInv, Finds
        <3>4. \A k \in Untried : files[k] = NoFile
            BY <2>3, <3>3, FoundEmpty
        <3> QED
            BY <1>5, <3>4 DEF EvictStop, Untried
    <2> QED
        BY <1>5, <2>2, <2>3 DEF EvictStop, EvictionOver
<1>6. CASE (\E k \in Keys : ScanVisit(w, k)) \/ (\E x \in scan.found : EvictNext(w, x))
           \/ Unlink(w) \/ UnlinkFails(w) \/ Deduct(w)
    BY <1>0, <1>6 DEF ScanVisit, EvictNext, Unlink, UnlinkFails, Deduct, TypeOK
<1> QED
    BY <1>2, <1>3, <1>4, <1>5, <1>6 DEF CleanStep

(***************************************************************************)
(* A put that is not dropped returns with CURRENT_SIZE below the limit, as *)
(* long as the size is exact, or leaves on disk only records that its own  *)
(* eviction tried to remove in vain.                                       *)
(***************************************************************************)
THEOREM RoomIsLeft == Spec => PutsLeaveRoom
<1> DEFINE Room ==
        \A w \in Writers \ Cancellable :
            up' /\ exact' /\ pc[w] \in AtWork /\ pc'[w] = "idle" /\ size' >= MaxSize
                => \A k \in Keys : files'[k] # NoFile => k \in scan.stuck
<1>1. IInv /\ AccInv /\ [Next]_vars => [Room]_vars
    <2> SUFFICES ASSUME IInv, AccInv, Next, NEW w \in Writers \ Cancellable,
                        up', exact', pc[w] \in AtWork, pc'[w] = "idle", size' >= MaxSize
                 PROVE  \A k \in Keys : files'[k] # NoFile => k \in scan.stuck
        OBVIOUS
    <2>1. size' \in Nat /\ MaxSize \in Nat
        BY NextType, BoundsAssumption DEF IInv, TypeOK
    <2> QED
        BY <2>1, RoomStep
<1> QED
    BY <1>1, IInvHolds, AccInvHolds, PTL DEF Spec, PutsLeaveRoom

=============================================================================
