----------------------------- MODULE DiskCache -----------------------------
(***************************************************************************)
(* The disk cache: src/src/disk_cache.rs.  Writers put records (temporary  *)
(* file, rename and accounting under COMMIT_LOCK, then cleaning under      *)
(* CLEAN_LOCK), readers remove records they cannot use, an administrator   *)
(* purges everything, and the process may crash at any time and start      *)
(* again with what is on disk.                                             *)
(*                                                                         *)
(* Files, CURRENT_SIZE and the two locks are shared; every file operation  *)
(* and every access to CURRENT_SIZE is a step of its own.  A client that   *)
(* goes away drops the future it was served by at any await: the locks are *)
(* released, but a file operation already handed to the blocking pool is   *)
(* still carried out (a stray).  Any write, rename or removal may fail,    *)
(* and a removal that fails is looked at by nobody: the file stays.        *)
(*                                                                         *)
(* A record is its length, which tells apart all that matters here.        *)
(* Operators named Fault_... are seeded bugs; the specification uses none. *)
(***************************************************************************)
EXTENDS Integers, FiniteSets

CONSTANTS
    Keys,           \* cache keys; a key's path is its SHA-256
    Sizes,          \* lengths of encoded records
    Unusable,       \* lengths of the records that no reader can use
    Writers,        \* callers of put
    Readers,        \* callers of get
    Purger,         \* the administrator
    Cancellable,    \* actors that serve a client and may be dropped
    Purging,        \* whether the administrator purges
    MaxSize,        \* max_size()
    NoFile, Nobody, \* no such file; nobody holds the lock
    MaxPuts,        \* bound: puts per run of the process, less one for every crash before
    MaxFailures,    \* bound: steps in which a file operation fails
    MaxCrashes      \* bound: crashes

Actors == Writers \cup Readers \cup {Purger}

ASSUME KeysAssumption == Keys # {} /\ IsFiniteSet(Keys)
ASSUME SizesAssumption == Sizes \subseteq Nat /\ Unusable \subseteq Sizes
ASSUME ActorsAssumption ==
    /\ Writers \cap Readers = {}
    /\ Purger \notin Writers \cup Readers
    /\ Nobody \notin Writers
    /\ Cancellable \subseteq Actors
\* max_size() reads a limit of 0 as none given, and takes the default.
ASSUME BoundsAssumption ==
    MaxSize \in Nat \ {0} /\ MaxPuts \in Nat /\ Purging \in BOOLEAN

\* clean_threshold: 85 % of the limit.
CleanThreshold == (MaxSize * 85) \div 100

\* whole is false while the file is being written.
File == [len : Sizes, whole : BOOLEAN]
WholeFile == [len : Sizes, whole : {TRUE}]

ASSUME NoFileAssumption == NoFile \notin File

\* commit_record names temporary files after key, process and WRITE_COUNTER;
\* a restarted process may have the number of the one before, as in a container.
Names == Keys \X (0..(MaxPuts - 1))

VARIABLES
    files,      \* the record under each key
    temps,      \* temporary files
    size,       \* CURRENT_SIZE
    counter,    \* WRITE_COUNTER
    commitLock, \* holder of COMMIT_LOCK
    cleanLock,  \* holder of CLEAN_LOCK
    pc, job,    \* where each actor stands, and with what
    scan,       \* the directory walk of the cleaner, or of init
    purge,      \* what the purge has still to visit
    strays,     \* file operations whose caller was dropped
    up,         \* init is done
    litter,     \* history: temporary files that could not be removed
    exact,      \* history: nothing has made the tracked size unreliable
    calm,       \* history: no other accounting since the walk began
    failures, crashes

tempVars == <<temps, litter>>
diskVars == <<files, temps, litter>>
lockVars == <<commitLock, cleanLock>>
walkVars == <<scan, purge>>
boundVars == <<failures, crashes>>
vars == <<files, temps, size, counter, commitLock, cleanLock, pc, job, scan,
          purge, strays, up, litter, exact, calm, failures, crashes>>

Goto(a, place) == pc' = [pc EXCEPT ![a] = place]
Move(a, place) == Goto(a, place) /\ UNCHANGED job

LenOf(f) == IF f = NoFile THEN 0 ELSE f.len

\* Sizes are subtracted without saturation: TypeOK.
Fault_Less(n, d) == n - d

\* saturating_sub.
Less(n, d) == IF d <= n THEN n - d ELSE 0

\* stuck is history: the records this walk's eviction could not remove.
StartWalk == [left |-> Keys, found |-> {}, total |-> 0, stuck |-> {}]

NoWalk == [left |-> {}, found |-> {}, total |-> 0, stuck |-> {}]

NoJob == [key |-> CHOOSE k \in Keys : TRUE, name |-> NoFile, len |-> 0, old |-> 0]

\* The caller returns; nothing of its job is left.
Finish(a) == Goto(a, "idle") /\ job' = [job EXCEPT ![a] = NoJob]

\* A fresh process finds what an earlier one left.
Init ==
    /\ files \in [Keys -> WholeFile \cup {NoFile}]
    /\ temps = [n \in Names |-> NoFile]
    /\ size = 0 /\ counter = 0
    /\ commitLock = Nobody /\ cleanLock = Nobody
    /\ pc = [a \in Actors |-> "idle"]
    /\ job = [a \in Actors |-> NoJob]
    /\ scan = StartWalk
    /\ purge = {} /\ strays = {}
    /\ up = FALSE
    /\ litter = {}
    /\ exact = TRUE /\ calm = TRUE
    /\ failures = 0 /\ crashes = 0

-----------------------------------------------------------------------------
(***************************************************************************)
(* put_full and commit_record.                                             *)
(***************************************************************************)

\* Temporary files are told apart by key only: NoTornRecords.
Fault_TmpName(k, n) == <<k, 0>>

TmpName(k, n) == <<k, n>>

\* A file operation fails for a reason the model does not see.
Fails == failures < MaxFailures /\ failures' = failures + 1

\* The temporary file exists, with less than the record in it.
PutStart(w, k, len) ==
    /\ pc[w] = "idle"
    /\ counter + crashes < MaxPuts
    /\ counter' = counter + 1
    /\ temps' = [temps EXCEPT ![TmpName(k, counter)] = [len |-> len, whole |-> FALSE]]
    /\ job' = [job EXCEPT ![w] =
                  [key |-> k, name |-> TmpName(k, counter), len |-> len, old |-> 0]]
    /\ litter' = litter \ {TmpName(k, counter)}
    /\ Goto(w, "writing")
    /\ UNCHANGED <<files, size, lockVars, walkVars, strays, up, boundVars>>

\* A purge may have unlinked the file meanwhile.
Complete(n) ==
    /\ temps' = IF temps[n] = NoFile THEN temps ELSE [temps EXCEPT ![n].whole = TRUE]
    /\ UNCHANGED <<files, litter>>

PutWritten(w) ==
    /\ pc[w] = "writing"
    /\ Complete(job[w].name)
    /\ Move(w, "queued")
    /\ UNCHANGED <<size, counter, lockVars, walkVars, strays, up, boundVars>>

\* The error path leaves the file behind: TempsOwned.
Fault_Discard(n) == UNCHANGED tempVars

\* let _ = remove_file(&tmp).
Discard(n) ==
    \/ temps' = [temps EXCEPT ![n] = NoFile] /\ UNCHANGED litter
    \/ temps[n] # NoFile /\ UNCHANGED temps /\ litter' = litter \cup {n}

PutWriteFails(w) ==
    /\ pc[w] = "writing"
    /\ Fails
    /\ Discard(job[w].name)
    /\ Finish(w)
    /\ UNCHANGED <<files, size, counter, lockVars, walkVars, strays, up, crashes>>

\* Commits are not serialised: AccountingExact.
Fault_CommitFree == TRUE

CommitFree == commitLock = Nobody

PutLock(w) ==
    /\ pc[w] = "queued"
    /\ CommitFree
    /\ commitLock' = w
    /\ Move(w, "locked")
    /\ UNCHANGED <<diskVars, size, counter, cleanLock, walkVars, strays, up, boundVars>>

\* The length of the record about to be replaced.
PutStat(w) ==
    /\ pc[w] = "locked"
    /\ job' = [job EXCEPT ![w].old = LenOf(files[job[w].key])]
    /\ Goto(w, "renaming")
    /\ UNCHANGED <<diskVars, size, counter, lockVars, walkVars, strays, up, boundVars>>

Rename(n, k) ==
    /\ files' = [files EXCEPT ![k] = temps[n]]
    /\ temps' = [temps EXCEPT ![n] = NoFile]
    /\ UNCHANGED litter

PutRename(w) ==
    /\ pc[w] = "renaming"
    /\ temps[job[w].name] # NoFile
    /\ Rename(job[w].name, job[w].key)
    /\ Move(w, "renamed")
    /\ UNCHANGED <<size, counter, lockVars, walkVars, strays, up, boundVars>>

\* Always when a purge has removed the temporary file.
PutRenameFails(w) ==
    /\ pc[w] = "renaming"
    /\ \/ temps[job[w].name] = NoFile /\ UNCHANGED failures
       \/ Fails
    /\ Discard(job[w].name)
    /\ commitLock' = Nobody
    /\ Finish(w)
    /\ UNCHANGED <<files, size, counter, cleanLock, walkVars, strays, up, crashes>>

PutAccount(w) ==
    /\ pc[w] = "renamed"
    /\ size' = Less(size, job[w].old) + job[w].len
    /\ commitLock' = Nobody
    /\ Move(w, "check")
    /\ UNCHANGED <<diskVars, counter, cleanLock, walkVars, strays, up, boundVars>>

-----------------------------------------------------------------------------
(***************************************************************************)
(* ensure_capacity, by the writer that just committed.                     *)
(***************************************************************************)

CheckCapacity(w) ==
    /\ pc[w] = "check"
    /\ IF size < MaxSize THEN Finish(w) ELSE Move(w, "full")
    /\ UNCHANGED <<diskVars, size, counter, lockVars, walkVars, strays, up, boundVars>>

\* Someone else may have made room while this writer waited.
TakeCleanLock(w) ==
    /\ pc[w] = "full"
    /\ cleanLock = Nobody
    /\ IF size < MaxSize
       THEN Finish(w) /\ UNCHANGED <<cleanLock, scan>>
       ELSE /\ cleanLock' = w
            /\ scan' = StartWalk
            /\ Move(w, "scanning")
    /\ UNCHANGED <<diskVars, size, counter, commitLock, purge, strays, up, boundVars>>

\* The walk meets the files one after the other.
Visit(k) ==
    /\ k \in scan.left
    /\ scan' = [left |-> scan.left \ {k},
                found |-> IF files[k] = NoFile THEN scan.found
                          ELSE scan.found \cup {<<k, files[k].len>>},
                total |-> scan.total + LenOf(files[k]),
                stuck |-> scan.stuck]

ScanVisit(w, k) ==
    /\ pc[w] = "scanning"
    /\ Visit(k)
    /\ UNCHANGED <<diskVars, size, counter, lockVars, pc, job, purge, strays, up, boundVars>>

ScanDone(w) ==
    /\ pc[w] = "scanning" /\ scan.left = {}
    /\ size' = scan.total
    /\ IF scan.total < CleanThreshold
       THEN Finish(w) /\ cleanLock' = Nobody /\ scan' = NoWalk
       ELSE Move(w, "evicting") /\ UNCHANGED <<cleanLock, scan>>
    /\ UNCHANGED <<diskVars, counter, commitLock, purge, strays, up, boundVars>>

\* Eviction stops as soon as the limit is met again: PutsLeaveRoom.
Fault_EnoughRoom == size <= MaxSize

EnoughRoom == size < CleanThreshold

\* Oldest first; the order is left open.
EvictNext(w, x) ==
    /\ pc[w] = "evicting" /\ ~EnoughRoom
    /\ x \in scan.found
    /\ scan' = [scan EXCEPT !.found = @ \ {x}]
    /\ job' = [job EXCEPT ![w].key = x[1], ![w].old = x[2]]
    /\ Goto(w, "unlinking")
    /\ UNCHANGED <<diskVars, size, counter, lockVars, purge, strays, up, boundVars>>

\* Only the target size ends the eviction: PutsEnd.
Fault_EvictionOver == EnoughRoom

EvictionOver == EnoughRoom \/ scan.found = {}

EvictStop(w) ==
    /\ pc[w] = "evicting" /\ EvictionOver
    /\ cleanLock' = Nobody
    /\ Finish(w) /\ scan' = NoWalk
    /\ UNCHANGED <<diskVars, size, counter, commitLock, purge, strays, up, boundVars>>

-----------------------------------------------------------------------------
(***************************************************************************)
(* get_full and remove.  A hit changes nothing here; a record that cannot  *)
(* be decoded (get_full) or parsed (library_cache_lookup) is removed, with *)
(* the length it had a moment before.                                      *)
(***************************************************************************)

ReadBad(r, k) ==
    /\ pc[r] = "idle"
    /\ files[k] # NoFile /\ files[k].len \in Unusable
    /\ job' = [job EXCEPT ![r].key = k]
    /\ Goto(r, "bad")
    /\ UNCHANGED <<diskVars, size, counter, lockVars, walkVars, strays, up, boundVars>>

RemoveStat(r) ==
    LET f == files[job[r].key] IN
    /\ pc[r] = "bad"
    /\ IF f = NoFile
       THEN Finish(r)
       ELSE Goto(r, "unlinking") /\ job' = [job EXCEPT ![r].old = f.len]
    /\ UNCHANGED <<diskVars, size, counter, lockVars, walkVars, strays, up, boundVars>>

\* Back from an unlink: the cleaner to its list, a reader to its caller.
Return(a) == IF a \in Writers THEN Move(a, "evicting") ELSE Finish(a)

Unlink(a) ==
    LET k == job[a].key IN
    /\ pc[a] = "unlinking"
    /\ IF files[k] = NoFile
       THEN Return(a) /\ UNCHANGED files
       ELSE files' = [files EXCEPT ![k] = NoFile] /\ Move(a, "unlinked")
    /\ UNCHANGED <<tempVars, size, counter, lockVars, walkVars, strays, up, boundVars>>

\* The length is deducted whatever remove_file says: AccountingExact.
Fault_UnlinkFails(a) ==
    /\ pc[a] = "unlinking"
    /\ Fails
    /\ Move(a, "unlinked")
    /\ UNCHANGED <<diskVars, size, counter, lockVars, walkVars, strays, up, crashes>>

\* Nothing is deducted, and an eviction goes on with its list.
UnlinkFails(a) ==
    LET k == job[a].key IN
    /\ pc[a] = "unlinking"
    /\ files[k] # NoFile
    /\ Fails
    /\ scan' = IF a \in Writers THEN [scan EXCEPT !.stuck = @ \cup {k}] ELSE scan
    /\ Return(a)
    /\ UNCHANGED <<diskVars, size, counter, lockVars, purge, strays, up, crashes>>

Deduct(a) ==
    /\ pc[a] = "unlinked"
    /\ size' = Less(size, job[a].old)
    /\ Return(a)
    /\ UNCHANGED <<diskVars, counter, lockVars, walkVars, strays, up, boundVars>>

-----------------------------------------------------------------------------
(***************************************************************************)
(* clear_all: everything below the directory, temporary files included.    *)
(***************************************************************************)

PurgeStart ==
    /\ Purging
    /\ pc[Purger] = "idle"
    /\ purge' = Keys \X {"record", "temps"}
    /\ Goto(Purger, "purging")
    /\ UNCHANGED <<diskVars, size, counter, lockVars, job, scan, strays, up, boundVars>>

\* Of the temporary files of a key, those in kept cannot be removed.
Sweep(k, kept) ==
    temps' = [n \in Names |-> IF n[1] = k /\ n \notin kept THEN NoFile ELSE temps[n]]

TempsOf(k) == {n \in Names : n[1] = k /\ temps[n] # NoFile}

PurgeVisit(x) ==
    /\ pc[Purger] \in {"purging", "abandoned"}
    /\ x \in purge
    /\ purge' = purge \ {x}
    /\ IF x[2] = "record"
       THEN files' = [files EXCEPT ![x[1]] = NoFile] /\ UNCHANGED tempVars
       ELSE Sweep(x[1], {}) /\ litter' = {n \in litter : n[1] # x[1]} /\ UNCHANGED files
    /\ UNCHANGED <<size, counter, lockVars, pc, job, scan, strays, up, boundVars>>

\* What cannot be removed is not counted, and left.
PurgeSkip(x) ==
    /\ pc[Purger] \in {"purging", "abandoned"}
    /\ x \in purge
    /\ purge' = purge \ {x}
    /\ Fails
    /\ IF x[2] = "record"
       THEN files[x[1]] # NoFile /\ UNCHANGED tempVars
       ELSE \E kept \in SUBSET TempsOf(x[1]) \ {{}} :
               Sweep(x[1], kept) /\ litter' = {n \in litter : n[1] # x[1] \/ n \in kept}
    /\ UNCHANGED <<files, size, counter, lockVars, pc, job, scan, strays, up, crashes>>

\* Whatever was left behind.
PurgeDone ==
    /\ pc[Purger] \in {"purging", "abandoned"} /\ purge = {}
    /\ size' = IF pc[Purger] = "purging" THEN 0 ELSE size
    /\ Goto(Purger, "idle")
    /\ UNCHANGED <<diskVars, counter, lockVars, job, walkVars, strays, up, boundVars>>

-----------------------------------------------------------------------------
(***************************************************************************)
(* Dropped futures, crash and init.                                        *)
(***************************************************************************)

\* What a dropped caller leaves in the blocking pool.
Pending(a) ==
    CASE pc[a] = "writing"   -> {[op |-> "write", key |-> job[a].key, name |-> job[a].name]}
      [] pc[a] = "renaming"  -> {[op |-> "rename", key |-> job[a].key, name |-> job[a].name]}
      [] pc[a] = "unlinking" -> {[op |-> "unlink", key |-> job[a].key, name |-> NoFile]}
      [] OTHER -> {}

Release(lock, a) == IF lock = a THEN Nobody ELSE lock

\* There is no await between an accounting and the check that follows.
Drop(a) ==
    /\ a \in Cancellable
    /\ pc[a] \notin {"idle", "check", "abandoned"}
    /\ commitLock' = Release(commitLock, a)
    /\ cleanLock' = Release(cleanLock, a)
    /\ scan' = IF cleanLock = a THEN NoWalk ELSE scan
    /\ strays' = strays \cup Pending(a)
    /\ IF a = Purger THEN Move(a, "abandoned") ELSE Finish(a)
    /\ UNCHANGED <<diskVars, size, counter, purge, up, boundVars>>

Stray(s) ==
    /\ s \in strays
    /\ strays' = strays \ {s}
    /\ \/ s.op = "unlink" /\ files' = [files EXCEPT ![s.key] = NoFile] /\ UNCHANGED tempVars
       \/ s.op = "write" /\ Complete(s.name)
       \/ s.op = "rename" /\ temps[s.name] # NoFile /\ Rename(s.name, s.key)
       \/ s.op = "rename" /\ temps[s.name] = NoFile /\ UNCHANGED diskVars
    /\ UNCHANGED <<size, counter, lockVars, pc, job, walkVars, up, boundVars>>

StrayFails(s) ==
    /\ s \in strays
    /\ strays' = strays \ {s}
    /\ Fails
    /\ UNCHANGED <<diskVars, size, counter, lockVars, pc, job, walkVars, up, crashes>>

\* Only the disk survives.
Crash ==
    /\ crashes < MaxCrashes
    /\ crashes' = crashes + 1
    /\ size' = 0 /\ counter' = 0
    /\ commitLock' = Nobody /\ cleanLock' = Nobody
    /\ pc' = [a \in Actors |-> "idle"]
    /\ job' = [a \in Actors |-> NoJob]
    /\ scan' = StartWalk
    /\ purge' = {} /\ strays' = {}
    /\ up' = FALSE
    /\ UNCHANGED <<diskVars, failures>>

\* init removes temporary files and adds up the rest; nothing runs yet.
BootVisit(k) ==
    /\ ~up
    /\ Visit(k)
    /\ \E kept \in SUBSET TempsOf(k) :
          /\ IF kept = {} THEN UNCHANGED failures ELSE Fails
          /\ Sweep(k, kept)
          /\ litter' = {n \in litter : n[1] # k} \cup kept
    /\ UNCHANGED <<files, size, counter, lockVars, pc, job, purge, strays, up, crashes>>

BootDone ==
    /\ ~up /\ scan.left = {}
    /\ size' = scan.total
    /\ up' = TRUE
    /\ scan' = NoWalk
    /\ UNCHANGED <<diskVars, counter, lockVars, pc, job, purge, strays, boundVars>>

-----------------------------------------------------------------------------
CommitStep(w) ==
    \/ PutWritten(w) \/ PutWriteFails(w)
    \/ PutLock(w) \/ PutStat(w)
    \/ PutRename(w) \/ PutRenameFails(w)
    \/ PutAccount(w)

CleanStep(w) ==
    \/ CheckCapacity(w) \/ TakeCleanLock(w)
    \/ \E k \in Keys : ScanVisit(w, k)
    \/ ScanDone(w)
    \/ \E x \in scan.found : EvictNext(w, x)
    \/ EvictStop(w) \/ Unlink(w) \/ UnlinkFails(w) \/ Deduct(w)

RemoveStep(r) == RemoveStat(r) \/ Unlink(r) \/ UnlinkFails(r) \/ Deduct(r)

PurgeStep == PurgeDone \/ \E x \in purge : PurgeVisit(x) \/ PurgeSkip(x)

BootStep == BootDone \/ \E k \in Keys : BootVisit(k)

UpStep ==
    \/ \E w \in Writers, k \in Keys, len \in Sizes : PutStart(w, k, len)
    \/ \E w \in Writers : CommitStep(w) \/ CleanStep(w)
    \/ \E r \in Readers, k \in Keys : ReadBad(r, k)
    \/ \E r \in Readers : RemoveStep(r)
    \/ PurgeStart \/ PurgeStep
    \/ \E a \in Actors : Drop(a)
    \/ \E s \in strays : Stray(s) \/ StrayFails(s)

Idle == strays = {} /\ \A a \in Actors : pc[a] = "idle"

\* Nobody has to ask for anything.
Rest == up /\ Idle /\ UNCHANGED vars

Step == (up /\ UpStep) \/ BootStep \/ Crash

(***************************************************************************)
(* Accounting sections: from the length that is looked at to the change of *)
(* the tracked size.  Commits exclude each other by COMMIT_LOCK; nothing   *)
(* else does.  The history variable exact turns false when a section other *)
(* than a commit overlaps another one, when the caller of one is dropped,  *)
(* or when a purge leaves a record behind, and true again when a walk ran  *)
(* alone from start to end.                                                *)
(***************************************************************************)
Commits == {w \in Writers : pc[w] \in {"renaming", "renamed"}}
Others == {a \in Actors : pc[a] \in {"scanning", "evicting", "unlinking", "unlinked",
                                     "purging", "abandoned"}}

Overlap ==
    \/ Others # {} /\ Commits # {}
    \/ \E a, b \in Others : a # b
    \/ \E s \in strays : s.op # "write"

Lost == \E a \in Actors : Drop(a) /\ a \in Commits \cup Others

\* The purge will say 0 all the same.
Skipped == \E x \in purge : x[2] = "record" /\ PurgeSkip(x)

Walked == \E w \in Writers : ScanDone(w)

History ==
    /\ calm' = (~Overlap' /\ (calm \/ \E w \in Writers : TakeCleanLock(w)))
    /\ exact' = (~up' \/ (~Overlap' /\ ~Lost /\ ~Skipped /\ (exact \/ (Walked /\ calm))))

Next == (Step /\ History) \/ Rest

Spec == Init /\ [][Next]_vars

(***************************************************************************)
(* File operations end, tasks are polled, and tokio's mutexes are handed   *)
(* over in the order of asking, so no writer waits for ever at a lock that *)
(* keeps being released.  New puts, purges, drops and crashes owe nothing. *)
(***************************************************************************)
Fairness ==
    /\ \A w \in Writers :
          /\ WF_vars(up /\ (CommitStep(w) \/ CleanStep(w)) /\ History)
          /\ SF_vars(up /\ PutLock(w) /\ History)
          /\ SF_vars(up /\ TakeCleanLock(w) /\ History)
    /\ \A r \in Readers : WF_vars(up /\ RemoveStep(r) /\ History)
    /\ WF_vars(up /\ PurgeStep /\ History)
    /\ WF_vars(BootStep /\ History)

FairSpec == Spec /\ Fairness

-----------------------------------------------------------------------------
Places == {"idle", "writing", "queued", "locked", "renaming", "renamed", "check", "full",
           "scanning", "evicting", "unlinking", "unlinked", "bad", "purging", "abandoned"}

JobRecord == [key : Keys, name : Names \cup {NoFile}, len : Nat, old : Nat]
Walk == [left : SUBSET Keys, found : SUBSET (Keys \X Sizes), total : Nat,
         stuck : SUBSET Keys]

\* The shape of the state.
TypeOK ==
    /\ files \in [Keys -> File \cup {NoFile}]
    /\ temps \in [Names -> File \cup {NoFile}]
    /\ size \in Nat /\ counter \in 0..MaxPuts
    /\ commitLock \in Writers \cup {Nobody} /\ cleanLock \in Writers \cup {Nobody}
    /\ pc \in [Actors -> Places]
    /\ job \in [Actors -> JobRecord]
    /\ scan \in Walk
    /\ purge \subseteq Keys \X {"record", "temps"}
    /\ strays \subseteq [op : {"write", "rename", "unlink"}, key : Keys, name : Names \cup {NoFile}]
    /\ litter \subseteq Names
    /\ up \in BOOLEAN /\ exact \in BOOLEAN /\ calm \in BOOLEAN
    /\ failures \in Nat /\ crashes \in Nat

(***************************************************************************)
(* "A crash or concurrent read can never observe a half-written response": *)
(* whatever is read under a key is the whole of one record.                *)
(***************************************************************************)
NoTornRecords == \A k \in Keys : files[k] # NoFile => files[k].whole

Owns(w, n) == pc[w] \in {"writing", "queued", "locked", "renaming"} /\ job[w].name = n

(***************************************************************************)
(* No temporary file is forgotten while no caller is dropped: it belongs   *)
(* to a put under way, or its removal was tried and failed, by the put     *)
(* that failed or by init.                                                 *)
(***************************************************************************)
TempsOwned ==
    up /\ Cancellable = {}
        => \A n \in Names : temps[n] # NoFile
              => n \in litter \/ \E w \in Writers : Owns(w, n)

\* The bytes on disk below the paths of some keys.
BytesOf(fs, keys) == UNION {{k} \X (1..LenOf(fs[k])) : k \in keys}

Total == Cardinality(BytesOf(files, Keys))

(***************************************************************************)
(* Between accounting sections the tracked size is the size on disk, if no *)
(* two sections that exclude each other by nothing have overlapped, and no *)
(* purge has left a record behind, since the last walk that ran alone.     *)
(* Commits never need the excuse, and neither do removals that fail.       *)
(***************************************************************************)
AccountingExact ==
    up /\ exact /\ Commits = {} /\ Others = {} => size = Total

AtWork == {"renamed", "check", "full", "scanning", "evicting", "unlinking", "unlinked"}

(***************************************************************************)
(* A put that returns at the limit or above it could do no better: every   *)
(* record still on disk is one its own eviction tried to remove in vain.   *)
(***************************************************************************)
PutsLeaveRoom ==
    [][\A w \in Writers \ Cancellable :
          up' /\ exact' /\ pc[w] \in AtWork /\ pc'[w] = "idle" /\ size' >= MaxSize
             => \A k \in Keys : files'[k] # NoFile => k \in scan.stuck]_vars

\* Every put ends: no lock is kept, no eviction goes on for ever.
PutsEnd == \A w \in Writers : pc[w] = "writing" ~> pc[w] = "idle"
=============================================================================
