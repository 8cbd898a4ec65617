------------------------------ MODULE LoginLock -----------------------------
(***************************************************************************)
(* The retry counter that locks an account: CredentialsMatcherRdis counts  *)
(* the password checks of an account under one Redis key and refuses       *)
(* further attempts while the count exceeds maxRetry.  Each Redis command  *)
(* is atomic; the method that issues them is not, and attempts on the same *)
(* account run concurrently on any number of instances.                    *)
(***************************************************************************)
EXTENDS Naturals, FiniteSets

CONSTANTS Threads,   \* login requests being served for the account
          MaxRetry,  \* shrio.login.maxRetry
          MaxFaults  \* bound: request threads that die in the middle

ASSUME LockAssumption ==
    /\ IsFiniteSet(Threads)
    /\ MaxRetry \in Nat
    /\ MaxFaults \in Nat

VARIABLES present,  \* the key exists
          counter,  \* its value, 0 without a key
          ttl,      \* the key has an expiry
          attempt,  \* attempt[t]: progress of the login of thread t
          passed,   \* history: attempts admitted to the password check by the
                    \* counter since the key was last removed
          pending,  \* history: those of them whose failure is still to be counted
          faults    \* threads that died so far

key  == <<present, counter, ttl>>
vars == <<key, attempt, passed, pending, faults>>

-----------------------------------------------------------------------------
Pcs == {"has", "incr", "get", "readTtl", "setTtl", "match", "delete", "count", "done"}

Attempts == [pc : Pcs, right : BOOLEAN, existed : BOOLEAN,
             outcome : {"none", "ok", "failed", "refused", "error"}]

NoAttempt == [pc |-> "done", right |-> FALSE, existed |-> FALSE, outcome |-> "none"]

TypeOK ==
    /\ present \in BOOLEAN
    /\ counter \in Nat
    /\ ttl \in BOOLEAN
    /\ attempt \in [Threads -> Attempts]
    /\ passed \in Nat
    /\ pending \in SUBSET Threads
    /\ faults \in 0..MaxFaults

Init ==
    /\ present = FALSE /\ counter = 0 /\ ttl = FALSE
    /\ attempt = [t \in Threads |-> NoAttempt]
    /\ passed = 0
    /\ pending = {}
    /\ faults = 0

-----------------------------------------------------------------------------
At(t, pc) == attempt[t].pc = pc
Go(t, pc) == attempt' = [attempt EXCEPT ![t].pc = pc]
End(t, outcome) == attempt' = [attempt EXCEPT ![t].pc = "done", ![t].outcome = outcome]

(* Mutants: the count is set instead of incremented; one retry too many;   *)
(* a removal takes the retries back instead of deleting the key.           *)
IncrAsSet == present' = TRUE /\ counter' = 1 /\ ttl' = ttl

ExceededLate(count) == count > MaxRetry + 1

RemoveByDecrement ==
    /\ present' = FALSE /\ counter' = counter - (MaxRetry + 1) /\ ttl' = FALSE
    /\ passed' = 0
    /\ pending' = {}

(* The count that refuses an attempt.                                      *)
Exceeded(count) == count > MaxRetry

(* INCR creates a key without an expiry and keeps the expiry of one.       *)
Incr == present' = TRUE /\ counter' = counter + 1 /\ ttl' = ttl

(* The key goes, by a DEL or by its expiry, and a new count begins.        *)
Remove ==
    /\ present' = FALSE /\ counter' = 0 /\ ttl' = FALSE
    /\ passed' = 0
    /\ pending' = {}

(* The realm has found the account; the matcher is called.                 *)
Begin(t, right) ==
    /\ At(t, "done")
    /\ attempt' = [attempt EXCEPT ![t] = [NoAttempt EXCEPT !.pc = "has", !.right = right]]
    /\ UNCHANGED <<key, passed, pending, faults>>

HasKey(t) ==
    /\ At(t, "has")
    /\ attempt' = [attempt EXCEPT ![t].pc = IF present THEN "get" ELSE "incr",
                                  ![t].existed = present]
    /\ UNCHANGED <<key, passed, pending, faults>>

(* Without a key the attempt is counted now, before the password check,    *)
(* and with the count as it is after this INCR.                            *)
FirstIncr(t) ==
    /\ At(t, "incr")
    /\ Incr
    /\ IF Exceeded(counter + 1)
       THEN Go(t, "readTtl") /\ UNCHANGED passed
       ELSE Go(t, "match") /\ passed' = passed + 1
    /\ UNCHANGED <<pending, faults>>

(* With a key its value decides, and the failure is counted afterwards.    *)
GetCount(t) ==
    /\ At(t, "get")
    /\ present
    /\ IF Exceeded(counter)
       THEN Go(t, "readTtl") /\ UNCHANGED <<passed, pending>>
       ELSE Go(t, "match") /\ passed' = passed + 1 /\ pending' = pending \cup {t}
    /\ UNCHANGED <<key, faults>>

(* The key vanished since hasKey: Long.valueOf(null) throws.               *)
GetNothing(t) ==
    /\ At(t, "get")
    /\ ~ present
    /\ End(t, "error")
    /\ UNCHANGED <<key, passed, pending, faults>>

(* Mutant: the expiry is set for the code of a missing key.                *)
ReadTtlOfMissing(t) ==
    /\ At(t, "readTtl")
    /\ IF ~ present THEN Go(t, "setTtl") ELSE End(t, "refused")
    /\ UNCHANGED <<key, passed, pending, faults>>

(* Locked.  getExpire is -1 for a key without expiry, -2 without a key.    *)
ReadTtl(t) ==
    /\ At(t, "readTtl")
    /\ IF present /\ ~ ttl THEN Go(t, "setTtl") ELSE End(t, "refused")
    /\ UNCHANGED <<key, passed, pending, faults>>

SetTtl(t) ==
    /\ At(t, "setTtl")
    /\ ttl' = present
    /\ End(t, "refused")
    /\ UNCHANGED <<present, counter, passed, pending, faults>>

MatchPassword(t) ==
    /\ At(t, "match")
    /\ IF attempt[t].right THEN Go(t, "delete")
       ELSE IF attempt[t].existed THEN Go(t, "count")
       ELSE End(t, "failed")
    /\ UNCHANGED <<key, passed, pending, faults>>

DeleteKey(t) ==
    /\ At(t, "delete")
    /\ Remove
    /\ End(t, "ok")
    /\ UNCHANGED faults

CountFailure(t) ==
    /\ At(t, "count")
    /\ Incr
    /\ pending' = pending \ {t}
    /\ End(t, "failed")
    /\ UNCHANGED <<passed, faults>>

(* lockTime has passed since the expiry was set.                           *)
KeyExpires ==
    /\ present /\ ttl
    /\ Remove
    /\ UNCHANGED <<attempt, faults>>

(* The instance goes down, or Redis fails a command of the attempt: what   *)
(* the attempt still had to do is not done.                                *)
AttemptDies(t) ==
    /\ ~ At(t, "done")
    /\ faults < MaxFaults
    /\ faults' = faults + 1
    /\ End(t, "error")
    /\ pending' = pending \ {t}
    /\ UNCHANGED <<key, passed>>

(* The realm has taken the result.                                         *)
Collect(t) ==
    /\ At(t, "done")
    /\ attempt' = [attempt EXCEPT ![t] = NoAttempt]
    /\ UNCHANGED <<key, passed, pending, faults>>

Work(t) ==
    \/ HasKey(t) \/ FirstIncr(t) \/ GetCount(t) \/ GetNothing(t)
    \/ ReadTtl(t) \/ SetTtl(t)
    \/ MatchPassword(t) \/ DeleteKey(t) \/ CountFailure(t)

Next ==
    \/ \E t \in Threads : \/ \E right \in BOOLEAN : Begin(t, right)
                          \/ Work(t)
                          \/ AttemptDies(t)
                          \/ Collect(t)
    \/ KeyExpires

Spec == Init /\ [][Next]_vars

(* Request threads are scheduled, and an expiry that is set comes.         *)
FairSpec == Spec /\ (\A t \in Threads : WF_vars(Work(t))) /\ WF_vars(KeyExpires)

-----------------------------------------------------------------------------
(* Properties.                                                             *)

Locked == present /\ Exceeded(counter)

(* However many attempts run at once, between two removals of the key the  *)
(* account admits no more password checks than maxRetry, one more for each *)
(* thread in the window between its GET and its INCR, and one for each     *)
(* attempt that died before counting.  (One thread alone: maxRetry + 1.)   *)
AttemptsBounded == passed <= MaxRetry + Cardinality(Threads) + faults

(* Why: every admitted check is in the counter, or about to be counted by  *)
(* a thread that is past its GET, or was lost with a thread that died.     *)
EveryCheckCounted ==
    /\ passed <= counter + Cardinality(pending) + faults
    /\ \A t \in pending : attempt[t].pc \in {"match", "delete", "count"}

(* An attempt that finds the account locked starts the end of the lock:    *)
(* the key gets an expiry, whatever other attempts do meanwhile, unless    *)
(* the attempt dies.  (A lock that nobody runs into has no end.)           *)
LockEnds ==
    \A t \in Threads :
        Locked /\ At(t, "readTtl") ~> ~ Locked \/ attempt[t].outcome = "error"
=============================================================================
