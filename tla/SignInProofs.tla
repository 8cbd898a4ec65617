----------------------------- MODULE SignInProofs ---------------------------
(***************************************************************************)
(* The account lock and the login that uses it, for every number of        *)
(* concurrent requests, captchas, passwords, edits and every retry limit.  *)
(* First the lock.  Its bound on password checks is not inductive: a       *)
(* thread may be admitted only because the counter lags behind the checks. *)
(* The invariant that is, EveryCheckCounted, says by how much it can lag.  *)
(* Then the login: it uses the retry counter as the counter is meant to be *)
(* used, a captcha is tried once per concurrent request at most, and a     *)
(* login that succeeds was due.                                            *)
(***************************************************************************)
EXTENDS SignIn, FiniteSetTheorems, TLAPS

-----------------------------------------------------------------------------
(* The lock.                                                               *)

(* The pending threads are finitely many, one more or one less counts as   *)
(* one, and there are no more of them than threads.                        *)
LEMMA PendingCounts ==
  ASSUME TypeOK
  PROVE  /\ Cardinality(Threads) \in Nat
         /\ Cardinality(pending) \in Nat
         /\ Cardinality(pending) <= Cardinality(Threads)
         /\ \A t \in Threads \ pending :
               /\ Cardinality(pending \cup {t}) = Cardinality(pending) + 1
               /\ Cardinality(pending \cup {t}) <= Cardinality(Threads)
         /\ \A t : /\ Cardinality(pending \ {t}) \in Nat
                   /\ Cardinality(pending \ {t}) + 1 >= Cardinality(pending)
<1>1. IsFiniteSet(Threads) /\ pending \in SUBSET Threads
  BY LockAssumption DEF LockAssumption, TypeOK
<1>2. IsFiniteSet(pending) /\ Cardinality(pending) <= Cardinality(Threads)
  BY <1>1, FS_Subset
<1>3. Cardinality(Threads) \in Nat /\ Cardinality(pending) \in Nat
  BY <1>1, <1>2, FS_CardinalityType
<1>4. ASSUME NEW t \in Threads \ pending
      PROVE  /\ Cardinality(pending \cup {t}) = Cardinality(pending) + 1
             /\ Cardinality(pending \cup {t}) <= Cardinality(Threads)
  <2>1. pending \cup {t} \in SUBSET Threads
    BY <1>1
  <2> QED
    BY <2>1, <1>1, <1>2, FS_AddElement, FS_Subset
<1>5. ASSUME NEW t
      PROVE  /\ Cardinality(pending \ {t}) \in Nat
             /\ Cardinality(pending \ {t}) + 1 >= Cardinality(pending)
  <2>1. IsFiniteSet(pending \ {t})
    BY <1>2, FS_RemoveElement
  <2>2. Cardinality(pending \ {t}) \in Nat
    BY <2>1, FS_CardinalityType
  <2>3. Cardinality(pending \ {t})
          = IF t \in pending THEN Cardinality(pending) - 1 ELSE Cardinality(pending)
    BY <1>2, FS_RemoveElement
  <2> QED
    BY <1>3, <2>2, <2>3
<1> QED
  BY <1>2, <1>3, <1>4, <1>5

-----------------------------------------------------------------------------
(* Type correctness is preserved by every step.                            *)
LEMMA TypeStep == TypeOK /\ [Next]_vars => TypeOK'
<1> SUFFICES ASSUME TypeOK, [Next]_vars PROVE TypeOK'
  OBVIOUS
<1> USE LockAssumption
    DEF LockAssumption, TypeOK, Attempts, Pcs, Exceeded, At, Go, End, Incr, Remove, key, NoAttempt
<1>1. CASE UNCHANGED vars
  BY <1>1 DEF vars
<1>2. CASE KeyExpires
  BY <1>2 DEF KeyExpires
<1>3. ASSUME NEW t \in Threads, NEW right \in BOOLEAN, Begin(t, right) PROVE TypeOK'
  BY <1>3 DEF Begin
<1>4. ASSUME NEW t \in Threads, AttemptDies(t) PROVE TypeOK'
  <2>1. pending' \in SUBSET Threads /\ attempt' \in [Threads -> Attempts]
    BY <1>4 DEF AttemptDies
  <2>2. faults' \in 0..MaxFaults
    BY <1>4 DEF AttemptDies
  <2>3. present' \in BOOLEAN /\ counter' \in Nat /\ ttl' \in BOOLEAN /\ passed' \in Nat
    BY <1>4 DEF AttemptDies
  <2> QED
    BY <2>1, <2>2, <2>3
<1>5. ASSUME NEW t \in Threads, Work(t) PROVE TypeOK'
  <2>1. CASE HasKey(t)
    <3>1. PICK pc \in {"get", "incr"}, existed \in BOOLEAN :
             attempt' = [attempt EXCEPT ![t].pc = pc, ![t].existed = existed]
      BY <2>1 DEF HasKey
    <3>2. attempt' \in [Threads -> Attempts]
      BY <3>1
    <3> QED
      BY <2>1, <3>2 DEF HasKey
  <2>2. CASE FirstIncr(t)
    <3>1. attempt' \in [Threads -> Attempts]
      BY <2>2 DEF FirstIncr
    <3>2. /\ present' \in BOOLEAN /\ counter' \in Nat /\ ttl' \in BOOLEAN
          /\ passed' \in Nat /\ pending' \in SUBSET Threads /\ faults' \in 0..MaxFaults
      BY <2>2 DEF FirstIncr
    <3> QED
      BY <3>1, <3>2
  <2>3. CASE GetCount(t)      BY <2>3 DEF GetCount
  <2>4. CASE GetNothing(t)    BY <2>4 DEF GetNothing
  <2>5. CASE ReadTtl(t)       BY <2>5 DEF ReadTtl
  <2>6. CASE SetTtl(t)        BY <2>6 DEF SetTtl
  <2>7. CASE MatchPassword(t) BY <2>7 DEF MatchPassword
  <2>8. CASE DeleteKey(t)     BY <2>8 DEF DeleteKey
  <2>9. CASE CountFailure(t)
    <3>1. pending' \in SUBSET Threads /\ attempt' \in [Threads -> Attempts]
      BY <2>9 DEF CountFailure
    <3>2. /\ present' \in BOOLEAN /\ counter' \in Nat /\ ttl' \in BOOLEAN
          /\ passed' \in Nat /\ faults' \in 0..MaxFaults
      BY <2>9 DEF CountFailure
    <3> QED
      BY <3>1, <3>2
  <2> QED
    BY <1>5, <2>1, <2>2, <2>3, <2>4, <2>5, <2>6, <2>7, <2>8, <2>9 DEF Work
<1>6. ASSUME NEW t \in Threads, Collect(t) PROVE TypeOK'
  BY <1>6 DEF Collect
<1> QED
  BY <1>1, <1>2, <1>3, <1>4, <1>5, <1>6 DEF Next

(* The lock starts without a key and with no attempt in progress.          *)
LEMMA TypeInit == Init => TypeOK
<1> SUFFICES ASSUME Init PROVE TypeOK
  OBVIOUS
<1>1. NoAttempt \in Attempts
  BY DEF NoAttempt, Attempts, Pcs
<1>2. attempt \in [Threads -> Attempts]
  BY <1>1 DEF Init
<1>3. faults \in 0..MaxFaults
  BY LockAssumption DEF LockAssumption, Init
<1> QED
  BY <1>2, <1>3 DEF Init, TypeOK

(* Type correctness of the lock, for every set of threads.                 *)
THEOREM TypeCorrect == Spec => []TypeOK
  BY TypeInit, TypeStep, PTL DEF Spec

-----------------------------------------------------------------------------
(* What makes a failure be counted after the check: the thread has read    *)
(* that the key exists.                                                    *)
Existed == \A t \in Threads : At(t, "get") \/ t \in pending => attempt[t].existed

(* Only a thread that is at its GET becomes pending, and it gets there only*)
(* when hasKey said so.                                                    *)
LEMMA ExistedStep ==
  ASSUME TypeOK, EveryCheckCounted, Existed, [Next]_vars
  PROVE  Existed'
<1> USE DEF Existed, At, Attempts, Exceeded
<1>1. attempt \in [Threads -> Attempts]
  BY DEF TypeOK
<1>2. CASE UNCHANGED vars
  BY <1>2 DEF vars
<1>3. CASE KeyExpires
  BY <1>3 DEF KeyExpires, Remove
<1>4. ASSUME NEW t \in Threads, NEW right \in BOOLEAN, Begin(t, right) PROVE Existed'
  <2>1. t \notin pending
    BY <1>4 DEF Begin, EveryCheckCounted
  <2> QED
    BY <1>1, <1>4, <2>1 DEF Begin, NoAttempt
<1>5. ASSUME NEW t \in Threads, AttemptDies(t) PROVE Existed'
  BY <1>1, <1>5 DEF AttemptDies, End
<1>6. ASSUME NEW t \in Threads, Work(t) PROVE Existed'
  <2>1. CASE HasKey(t)
    BY <1>1, <2>1 DEF HasKey
  <2>2. CASE FirstIncr(t)
    BY <1>1, <2>2 DEF FirstIncr, Go
  <2>3. CASE GetCount(t)
    BY <1>1, <2>3 DEF GetCount, Go
  <2>4. CASE GetNothing(t)
    BY <1>1, <2>4 DEF GetNothing, End
  <2>5. CASE ReadTtl(t)
    BY <1>1, <2>5 DEF ReadTtl, Go, End
  <2>6. CASE SetTtl(t)
    BY <1>1, <2>6 DEF SetTtl, End
  <2>7. CASE MatchPassword(t)
    BY <1>1, <2>7 DEF MatchPassword, Go, End
  <2>8. CASE DeleteKey(t)
    BY <1>1, <2>8 DEF DeleteKey, Remove, End
  <2>9. CASE CountFailure(t)
    BY <1>1, <2>9 DEF CountFailure, End
  <2> QED
    BY <1>6, <2>1, <2>2, <2>3, <2>4, <2>5, <2>6, <2>7, <2>8, <2>9 DEF Work
<1>7. ASSUME NEW t \in Threads, Collect(t) PROVE Existed'
  <2>1. t \notin pending
    BY <1>7 DEF Collect, EveryCheckCounted
  <2> QED
    BY <1>1, <1>7, <2>1 DEF Collect, NoAttempt
<1> QED
  BY <1>2, <1>3, <1>4, <1>5, <1>6, <1>7 DEF Next

(* Every step keeps the account of the checks, and the bound.  The steps   *)
(* that admit a check are FirstIncr, which counts it at once, and GetCount,*)
(* which makes its thread pending; the bound follows because each of them  *)
(* has seen a counter that was not above the limit.                        *)
LEMMA CountedStep ==
  ASSUME TypeOK, EveryCheckCounted, Existed, AttemptsBounded, [Next]_vars
  PROVE  EveryCheckCounted' /\ AttemptsBounded'
<1> DEFINE Past   == {"match", "delete", "count"}
           N      == Cardinality(pending)
           Holds  == \A t \in pending : attempt[t].pc \in Past
           Sums   == /\ passed <= counter + N + faults
                     /\ passed <= MaxRetry + Cardinality(Threads) + faults
<1>1. SUFFICES Sums' /\ Holds'
  BY DEF EveryCheckCounted, AttemptsBounded
<1>2. /\ Sums /\ Holds
      /\ passed \in Nat /\ counter \in Nat /\ faults \in Nat /\ MaxRetry \in Nat
      /\ pending \in SUBSET Threads /\ attempt \in [Threads -> Attempts]
  BY LockAssumption DEF LockAssumption, TypeOK, EveryCheckCounted, AttemptsBounded
<1> USE DEF At, Attempts, Exceeded
<1>3. N \in Nat /\ Cardinality(Threads) \in Nat /\ N <= Cardinality(Threads)
  BY PendingCounts
(* The sums of a step that admits no check and keeps the key.              *)
<1>4. ASSUME UNCHANGED <<counter, pending, passed, faults>> PROVE Sums'
  BY <1>2, <1>4
<1>5. ASSUME passed' = 0, counter' = 0, pending' = {}, faults' = faults
      PROVE  Sums' /\ Holds'
  BY <1>2, <1>3, <1>5, FS_EmptySet
<1>7. ASSUME NEW t \in Threads, attempt[t].pc \notin Past PROVE t \notin pending
  BY <1>2, <1>7
<1> HIDE DEF Holds, Sums
<1>8. CASE UNCHANGED vars
  BY <1>2, <1>4, <1>8 DEF vars, key, Holds
<1>9. CASE KeyExpires
  BY <1>5, <1>9 DEF KeyExpires, Remove
<1>10. ASSUME NEW t \in Threads, NEW right \in BOOLEAN, Begin(t, right)
       PROVE  Sums' /\ Holds'
  <2>1. t \notin pending
    BY <1>7, <1>10 DEF Begin
  <2>2. Holds'
    BY <1>2, <1>10, <2>1 DEF Begin, NoAttempt, Holds
  <2> QED
    BY <1>4, <1>10, <2>2 DEF Begin, key
<1>11. ASSUME NEW t \in Threads, AttemptDies(t) PROVE Sums' /\ Holds'
  <2> DEFINE M == Cardinality(pending \ {t})
  <2>0. M \in Nat /\ M + 1 >= N
    BY PendingCounts
  <2>1. Sums'
    <3>1. N' = M /\ faults' = faults + 1 /\ passed' = passed /\ counter' = counter
      BY <1>11 DEF AttemptDies, key
    <3> HIDE DEF N, M
    <3> QED
      BY <1>2, <1>3, <2>0, <3>1 DEF Sums
  <2>2. Holds'
    BY <1>2, <1>11 DEF AttemptDies, End, Holds
  <2> QED
    BY <2>1, <2>2
<1>12. ASSUME NEW t \in Threads, HasKey(t) PROVE Sums' /\ Holds'
  <2>1. t \notin pending
    BY <1>7, <1>12 DEF HasKey
  <2>2. Holds'
    BY <1>2, <1>12, <2>1 DEF HasKey, Holds
  <2> QED
    BY <1>4, <1>12, <2>2 DEF HasKey, key
<1>13. ASSUME NEW t \in Threads, FirstIncr(t) PROVE Sums' /\ Holds'
  <2>1. t \notin pending
    BY <1>7, <1>13 DEF FirstIncr
  <2>2. Holds'
    BY <1>2, <1>13, <2>1 DEF FirstIncr, Go, Holds
  <2>3. Sums'
    BY <1>2, <1>3, <1>13 DEF FirstIncr, Incr, Sums
  <2> QED
    BY <2>2, <2>3
<1>14. ASSUME NEW t \in Threads, GetCount(t) PROVE Sums' /\ Holds'
  <2>1. t \notin pending
    BY <1>7, <1>14 DEF GetCount
  <2>2. CASE counter > MaxRetry
    <3>1. Holds'
      BY <1>2, <1>14, <2>1, <2>2 DEF GetCount, Go, Holds
    <3> QED
      BY <1>4, <1>14, <2>2, <3>1 DEF GetCount, key
  <2>3. CASE ~ (counter > MaxRetry)
    <3>1. Sums'
      BY <1>2, <1>3, <1>14, <2>1, <2>3, PendingCounts DEF GetCount, key, Sums
    <3>2. Holds'
      BY <1>2, <1>14, <2>1, <2>3 DEF GetCount, Go, Holds
    <3> QED
      BY <3>1, <3>2
  <2> QED
    BY <2>2, <2>3
<1>15. ASSUME NEW t \in Threads, GetNothing(t) \/ ReadTtl(t) \/ SetTtl(t)
       PROVE  Sums' /\ Holds'
  <2>1. t \notin pending
    BY <1>7, <1>15 DEF GetNothing, ReadTtl, SetTtl
  <2>2. Holds'
    BY <1>2, <1>15, <2>1 DEF GetNothing, ReadTtl, SetTtl, Go, End, Holds
  <2> QED
    BY <1>4, <1>15, <2>2 DEF GetNothing, ReadTtl, SetTtl, key
<1>16. ASSUME NEW t \in Threads, MatchPassword(t) PROVE Sums' /\ Holds'
  <2>1. Holds'
    BY <1>2, <1>16 DEF MatchPassword, Go, End, Existed, Holds
  <2> QED
    BY <1>4, <1>16, <2>1 DEF MatchPassword, key
<1>17. ASSUME NEW t \in Threads, DeleteKey(t) PROVE Sums' /\ Holds'
  BY <1>5, <1>17 DEF DeleteKey, Remove
<1>18. ASSUME NEW t \in Threads, CountFailure(t) PROVE Sums' /\ Holds'
  <2> DEFINE M == Cardinality(pending \ {t})
  <2>0. M \in Nat /\ M + 1 >= N
    BY PendingCounts
  <2>1. Sums'
    <3>1. N' = M /\ faults' = faults /\ passed' = passed /\ counter' = counter + 1
      BY <1>18 DEF CountFailure, Incr
    <3> HIDE DEF N, M
    <3> QED
      BY <1>2, <1>3, <2>0, <3>1 DEF Sums
  <2>2. Holds'
    BY <1>2, <1>18 DEF CountFailure, End, Holds
  <2> QED
    BY <2>1, <2>2
<1>19. ASSUME NEW t \in Threads, Collect(t) PROVE Sums' /\ Holds'
  <2>1. t \notin pending
    BY <1>7, <1>19 DEF Collect
  <2>2. Holds'
    BY <1>2, <1>19, <2>1 DEF Collect, NoAttempt, Holds
  <2> QED
    BY <1>4, <1>19, <2>2 DEF Collect, key
<1> QED
  BY <1>8, <1>9, <1>10, <1>11, <1>12, <1>13, <1>14, <1>15, <1>16, <1>17, <1>18, <1>19
  DEF Next, Work

(* Nothing is counted and nothing is pending at first.                     *)
LEMMA CountedInit == Init => EveryCheckCounted /\ Existed /\ AttemptsBounded
  BY LockAssumption, FS_EmptySet, FS_CardinalityType
  DEF LockAssumption, Init, NoAttempt, At, EveryCheckCounted, Existed, AttemptsBounded

(* However many attempts run at once, every admitted check is counted, is  *)
(* about to be, or was lost with a thread that died (CredentialsMatcherRdis*)
(* doCredentialsMatch).                                                    *)
THEOREM ChecksAreCounted == Spec => []EveryCheckCounted
<1>1. Init => EveryCheckCounted /\ Existed /\ AttemptsBounded
  BY CountedInit
<1> QED
  BY <1>1, TypeCorrect, ExistedStep, CountedStep, PTL DEF Spec

(* ... so no account admits more password checks between two removals of   *)
(* its key than the limit and the number of threads allow.                 *)
THEOREM AttemptsAreBounded == Spec => []AttemptsBounded
<1>1. Init => EveryCheckCounted /\ Existed /\ AttemptsBounded
  BY CountedInit
<1> QED
  BY <1>1, TypeCorrect, ExistedStep, CountedStep, PTL DEF Spec

-----------------------------------------------------------------------------
(* The login.                                                              *)

(* Every step of the login is a step of the lock, or leaves it alone.      *)
LEMMA LockStep == [SignInNext]_allVars => [Next]_vars
<1> SUFFICES ASSUME [SignInNext]_allVars PROVE [Next]_vars
  OBVIOUS
<1> USE DEF vars, key
<1>1. CASE UNCHANGED allVars
  BY <1>1 DEF allVars
<1>2. ASSUME NEW v \in Codes, GetVerify(v) \/ CodeExpires(v) PROVE [Next]_vars
  BY <1>2 DEF GetVerify, CodeExpires
<1>3. ASSUME NEW t \in Threads, NEW v \in Codes, NEW typed \in BOOLEAN,
             NEW p \in Passwords, Submit(t, v, typed, p)
      PROVE  [Next]_vars
  BY <1>3 DEF Submit
<1>4. ASSUME NEW t \in Threads, ServeLogin(t) PROVE [Next]_vars
  <2>1. CASE HasCode(t) \/ GetCode(t) \/ DeleteCode(t)
    BY <2>1 DEF HasCode, GetCode, DeleteCode
  <2>2. CASE ReadAccount(t)
    <3>1. CASE row.status # "normal"
      BY <2>2, <3>1 DEF ReadAccount
    <3>2. CASE row.status = "normal"
      <4>1. PICK right \in BOOLEAN : Begin(t, right)
        BY <2>2, <3>2 DEF ReadAccount
      <4> QED
        BY <4>1 DEF Next
    <3> QED
      BY <3>1, <3>2
  <2>3. CASE MatcherStep(t)
    BY <2>3 DEF MatcherStep, Next
  <2>4. CASE MatcherRefuses(t) \/ UpdateLoginUser(t)
    BY <2>4 DEF MatcherRefuses, UpdateLoginUser, Next
  <2> QED
    BY <1>4, <2>1, <2>2, <2>3, <2>4 DEF ServeLogin
<1>5. CASE LockExpires
  BY <1>5 DEF LockExpires, Next
<1>6. ASSUME NEW s \in {"normal", "frozen"}, NEW p \in Passwords,
             NEW given \in {{}} \cup {{c} : c \in Counts}, UpdateUser(s, p, given)
      PROVE  [Next]_vars
  BY <1>6 DEF UpdateUser, Edit
<1>9. ASSUME NEW c \in Counts, ClientUpdatesLogin(c) PROVE [Next]_vars
  BY <1>9 DEF ClientUpdatesLogin, Edit
<1>7. CASE DeleteUserById \/ ChangePasswordWrite
  BY <1>7 DEF DeleteUserById, Edit, ChangePasswordWrite
<1>8. ASSUME NEW old \in Passwords, NEW new \in Passwords, ChangePasswordRead(old, new)
      PROVE  [Next]_vars
  BY <1>8 DEF ChangePasswordRead, Edit
<1> QED
  BY <1>1, <1>2, <1>3, <1>4, <1>5, <1>6, <1>7, <1>8, <1>9 DEF SignInNext

(* Whatever goes on around it, adminLogin uses the retry counter as        *)
(* LoginLock describes, so the bounds proved there hold of logins.         *)
THEOREM LoginsUseTheLock == SignInSpec => UsesTheLock
<1>1. SignInInit => Init
  BY DEF SignInInit
<1> QED
  BY <1>1, LockStep, PTL DEF SignInSpec, Spec, UsesTheLock

(* ... namely: no account admits more password checks between two removals *)
(* of its key than the limit and the number of requests allow.             *)
THEOREM LoginsAreBounded == SignInSpec => []AttemptsBounded
  BY LoginsUseTheLock, AttemptsAreBounded, PTL DEF UsesTheLock

-----------------------------------------------------------------------------
(* A password change is begun only while the bound on edits leaves room.   *)
RoomForChange == change # {} => edits <= MaxEdits

SignInTypes == SignInTypeOK /\ RoomForChange

(* What the history of the requests keeps of a request that goes on, and   *)
(* what it adds.                                                           *)
LEMMA WatchKeeps ==
  ASSUME Watch, NEW t \in Threads, form'[t] # NoForm
  PROVE  /\ form[t] # NoForm /\ t \in valid => t \in valid'
         /\ form[t] # NoForm /\ t \in opened => t \in opened'
         /\ row'.status = "normal" /\ row'.password = form'[t].password => t \in valid'
         /\ ~ Locked' => t \in opened'
  BY DEF Watch, Seen

(* The forms stay forms: a request moves on, or is answered.               *)
LEMMA FormTypes ==
  ASSUME NEW t \in Threads, form \in [Threads -> Forms \cup {NoForm}]
  PROVE  /\ Answer(t) => form' \in [Threads -> Forms \cup {NoForm}]
         /\ \A pc \in {"get", "delete", "realm", "match"} :
               form[t] \in Forms /\ Proceed(t, pc)
                 => form' \in [Threads -> Forms \cup {NoForm}]
         /\ \A pc \in {"has", "get", "delete", "realm", "match"} :
               InForm(t, pc) => form[t] \in Forms
  BY DEF Answer, Proceed, InForm, Forms, NoForm

(* A client's write of the count marks the forms and changes nothing else  *)
(* in them.                                                                *)
LEMMA FormsMarked ==
  ASSUME form \in [Threads -> Forms \cup {NoForm}], NEW c \in Int, CountWritten(c)
  PROVE  /\ form' \in [Threads -> Forms \cup {NoForm}]
         /\ due' = c /\ clash' = FALSE /\ undone' = FALSE
         /\ \A t \in Threads : form[t].pc # "match" => form'[t] = form[t]
         /\ \A t \in Threads : form[t].pc = "match" => form'[t].pc = "match" /\ form'[t].old
<1>1. ASSUME NEW t \in Threads, form[t].pc = "match"
      PROVE  /\ [form[t] EXCEPT !.old = TRUE] \in Forms
             /\ [form[t] EXCEPT !.old = TRUE].pc = "match"
             /\ [form[t] EXCEPT !.old = TRUE].old
  <2>1. form[t] \in Forms
    BY <1>1 DEF NoForm
  <2> QED
    BY <1>1, <2>1 DEF Forms
<1>2. \A t \in Threads : form'[t] = IF form[t].pc = "match" THEN [form[t] EXCEPT !.old = TRUE]
                                     ELSE form[t]
  BY DEF CountWritten, InForm
<1>3. form' \in [Threads -> Forms \cup {NoForm}]
  BY <1>1 DEF CountWritten, InForm
<1> QED
  BY <1>1, <1>2, <1>3 DEF CountWritten

(* The counts a client may send are numbers.                               *)
LEMMA GivenCounts ==
  ASSUME NEW given \in {{}} \cup {{c} : c \in Counts}, NEW c \in given
  PROVE  c \in Int
  BY SignInAssumption DEF SignInAssumption

(* Type correctness is preserved by every step.                            *)
LEMMA SignInTypeStep == SignInTypes /\ TypeOK' /\ [SignInNext]_allVars => SignInTypes'
<1> SUFFICES ASSUME SignInTypes, TypeOK', [SignInNext]_allVars PROVE SignInTypes'
  OBVIOUS
<1> DEFINE CodeOK == code \in [Codes -> {"unissued", "live", "gone"}]
           FormOK == form \in [Threads -> Forms \cup {NoForm}]
           RowOK  == row \in [status : Statuses, password : Passwords, count : Int]
           EditOK == /\ change \in SUBSET Passwords
                     /\ edits \in 0..(MaxEdits + 1)
                     /\ RoomForChange
           PastOK == /\ tries \in [Codes -> Nat] /\ due \in Int
                     /\ clash \in BOOLEAN /\ undone \in BOOLEAN
           SeenOK == valid \in SUBSET Threads /\ opened \in SUBSET Threads
           AllOK  == CodeOK /\ FormOK /\ RowOK /\ EditOK /\ PastOK
<1>1. AllOK /\ SeenOK /\ MaxEdits \in Nat
  BY SignInAssumption DEF SignInTypes, SignInTypeOK
<1>2. CASE UNCHANGED allVars
  <2>1. UNCHANGED <<code, form, row, change, edits, tries, due, clash, undone, valid, opened>>
    BY <1>2 DEF allVars, rest, history, counts, watched
  <2> QED
    BY <1>1, <2>1 DEF SignInTypes, SignInTypeOK, RoomForChange
<1>3. CASE SignInNext
  <2>1. SeenOK'
    BY <1>3 DEF SignInNext, Watch, Seen
  <2>2. SUFFICES AllOK'
    BY <2>1 DEF SignInTypes, SignInTypeOK
  <2> USE <1>1 DEF history, counts, CountUntouched, rest, RoomForChange
  <2>3. ASSUME NEW v \in Codes, GetVerify(v) \/ CodeExpires(v) PROVE AllOK'
    BY <2>3 DEF GetVerify, CodeExpires
  <2>4. ASSUME NEW t \in Threads, NEW v \in Codes, NEW typed \in BOOLEAN,
               NEW p \in Passwords, Submit(t, v, typed, p)
        PROVE  AllOK'
    <3>1. FormOK'
      BY <2>4 DEF Submit, Forms
    <3> QED
      BY <2>4, <3>1 DEF Submit
  <2>5. ASSUME NEW t \in Threads, ServeLogin(t) PROVE AllOK'
    <3>1. CASE HasCode(t) \/ GetCode(t)
      <4>1. FormOK'
        BY <3>1, FormTypes DEF HasCode, GetCode
      <4> QED
        BY <3>1, <4>1 DEF HasCode, GetCode
    <3>2. CASE DeleteCode(t)
      <4>1. FormOK'
        BY <3>2, FormTypes DEF DeleteCode
      <4>2. form[t].code \in Codes
        BY <3>2, FormTypes DEF DeleteCode, Forms
      <4> QED
        BY <3>2, <4>1, <4>2 DEF DeleteCode
    <3>3. CASE ReadAccount(t)
      <4>1. form[t] \in Forms
        BY <3>3, FormTypes DEF ReadAccount
      <4>2. FormOK'
        <5>1. CASE row.status # "normal"
          BY <3>3, <5>1, FormTypes DEF ReadAccount
        <5>2. CASE row.status = "normal"
          BY <3>3, <4>1, <5>2 DEF ReadAccount, Forms
        <5> QED
          BY <5>1, <5>2
      <4> QED
        BY <3>3, <4>2 DEF ReadAccount
    <3>4. CASE MatcherStep(t)
      BY <3>4 DEF MatcherStep
    <3>5. CASE MatcherRefuses(t)
      <4>1. FormOK'
        BY <3>5, FormTypes DEF MatcherRefuses
      <4> QED
        BY <3>5, <4>1 DEF MatcherRefuses
    <3>6. CASE UpdateLoginUser(t)
      <4>1. CASE row.status = "deleted"
        <5>1. FormOK'
          BY <3>6, <4>1, FormTypes DEF UpdateLoginUser
        <5> QED
          BY <3>6, <4>1, <5>1 DEF UpdateLoginUser
      <4>2. CASE row.status # "deleted"
        <5>1. form[t] \in Forms
          BY <3>6, FormTypes DEF UpdateLoginUser, Returned
        <5>2. RowOK'
          BY <3>6, <4>2, <5>1 DEF UpdateLoginUser, CountReached, Forms
        <5>3. \A u \in Threads : InForm(u, "match") =>
                 [form[u] EXCEPT !.stale = TRUE] \in Forms
          BY FormTypes DEF Forms
        <5>4. FormOK'
          BY <3>6, <4>2, <5>3 DEF UpdateLoginUser
        <5> QED
          BY <3>6, <4>2, <5>1, <5>2, <5>4 DEF UpdateLoginUser, Forms
      <4> QED
        BY <4>1, <4>2
    <3> QED
      BY <2>5, <3>1, <3>2, <3>3, <3>4, <3>5, <3>6 DEF ServeLogin
  <2>6. CASE LockExpires
    BY <2>6 DEF LockExpires
  <2>7. ASSUME NEW s \in {"normal", "frozen"}, NEW p \in Passwords,
               NEW given \in {{}} \cup {{c} : c \in Counts}, UpdateUser(s, p, given)
        PROVE  AllOK'
    <3>1. s \in Statuses
      BY DEF Statuses
    <3>2. EditOK' /\ CodeOK' /\ tries' = tries
      BY <2>7 DEF UpdateUser, Edit
    <3>3. CASE given = {}
      <4>1. row' = [row EXCEPT !.status = s, !.password = p] /\ UNCHANGED <<form, counts>>
        BY <2>7, <3>3 DEF UpdateUser
      <4> QED
        BY <3>1, <3>2, <4>1
    <3>4. ASSUME NEW c \in given, CountWritten(c),
                 row' = [status |-> s, password |-> p, count |-> c]
          PROVE  AllOK'
      <4>1. c \in Int
        BY GivenCounts
      <4>2. RowOK'
        BY <3>1, <3>4, <4>1
      <4> QED
        BY <3>2, <3>4, <4>1, <4>2, FormsMarked
    <3> QED
      BY <2>7, <3>3, <3>4 DEF UpdateUser
  <2>11. ASSUME NEW c \in Counts, ClientUpdatesLogin(c) PROVE AllOK'
    <3>1. c + 1 \in Int
      BY SignInAssumption DEF SignInAssumption
    <3>2. EditOK' /\ CodeOK' /\ tries' = tries
      BY <2>11 DEF ClientUpdatesLogin, Edit
    <3>3. RowOK'
      BY <2>11, <3>1 DEF ClientUpdatesLogin
    <3> QED
      BY <2>11, <3>1, <3>2, <3>3, FormsMarked DEF ClientUpdatesLogin
  <2>8. CASE DeleteUserById
    BY <2>8 DEF DeleteUserById, Edit, Statuses
  <2>9. ASSUME NEW old \in Passwords, NEW new \in Passwords, ChangePasswordRead(old, new)
        PROVE  AllOK'
    BY <2>9 DEF ChangePasswordRead, Edit
  <2>10. CASE ChangePasswordWrite
    BY <2>10 DEF ChangePasswordWrite
  <2> QED
    BY <1>3, <2>3, <2>4, <2>5, <2>6, <2>7, <2>8, <2>9, <2>10, <2>11 DEF SignInNext
<1> QED
  BY <1>2, <1>3

(* Type correctness of the login, for every set of requests, captchas and  *)
(* passwords.                                                              *)
THEOREM SignInTypeCorrect == SignInSpec => []SignInTypeOK
<1>1. SignInInit => SignInTypes
  <2> SUFFICES ASSUME SignInInit PROVE SignInTypes
    OBVIOUS
  <2>1. Init => TypeOK
    BY TypeInit
  <2>2. TypeOK
    BY <2>1 DEF SignInInit
  <2>3. row \in [status : Statuses, password : Passwords, count : Int]
    BY DEF SignInInit, Statuses
  <2>4. edits \in 0..(MaxEdits + 1) /\ RoomForChange
    BY SignInAssumption DEF SignInInit, SignInAssumption, RoomForChange
  <2>5. /\ code \in [Codes -> {"unissued", "live", "gone"}]
        /\ form \in [Threads -> Forms \cup {NoForm}]
        /\ change \in SUBSET Passwords
        /\ tries \in [Codes -> Nat] /\ due \in Int
        /\ valid \in SUBSET Threads /\ opened \in SUBSET Threads
    BY DEF SignInInit
  <2>6. clash \in BOOLEAN /\ undone \in BOOLEAN
    BY DEF SignInInit
  <2> QED
    BY <2>2, <2>3, <2>4, <2>5, <2>6 DEF SignInTypes, SignInTypeOK
<1>2. SignInSpec => []TypeOK
  BY LoginsUseTheLock, TypeCorrect, PTL DEF UsesTheLock
<1>3. SignInTypes => SignInTypeOK
  BY DEF SignInTypes
<1> QED
  BY <1>1, <1>2, <1>3, SignInTypeStep, PTL DEF SignInSpec

-----------------------------------------------------------------------------
(* Captchas.  A captcha that is gone has been tried once for each request  *)
(* that got past its GET and past its DEL; as long as it is live it has    *)
(* not been tried at all.                                                  *)
Trying(v) == {t \in Threads : InForm(t, "delete") /\ form[t].code = v}

TriesAccounted ==
    \A v \in Codes :
        IF code[v] = "gone" THEN tries[v] + Cardinality(Trying(v)) <= Cardinality(Threads)
                            ELSE tries[v] = 0

(* The requests about to try a captcha are finitely many, and no more than *)
(* the requests there are.                                                 *)
LEMMA TryingCounts ==
  ASSUME NEW S \in SUBSET Threads
  PROVE  /\ Cardinality(S) \in Nat /\ Cardinality(Threads) \in Nat
         /\ Cardinality(S) <= Cardinality(Threads)
         /\ \A T \in SUBSET S : Cardinality(T) <= Cardinality(S)
         /\ \A t \in S : Cardinality(S \ {t}) = Cardinality(S) - 1
<1>1. IsFiniteSet(Threads)
  BY LockAssumption DEF LockAssumption
<1>2. IsFiniteSet(S) /\ Cardinality(S) <= Cardinality(Threads)
  BY <1>1, FS_Subset
<1> QED
  BY <1>1, <1>2, FS_Subset, FS_CardinalityType, FS_RemoveElement

(* A request that is answered, or goes on after its DEL, tries no captcha. *)
LEMMA NoMoreTrying ==
  ASSUME form \in [Threads -> Forms \cup {NoForm}], NEW t \in Threads,
         \/ Answer(t)
         \/ \E pc \in {"get", "realm", "match"} : form[t] \in Forms /\ Proceed(t, pc)
  PROVE  \A v : Trying(v)' \subseteq Trying(v) \ {t}
<1>1. \A u \in Threads \ {t} : form'[u] = form[u]
  BY DEF Answer, Proceed
<1>2. NoForm.pc = "off"
  BY DEF NoForm
<1>3. form'[t].pc # "delete"
  <2>1. CASE Answer(t)
    BY <1>2, <2>1 DEF Answer
  <2>2. CASE \E pc \in {"get", "realm", "match"} : form[t] \in Forms /\ Proceed(t, pc)
    BY <2>2 DEF Proceed, Forms
  <2> QED
    BY <2>1, <2>2
<1> QED
  BY <1>1, <1>3 DEF Trying, InForm

(* A step that tries no captcha and adds no request that will.             *)
LEMMA TriesKept ==
  ASSUME SignInTypeOK, TriesAccounted, UNCHANGED <<code, tries>>,
         \A v \in Codes : code[v] = "gone" => Trying(v)' \subseteq Trying(v)
  PROVE  TriesAccounted'
<1>1. tries \in [Codes -> Nat]
  BY DEF SignInTypeOK
<1>2. SUFFICES ASSUME NEW v \in Codes, code[v] = "gone"
               PROVE  tries[v] + Cardinality(Trying(v)') <= Cardinality(Threads)
  BY DEF TriesAccounted
<1>3. Trying(v)' \subseteq Trying(v) /\ Trying(v) \in SUBSET Threads
  BY <1>2 DEF Trying
<1>4. /\ Cardinality(Trying(v)') <= Cardinality(Trying(v))
      /\ Cardinality(Trying(v)) \in Nat /\ Cardinality(Threads) \in Nat
  BY <1>3, TryingCounts
<1>5. Cardinality(Trying(v)') \in Nat
  BY <1>3, TryingCounts
<1>6. tries[v] + Cardinality(Trying(v)) <= Cardinality(Threads)
  BY <1>2 DEF TriesAccounted
<1> QED
  BY <1>1, <1>4, <1>5, <1>6

(* Every step keeps the account of the tries: GETs make requests that will *)
(* try a captcha only while it is live, and the DEL that comes before each *)
(* comparison takes its request out of them.                               *)
LEMMA TriesStep ==
  ASSUME SignInTypeOK, TriesAccounted, [SignInNext]_allVars
  PROVE  TriesAccounted'
<1>1. /\ code \in [Codes -> {"unissued", "live", "gone"}]
      /\ form \in [Threads -> Forms \cup {NoForm}]
      /\ tries \in [Codes -> Nat]
  BY DEF SignInTypeOK
<1> USE DEF InForm, Trying, history, counts, rest
<1>2. CASE UNCHANGED allVars
  BY <1>2, TriesKept DEF allVars
<1>3. CASE UNCHANGED <<code, form, tries>>
  BY <1>3, TriesKept
<1>4. ASSUME NEW t \in Threads, UNCHANGED <<code, tries>>,
             \/ Answer(t)
             \/ \E pc \in {"get", "realm", "match"} : form[t] \in Forms /\ Proceed(t, pc)
      PROVE  TriesAccounted'
  <2>1. \A v \in Codes : Trying(v)' \subseteq Trying(v)
    BY <1>1, <1>4, NoMoreTrying
  <2> QED
    BY <1>4, <2>1, TriesKept
<1>5. ASSUME NEW v \in Codes, GetVerify(v) \/ CodeExpires(v) PROVE TriesAccounted'
  <2>1. UNCHANGED <<form, tries>> /\ code[v] # "gone" /\ code' = [code EXCEPT ![v] = code'[v]]
    BY <1>1, <1>5 DEF GetVerify, CodeExpires
  <2>2. \A w \in Codes : Trying(w)' = Trying(w) /\ Trying(w) \in SUBSET Threads
    BY <2>1
  <2>3. tries[v] = 0
    BY <2>1 DEF TriesAccounted
  <2>4. tries[v] + Cardinality(Trying(v)) <= Cardinality(Threads)
    BY <2>2, <2>3, TryingCounts
  <2> QED
    BY <1>1, <2>1, <2>2, <2>3, <2>4 DEF TriesAccounted
<1>6. ASSUME NEW t \in Threads, NEW v \in Codes, NEW typed \in BOOLEAN,
             NEW p \in Passwords, Submit(t, v, typed, p)
      PROVE  TriesAccounted'
  <2>1. \A w \in Codes : Trying(w)' \subseteq Trying(w)
    BY <1>1, <1>6 DEF Submit
  <2> QED
    BY <1>6, <2>1, TriesKept DEF Submit
<1>7. ASSUME NEW t \in Threads, ServeLogin(t) PROVE TriesAccounted'
  <2>1. CASE HasCode(t)
    BY <2>1, <1>1, <1>4, FormTypes DEF HasCode
  <2>2. CASE GetCode(t)
    <3>1. CASE code[form[t].code] = "live"
      <4>1. Proceed(t, "delete") /\ form[t] \in Forms
        BY <2>2, <3>1, <1>1, FormTypes DEF GetCode
      <4>2. \A v \in Codes : code[v] = "gone" => Trying(v)' \subseteq Trying(v)
        BY <1>1, <3>1, <4>1 DEF Proceed, Forms
      <4> QED
        BY <2>2, <4>2, TriesKept DEF GetCode
    <3>2. CASE code[form[t].code] # "live"
      BY <2>2, <3>2, <1>4 DEF GetCode
    <3> QED
      BY <3>1, <3>2
  <2>3. CASE DeleteCode(t)
    <3> DEFINE v == form[t].code
    <3>1. form[t] \in Forms /\ v \in Codes /\ t \in Trying(v)
      BY <2>3, <1>1, FormTypes DEF DeleteCode, Forms
    <3>2. /\ code' = [code EXCEPT ![v] = "gone"]
          /\ tries' = [tries EXCEPT ![v] = @ + 1]
          /\ Proceed(t, "realm") \/ Answer(t)
      BY <2>3 DEF DeleteCode
    <3> HIDE DEF v
    <3>3. \A w \in Codes : Trying(w)' \subseteq Trying(w) \ {t}
      BY <1>1, <3>1, <3>2, NoMoreTrying
    <3>4. \A w \in Codes : /\ Trying(w)' \in SUBSET Threads /\ Trying(w) \in SUBSET Threads
                           /\ Trying(w) \ {t} \in SUBSET Trying(w)
                           /\ Trying(w) \ {t} \in SUBSET Threads
      OBVIOUS
    <3> HIDE DEF Trying
    <3>5. ASSUME NEW w \in Codes
          PROVE  /\ Cardinality(Trying(w)') \in Nat /\ Cardinality(Trying(w)) \in Nat
                 /\ Cardinality(Trying(w)') <= Cardinality(Trying(w))
                 /\ w = v => Cardinality(Trying(w)') <= Cardinality(Trying(w)) - 1
                 /\ Cardinality(Trying(w)) <= Cardinality(Threads)
                 /\ Cardinality(Threads) \in Nat
      <4>1. Trying(w)' \in SUBSET Trying(w)
        BY <3>3
      <4>2. Cardinality(Trying(w)') <= Cardinality(Trying(w) \ {t})
        BY <3>3, <3>4, TryingCounts
      <4>3. w = v => Cardinality(Trying(w) \ {t}) = Cardinality(Trying(w)) - 1
        BY <3>1, <3>4, TryingCounts
      <4> QED
        BY <3>4, <4>1, <4>2, <4>3, TryingCounts
    <3>6. SUFFICES ASSUME NEW w \in Codes
                   PROVE  IF code'[w] = "gone"
                          THEN tries'[w] + Cardinality(Trying(w)') <= Cardinality(Threads)
                          ELSE tries'[w] = 0
      BY DEF TriesAccounted
    <3>7. IF code[w] = "gone"
          THEN tries[w] + Cardinality(Trying(w)) <= Cardinality(Threads)
          ELSE tries[w] = 0
      BY DEF TriesAccounted
    <3>8. CASE w = v
      <4>1. code'[w] = "gone" /\ tries'[w] = tries[w] + 1 /\ tries[w] \in Nat
        BY <1>1, <3>1, <3>2, <3>8
      <4> QED
        BY <3>5, <3>7, <3>8, <4>1
    <3>9. CASE w # v
      <4>1. code'[w] = code[w] /\ tries'[w] = tries[w] /\ tries[w] \in Nat
        BY <1>1, <3>1, <3>2, <3>9
      <4> QED
        BY <3>5, <3>7, <4>1
    <3> QED
      BY <3>8, <3>9
  <2>4. CASE ReadAccount(t)
    <3>1. \A w \in Codes : Trying(w)' \subseteq Trying(w)
      <4>1. CASE row.status # "normal"
        BY <2>4, <4>1, <1>1, NoMoreTrying DEF ReadAccount
      <4>2. CASE row.status = "normal"
        <5>1. form[t] \in Forms
          BY <2>4, <1>1, FormTypes DEF ReadAccount
        <5> QED
          BY <2>4, <4>2, <5>1, <1>1 DEF ReadAccount, Forms
      <4> QED
        BY <4>1, <4>2
    <3> QED
      BY <2>4, <3>1, TriesKept DEF ReadAccount
  <2>5. CASE MatcherStep(t)
    BY <2>5, <1>3 DEF MatcherStep
  <2>6. CASE MatcherRefuses(t)
    BY <2>6, <1>4 DEF MatcherRefuses
  <2>7. CASE UpdateLoginUser(t)
    <3>1. \A w \in Codes : Trying(w)' \subseteq Trying(w)
      <4>1. CASE row.status = "deleted"
        BY <2>7, <4>1, <1>1, NoMoreTrying DEF UpdateLoginUser
      <4>2. CASE row.status # "deleted"
        <5>1. \A u \in Threads :
                 form'[u] = IF u = t THEN NoForm
                            ELSE IF form[u].pc = "match"
                                 THEN [form[u] EXCEPT !.stale = TRUE] ELSE form[u]
          BY <2>7, <4>2 DEF UpdateLoginUser
        <5>2. ASSUME NEW u \in Threads, form'[u].pc = "delete" PROVE form'[u] = form[u]
          <6>1. CASE form[u].pc = "match" /\ u # t
            <7>1. form[u] \in Forms
              BY <6>1, <1>1, FormTypes
            <7>2. form'[u].pc = "match"
              BY <5>1, <6>1, <7>1 DEF Forms
            <7> QED
              BY <5>2, <7>2
          <6>2. CASE u = t
            <7>1. NoForm.pc = "off"
              BY DEF NoForm
            <7> QED
              BY <5>1, <5>2, <6>2, <7>1
          <6> QED
            BY <5>1, <6>1, <6>2
        <5> QED
          BY <5>2
      <4> QED
        BY <4>1, <4>2
    <3> QED
      BY <2>7, <3>1, TriesKept DEF UpdateLoginUser
  <2> QED
    BY <1>7, <2>1, <2>2, <2>3, <2>4, <2>5, <2>6, <2>7 DEF ServeLogin
<1>8. CASE LockExpires
  BY <1>8, <1>3 DEF LockExpires
<1>12. ASSUME NEW c \in Int, CountWritten(c), UNCHANGED <<code, tries>> PROVE TriesAccounted'
  <2>1. \A v \in Codes : Trying(v)' \subseteq Trying(v)
    BY <1>1, <1>12, FormsMarked
  <2> QED
    BY <1>12, <2>1, TriesKept
<1>9. ASSUME NEW s \in {"normal", "frozen"}, NEW p \in Passwords,
             NEW given \in {{}} \cup {{c} : c \in Counts}, UpdateUser(s, p, given)
      PROVE  TriesAccounted'
  <2>1. UNCHANGED <<code, tries>>
    BY <1>9 DEF UpdateUser, Edit
  <2>2. ASSUME NEW c \in given, CountWritten(c) PROVE TriesAccounted'
    BY <1>12, <2>1, <2>2, GivenCounts
  <2> QED
    BY <1>3, <1>9, <2>1, <2>2 DEF UpdateUser, CountUntouched
<1>13. ASSUME NEW c \in Counts, ClientUpdatesLogin(c) PROVE TriesAccounted'
  <2>1. c + 1 \in Int
    BY SignInAssumption DEF SignInAssumption
  <2> QED
    BY <1>12, <1>13, <2>1 DEF ClientUpdatesLogin, Edit
<1>10. CASE DeleteUserById \/ ChangePasswordWrite
  BY <1>10, <1>3 DEF DeleteUserById, Edit, ChangePasswordWrite, CountUntouched
<1>11. ASSUME NEW old \in Passwords, NEW new \in Passwords, ChangePasswordRead(old, new)
       PROVE  TriesAccounted'
  BY <1>11, <1>3 DEF ChangePasswordRead, Edit, CountUntouched
<1> QED
  BY <1>2, <1>5, <1>6, <1>7, <1>8, <1>9, <1>10, <1>11, <1>13 DEF SignInNext

(* However requests interleave between the commands on a captcha, its text *)
(* is tried no more often than there are requests at once (adminLogin).    *)
THEOREM GuessesAreBounded == SignInSpec => []GuessesBounded
<1>1. SignInInit => TriesAccounted
  BY DEF SignInInit, TriesAccounted
<1>2. SignInTypeOK /\ TriesAccounted => GuessesBounded
  <2> SUFFICES ASSUME SignInTypeOK, TriesAccounted, NEW v \in Codes
               PROVE  tries[v] <= Cardinality(Threads)
    BY DEF GuessesBounded
  <2>1. tries[v] \in Nat /\ Trying(v) \in SUBSET Threads
    BY DEF SignInTypeOK, Trying
  <2>2. /\ Cardinality(Trying(v)) \in Nat /\ Cardinality(Threads) \in Nat
    BY <2>1, TryingCounts
  <2>3. IF code[v] = "gone" THEN tries[v] + Cardinality(Trying(v)) <= Cardinality(Threads)
                            ELSE tries[v] = 0
    BY DEF TriesAccounted
  <2> QED
    BY <2>1, <2>2, <2>3
<1> QED
  BY <1>1, <1>2, SignInTypeCorrect, TriesStep, PTL DEF SignInSpec

-----------------------------------------------------------------------------
(* Due logins.  What the history must hold of a request in the password    *)
(* check: a right password was valid when the realm read the account, the  *)
(* account was open when the counter let the request through, and only a   *)
(* right password gets to the end.                                         *)
Due(t) ==
    InForm(t, "match") =>
        /\ ~ At(t, "done") /\ attempt[t].right => t \in valid
        /\ attempt[t].pc \in {"match", "delete", "count"} => t \in opened
        /\ At(t, "delete") => attempt[t].right
        /\ At(t, "done") /\ attempt[t].outcome = "ok" => t \in valid /\ t \in opened

AllDue == \A t \in Threads : Due(t)

(* What a step leaves due: requests whose attempt it does not touch.       *)
LEMMA DueKept ==
  ASSUME Watch, NEW u \in Threads, Due(u), attempt'[u] = attempt[u],
         form'[u].pc = "match" => form[u].pc = "match"
  PROVE  Due(u)'
<1>1. NoForm.pc = "off"
  BY DEF NoForm
<1>2. SUFFICES ASSUME form'[u].pc = "match" PROVE Due(u)'
  BY DEF Due, InForm
<1>3. form[u] # NoForm /\ form'[u] # NoForm
  BY <1>1, <1>2
<1>4. (u \in valid => u \in valid') /\ (u \in opened => u \in opened')
  BY <1>3, WatchKeeps
<1> QED
  BY <1>2, <1>4 DEF Due, InForm, At

(* The steps of a request.                                                 *)
LEMMA DueServed ==
  ASSUME SignInTypeOK, AllDue, Watch, NEW t \in Threads, ServeLogin(t)
  PROVE  AllDue'
<1>1. /\ attempt \in [Threads -> Attempts] /\ counter \in Nat /\ MaxRetry \in Nat
      /\ form \in [Threads -> Forms \cup {NoForm}]
  BY LockAssumption DEF LockAssumption, SignInTypeOK, TypeOK
<1>2. NoForm.pc = "off"
  BY DEF NoForm
<1> USE DEF InForm, At
<1>3. ASSUME \A u \in Threads : attempt'[u] = attempt[u],
             \A u \in Threads : form'[u].pc = "match" => form[u].pc = "match"
      PROVE  AllDue'
  BY <1>3, DueKept DEF AllDue
<1>4. ASSUME \A u \in Threads \ {t} : /\ attempt'[u] = attempt[u]
                                      /\ form'[u].pc = "match" => form[u].pc = "match",
             form'[t].pc = "match" => Due(t)'
      PROVE  AllDue'
  <2>1. Due(t)'
    BY <1>4 DEF Due
  <2> QED
    BY <1>4, <2>1, DueKept DEF AllDue
<1>5. CASE HasCode(t) \/ GetCode(t) \/ DeleteCode(t)
  <2>1. Answer(t) \/ \E pc \in {"get", "delete", "realm"} : Proceed(t, pc) /\ form[t] \in Forms
    BY <1>1, <1>5, FormTypes DEF HasCode, GetCode, DeleteCode
  <2>2. \A u \in Threads : form'[u].pc = "match" => form[u].pc = "match"
    BY <1>1, <1>2, <2>1 DEF Answer, Proceed, Forms
  <2>3. attempt' = attempt
    BY <1>5 DEF HasCode, GetCode, DeleteCode, vars
  <2> QED
    BY <1>3, <2>2, <2>3
<1>6. CASE ReadAccount(t)
  <2>1. CASE row.status # "normal"
    <3>1. Answer(t) /\ attempt' = attempt
      BY <1>6, <2>1 DEF ReadAccount, vars
    <3> QED
      BY <1>1, <1>2, <1>3, <3>1 DEF Answer
  <2>2. CASE row.status = "normal"
    <3>1. /\ form[t] \in Forms
          /\ form' = [form EXCEPT ![t].pc = "match", ![t].count = row.count]
          /\ row' = row
      BY <1>1, <1>6, <2>2, FormTypes DEF ReadAccount
    <3>2. attempt' = [attempt EXCEPT ![t] = [NoAttempt EXCEPT !.pc = "has",
                        !.right = (form[t].password = row.password)]]
      BY <1>6, <2>2 DEF ReadAccount, Begin
    <3>3. attempt'[t].pc = "has" /\ attempt'[t].right = (form[t].password = row.password)
      BY <1>1, <3>2 DEF NoAttempt
    <3>4. form'[t].pc = "match" /\ form'[t].password = form[t].password
      BY <1>1, <3>1 DEF Forms
    <3>5. attempt'[t].right => t \in valid'
      BY <1>2, <2>2, <3>1, <3>3, <3>4, WatchKeeps
    <3>6. Due(t)'
      BY <3>3, <3>5 DEF Due
    <3> QED
      BY <1>1, <1>4, <3>1, <3>2, <3>6
  <2> QED
    BY <2>1, <2>2
<1>7. CASE MatcherStep(t)
  <2>1. form' = form /\ form[t].pc = "match"
    BY <1>7 DEF MatcherStep, rest
  <2>2. /\ t \in valid => t \in valid'
        /\ t \in opened => t \in opened'
        /\ ~ Locked' => t \in opened'
    BY <1>2, <2>1, WatchKeeps
  <2>3. Due(t)
    BY DEF AllDue
  <2>4. /\ \A u \in Threads \ {t} : attempt'[u] = attempt[u]
        /\ Due(t)'
    <3>1. CASE AttemptDies(t)
      BY <1>1, <2>1, <3>1 DEF AttemptDies, End, Due, Attempts
    <3>2. CASE HasKey(t)
      BY <1>1, <2>1, <2>2, <2>3, <3>2 DEF HasKey, Due, Attempts
    <3>3. CASE FirstIncr(t)
      <4>1. /\ \A u \in Threads \ {t} : attempt'[u] = attempt[u]
            /\ attempt'[t].right = attempt[t].right
            /\ attempt[t].pc = "incr"
            /\ \/ attempt'[t].pc = "readTtl"
               \/ attempt'[t].pc = "match" /\ ~ Locked'
        BY <1>1, <3>3 DEF FirstIncr, Go, Incr, Locked, Exceeded, Attempts
      <4> QED
        BY <2>1, <2>2, <2>3, <4>1 DEF Due
    <3>4. CASE GetCount(t)
      <4>1. /\ \A u \in Threads \ {t} : attempt'[u] = attempt[u]
            /\ attempt'[t].right = attempt[t].right
            /\ attempt[t].pc = "get"
            /\ \/ attempt'[t].pc = "readTtl"
               \/ attempt'[t].pc = "match" /\ ~ Locked'
        BY <1>1, <3>4 DEF GetCount, Go, Locked, Exceeded, Attempts, key
      <4> QED
        BY <2>1, <2>2, <2>3, <4>1 DEF Due
    <3>5. CASE GetNothing(t)
      BY <1>1, <2>1, <3>5 DEF GetNothing, End, Due, Attempts
    <3>6. CASE ReadTtl(t)
      BY <1>1, <2>1, <2>2, <2>3, <3>6 DEF ReadTtl, Go, End, Due, Attempts
    <3>7. CASE SetTtl(t)
      BY <1>1, <2>1, <3>7 DEF SetTtl, End, Due, Attempts
    <3>8. CASE MatchPassword(t)
      BY <1>1, <2>1, <2>2, <2>3, <3>8 DEF MatchPassword, Go, End, Due, Attempts
    <3>9. CASE DeleteKey(t)
      BY <1>1, <2>1, <2>2, <2>3, <3>9 DEF DeleteKey, End, Due, Attempts
    <3>10. CASE CountFailure(t)
      BY <1>1, <2>1, <3>10 DEF CountFailure, End, Due, Attempts
    <3> QED
      BY <1>7, <3>1, <3>2, <3>3, <3>4, <3>5, <3>6, <3>7, <3>8, <3>9, <3>10
      DEF MatcherStep, Work
  <2> QED
    BY <1>4, <2>1, <2>4
<1>8. CASE MatcherRefuses(t) \/ UpdateLoginUser(t)
  <2>1. \A u \in Threads \ {t} : attempt'[u] = attempt[u]
    BY <1>1, <1>8 DEF MatcherRefuses, UpdateLoginUser, Collect
  <2>2. form'[t].pc # "match" /\ \A u \in Threads \ {t} : form'[u].pc = form[u].pc
    <3>1. CASE Answer(t)
      BY <1>1, <1>2, <3>1 DEF Answer
    <3>2. CASE ~ Answer(t)
      <4>1. \A u \in Threads :
               form'[u] = IF u = t THEN NoForm
                          ELSE IF form[u].pc = "match"
                               THEN [form[u] EXCEPT !.stale = TRUE] ELSE form[u]
        BY <1>8, <3>2 DEF MatcherRefuses, UpdateLoginUser
      <4>2. \A u \in Threads : form[u].pc = "match" =>
               [form[u] EXCEPT !.stale = TRUE].pc = "match"
        BY <1>1, FormTypes DEF Forms
      <4> QED
        BY <1>2, <4>1, <4>2
    <3> QED
      BY <3>1, <3>2
  <2> QED
    BY <1>4, <2>1, <2>2
<1> QED
  BY <1>5, <1>6, <1>7, <1>8 DEF ServeLogin

(* A login succeeds only if, at some moment of the request, the account    *)
(* was unfrozen and had the given password, and at some moment it was not  *)
(* locked (adminLogin, doGetAuthenticationInfo, doCredentialsMatch).       *)
THEOREM LoginsAreDue == SignInSpec => []LoginWasDue
<1>1. SignInInit => AllDue
  BY DEF SignInInit, AllDue, Due, InForm, NoForm
<1>2. SignInTypeOK /\ AllDue /\ [SignInNext]_allVars => AllDue'
  <2> SUFFICES ASSUME SignInTypeOK, AllDue, [SignInNext]_allVars PROVE AllDue'
    OBVIOUS
  <2>1. CASE UNCHANGED allVars
    BY <2>1 DEF allVars, vars, rest, watched, AllDue, Due, InForm, At
  <2>2. CASE SignInNext
    <3>1. Watch
      BY <2>2 DEF SignInNext
    <3>2. ASSUME form' = form, attempt' = attempt PROVE AllDue'
      BY <3>1, <3>2, DueKept DEF AllDue
    <3>3. ASSUME NEW v \in Codes, GetVerify(v) \/ CodeExpires(v) PROVE AllDue'
      BY <3>2, <3>3 DEF GetVerify, CodeExpires, vars
    <3>4. ASSUME NEW t \in Threads, NEW v \in Codes, NEW typed \in BOOLEAN,
                 NEW p \in Passwords, Submit(t, v, typed, p)
          PROVE  AllDue'
      <4>1. attempt' = attempt /\ \A u \in Threads : form'[u].pc = "match" => form[u].pc = "match"
        BY <3>4 DEF Submit, vars, SignInTypeOK
      <4> QED
        BY <3>1, <4>1, DueKept DEF AllDue
    <3>5. ASSUME NEW t \in Threads, ServeLogin(t) PROVE AllDue'
      BY <3>1, <3>5, DueServed
    <3>6. CASE LockExpires
      BY <3>2, <3>6 DEF LockExpires, KeyExpires, rest
    <3>10. ASSUME NEW c \in Int, CountWritten(c), attempt' = attempt PROVE AllDue'
      <4>1. \A u \in Threads : form'[u].pc = "match" => form[u].pc = "match"
        BY <3>10, FormsMarked DEF SignInTypeOK
      <4> QED
        BY <3>1, <3>10, <4>1, DueKept DEF AllDue
    <3>7. ASSUME NEW s \in {"normal", "frozen"}, NEW p \in Passwords,
                 NEW given \in {{}} \cup {{c} : c \in Counts}, UpdateUser(s, p, given)
          PROVE  AllDue'
      <4>1. attempt' = attempt
        BY <3>7 DEF UpdateUser, Edit, vars
      <4>2. ASSUME NEW c \in given, CountWritten(c) PROVE AllDue'
        BY <3>10, <4>1, <4>2, GivenCounts
      <4> QED
        BY <3>2, <3>7, <4>1, <4>2 DEF UpdateUser, CountUntouched
    <3>11. ASSUME NEW c \in Counts, ClientUpdatesLogin(c) PROVE AllDue'
      <4>1. c + 1 \in Int
        BY SignInAssumption DEF SignInAssumption
      <4> QED
        BY <3>10, <3>11, <4>1 DEF ClientUpdatesLogin, Edit, vars
    <3>8. CASE DeleteUserById \/ ChangePasswordWrite
      BY <3>2, <3>8 DEF DeleteUserById, Edit, ChangePasswordWrite, CountUntouched, vars
    <3>9. ASSUME NEW old \in Passwords, NEW new \in Passwords, ChangePasswordRead(old, new)
          PROVE  AllDue'
      BY <3>2, <3>9 DEF ChangePasswordRead, Edit, CountUntouched, vars
    <3> QED
      BY <2>2, <3>3, <3>4, <3>5, <3>6, <3>7, <3>8, <3>9, <3>11 DEF SignInNext
  <2> QED
    BY <2>1, <2>2
<1>3. AllDue => LoginWasDue
  BY DEF AllDue, Due, LoginWasDue, Returned
<1> QED
  BY <1>1, <1>2, <1>3, SignInTypeCorrect, PTL DEF SignInSpec

-----------------------------------------------------------------------------
(* The login counter.  Unless a client has written the count since, what a *)
(* request in the password check has read is never more than is due, and   *)
(* is what the row holds as long as no other login has been written back.  *)
CountsKnown ==
    /\ LoginsCounted
    /\ \A t \in Threads : InForm(t, "match") /\ ~ form[t].old =>
          /\ ~ undone => form[t].count <= due
          /\ ~ form[t].stale => form[t].count = row.count

(* Only updateLoginUser and a client change the count, and only            *)
(* ReadAccount what a request knows of it.                                 *)
LEMMA CountsStep ==
  ASSUME SignInTypeOK, CountsKnown, [SignInNext]_allVars
  PROVE  CountsKnown'
<1>1. /\ form \in [Threads -> Forms \cup {NoForm}]
      /\ row \in [status : Statuses, password : Passwords, count : Int]
      /\ due \in Int /\ clash \in BOOLEAN /\ undone \in BOOLEAN
  BY DEF SignInTypeOK
<1>2. NoForm.pc = "off"
  BY DEF NoForm
<1> USE DEF InForm, history, counts, rest, LoginsCounted
<1>3. ASSUME row'.count = row.count, UNCHANGED counts,
             \A u \in Threads : form'[u] = form[u] \/ form'[u].pc # "match"
      PROVE  CountsKnown'
  BY <1>3 DEF CountsKnown
<1>4. CASE UNCHANGED allVars
  BY <1>3, <1>4 DEF allVars
<1>5. ASSUME NEW v \in Codes, GetVerify(v) \/ CodeExpires(v) PROVE CountsKnown'
  BY <1>3, <1>5 DEF GetVerify, CodeExpires
<1>6. ASSUME NEW t \in Threads, NEW v \in Codes, NEW typed \in BOOLEAN,
             NEW p \in Passwords, Submit(t, v, typed, p)
      PROVE  CountsKnown'
  <2>1. \A u \in Threads : form'[u] = form[u] \/ form'[u].pc # "match"
    BY <1>1, <1>6 DEF Submit
  <2> QED
    BY <1>3, <1>6, <2>1 DEF Submit
<1>7. ASSUME NEW t \in Threads, ServeLogin(t) PROVE CountsKnown'
  <2>1. CASE HasCode(t) \/ GetCode(t) \/ DeleteCode(t)
    <3>1. Answer(t) \/ \E pc \in {"get", "delete", "realm"} : Proceed(t, pc) /\ form[t] \in Forms
      BY <1>1, <2>1, FormTypes DEF HasCode, GetCode, DeleteCode
    <3>2. \A u \in Threads : form'[u] = form[u] \/ form'[u].pc # "match"
      BY <1>1, <1>2, <3>1 DEF Answer, Proceed, Forms
    <3> QED
      BY <1>3, <2>1, <3>2 DEF HasCode, GetCode, DeleteCode
  <2>2. CASE ReadAccount(t)
    <3>1. CASE row.status # "normal"
      <4>1. \A u \in Threads : form'[u] = form[u] \/ form'[u].pc # "match"
        BY <1>1, <1>2, <2>2, <3>1 DEF ReadAccount, Answer
      <4> QED
        BY <1>3, <2>2, <4>1 DEF ReadAccount
    <3>2. CASE row.status = "normal"
      <4>1. /\ form[t] \in Forms
            /\ form' = [form EXCEPT ![t].pc = "match", ![t].count = row.count]
            /\ row' = row /\ UNCHANGED counts
        BY <1>1, <2>2, <3>2, FormTypes DEF ReadAccount
      <4>2. form'[t].count = row.count /\ \A u \in Threads \ {t} : form'[u] = form[u]
        BY <1>1, <4>1 DEF Forms
      <4> QED
        BY <1>1, <4>1, <4>2 DEF CountsKnown
    <3> QED
      BY <3>1, <3>2
  <2>3. CASE MatcherStep(t)
    BY <1>3, <2>3 DEF MatcherStep
  <2>4. CASE MatcherRefuses(t)
    <3>1. \A u \in Threads : form'[u] = form[u] \/ form'[u].pc # "match"
      BY <1>1, <1>2, <2>4 DEF MatcherRefuses, Answer
    <3> QED
      BY <1>3, <2>4, <3>1 DEF MatcherRefuses
  <2>5. CASE UpdateLoginUser(t)
    <3>1. CASE row.status = "deleted"
      <4>1. \A u \in Threads : form'[u] = form[u] \/ form'[u].pc # "match"
        BY <1>1, <1>2, <2>5, <3>1 DEF UpdateLoginUser, Answer
      <4> QED
        BY <1>3, <2>5, <3>1, <4>1 DEF UpdateLoginUser
    <3>2. CASE row.status # "deleted"
      <4>1. /\ form[t] \in Forms /\ form[t].pc = "match"
            /\ row' = [row EXCEPT !.count = form[t].count + 1]
            /\ due' = due + 1
            /\ clash' = (clash \/ form[t].stale)
            /\ undone' = (undone \/ form[t].old)
            /\ \A u \in Threads :
                  form'[u] = IF u = t THEN NoForm
                             ELSE IF form[u].pc = "match"
                                  THEN [form[u] EXCEPT !.stale = TRUE] ELSE form[u]
        BY <1>1, <2>5, <3>2, FormTypes DEF UpdateLoginUser, Returned, CountReached
      <4>2. /\ form[t].count \in Int /\ row.count \in Int
            /\ ~ form[t].old /\ ~ undone => form[t].count <= due
            /\ ~ form[t].old /\ ~ form[t].stale => form[t].count = row.count
        BY <1>1, <4>1 DEF CountsKnown, Forms
      <4>3. row'.count = form[t].count + 1
        BY <1>1, <4>1
      <4>4. LoginsCounted'
        <5>1. SUFFICES ASSUME ~ undone'
                       PROVE  row'.count <= due' /\ (~ clash' => row'.count = due')
          OBVIOUS
        <5>2. ~ undone /\ ~ form[t].old
          BY <4>1, <5>1
        <5>3. row'.count <= due'
          BY <1>1, <4>1, <4>2, <4>3, <5>2
        <5>4. ASSUME ~ clash' PROVE row'.count = due'
          <6>1. ~ clash /\ ~ form[t].stale
            BY <4>1, <5>4
          <6>2. form[t].count = row.count /\ row.count = due
            BY <4>2, <5>2, <6>1 DEF CountsKnown
          <6> QED
            BY <1>1, <4>1, <4>3, <6>2
        <5> QED
          BY <5>3, <5>4
      <4>5. ASSUME NEW u \in Threads, form'[u].pc = "match", ~ form'[u].old
            PROVE  (~ undone' => form'[u].count <= due') /\ form'[u].stale
        <5>1. u # t
          BY <1>2, <4>1, <4>5
        <5>2. form[u].pc = "match"
          <6>1. form[u].pc # "match" => form'[u] = form[u]
            BY <4>1, <5>1
          <6> QED
            BY <4>5, <6>1
        <5>3. form[u] \in Forms /\ form'[u] = [form[u] EXCEPT !.stale = TRUE]
          BY <1>1, <4>1, <5>1, <5>2, FormTypes
        <5>4. /\ form'[u].count = form[u].count /\ form'[u].stale /\ form[u].count \in Int
              /\ form'[u].old = form[u].old
          BY <5>3 DEF Forms
        <5>5. ~ undone => form[u].count <= due
          BY <4>5, <5>2, <5>4 DEF CountsKnown
        <5>6. due' = due + 1 /\ (~ undone' => ~ undone)
          BY <4>1
        <5> QED
          BY <1>1, <5>4, <5>5, <5>6
      <4> QED
        BY <4>4, <4>5 DEF CountsKnown
    <3> QED
      BY <3>1, <3>2
  <2> QED
    BY <1>7, <2>1, <2>2, <2>3, <2>4, <2>5 DEF ServeLogin
<1>8. CASE LockExpires
  BY <1>3, <1>8 DEF LockExpires
<1>13. ASSUME NEW c \in Int, CountWritten(c), row'.count = c PROVE CountsKnown'
  <2>1. \A u \in Threads : form'[u].pc = "match" => form'[u].old
    BY <1>1, <1>13, FormsMarked
  <2>2. row'.count = due'
    BY <1>1, <1>13, FormsMarked
  <2>3. row'.count <= due'
    BY <1>13, <2>2
  <2> QED
    BY <2>1, <2>2, <2>3 DEF CountsKnown
<1>9. ASSUME NEW s \in {"normal", "frozen"}, NEW p \in Passwords,
             NEW given \in {{}} \cup {{c} : c \in Counts}, UpdateUser(s, p, given)
      PROVE  CountsKnown'
  <2>1. CASE given = {}
    <3>1. row'.count = row.count /\ UNCHANGED <<form, counts>>
      BY <1>1, <1>9, <2>1 DEF UpdateUser, CountUntouched
    <3> QED
      BY <1>3, <3>1
  <2>2. ASSUME NEW c \in given, CountWritten(c),
               row' = [status |-> s, password |-> p, count |-> c]
        PROVE  CountsKnown'
    BY <1>13, <2>2, GivenCounts
  <2> QED
    BY <1>9, <2>1, <2>2 DEF UpdateUser
<1>14. ASSUME NEW c \in Counts, ClientUpdatesLogin(c) PROVE CountsKnown'
  <2>1. c + 1 \in Int
    BY SignInAssumption DEF SignInAssumption
  <2>2. CountWritten(c + 1) /\ row'.count = c + 1
    BY <1>1, <1>14 DEF ClientUpdatesLogin
  <2> QED
    BY <1>13, <2>1, <2>2
<1>10. CASE DeleteUserById
  <2>1. row'.count = row.count
    BY <1>1, <1>10 DEF DeleteUserById
  <2> QED
    BY <1>3, <1>10, <2>1 DEF DeleteUserById, Edit, CountUntouched
<1>11. CASE ChangePasswordWrite
  <2>1. row'.count = row.count
    BY <1>1, <1>11 DEF ChangePasswordWrite
  <2> QED
    BY <1>3, <1>11, <2>1 DEF ChangePasswordWrite
<1>12. ASSUME NEW old \in Passwords, NEW new \in Passwords, ChangePasswordRead(old, new)
       PROVE  CountsKnown'
  BY <1>3, <1>12 DEF ChangePasswordRead, Edit, CountUntouched
<1> QED
  BY <1>4, <1>5, <1>6, <1>7, <1>8, <1>9, <1>10, <1>11, <1>12, <1>14 DEF SignInNext

(* From the last count a client wrote, loginCount never overstates the     *)
(* logins unless one is written back over the client's count, and counts   *)
(* them exactly as long as none is written back between the read and the   *)
(* write of another (doGetAuthenticationInfo, updateLoginUser, updateUser).*)
THEOREM LoginsAreCounted == SignInSpec => []LoginsCounted
<1>1. SignInInit => CountsKnown
  <2> SUFFICES ASSUME SignInInit PROVE CountsKnown
    OBVIOUS
  <2>1. row.count = 0 /\ due = 0
    BY DEF SignInInit
  <2>2. \A t \in Threads : ~ InForm(t, "match")
    BY DEF SignInInit, InForm, NoForm
  <2> QED
    BY <2>1, <2>2 DEF CountsKnown, LoginsCounted
<1>2. CountsKnown => LoginsCounted
  BY DEF CountsKnown
<1> QED
  BY <1>1, <1>2, SignInTypeCorrect, CountsStep, PTL DEF SignInSpec
=============================================================================
