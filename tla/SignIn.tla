------------------------------- MODULE SignIn -------------------------------
(***************************************************************************)
(* The login of one account (SystemAdminService.adminLogin): the captcha,  *)
(* which is a Redis key that an attempt reads and deletes with separate    *)
(* commands; the account's row, read by the realm before the password      *)
(* check; the retry counter of LoginLock; and the login data written back  *)
(* to the row.  Meanwhile the account is edited (updateUser,               *)
(* deleteUserById, changePassword), its login count included, which a      *)
(* client may write with updateUser and UserService.updateLoginUser.       *)
(***************************************************************************)
EXTENDS LoginLock, Integers

CONSTANTS Codes,      \* captchas, each handed out once under a UUID
          Passwords,  \* passwords the account may have
          Counts,     \* login counts a client may send
          MaxEdits    \* bound: no edit starts after so many changes of the row

ASSUME SignInAssumption == MaxEdits \in Nat /\ Counts \subseteq Int

VARIABLES code,    \* code[v]: the Redis key of captcha v
          form,    \* form[t]: the login request thread t serves
          row,     \* the account in sys_user
          change,  \* changePassword in progress: the password it will write
          edits,   \* changes of the row so far
          tries,   \* history: tries[v]: comparisons with the text of v
          due,     \* history: the login count a client last wrote, plus one
                   \* for each login written back since
          clash,   \* history: since then a login was written back between
                   \* the read and the write of another
          undone,  \* history: since then a login was written back whose
                   \* count was read before the client's write
          valid,   \* history: threads whose password was that of the
                   \* unfrozen account at some moment of the request
          opened   \* history: threads that saw the account unlocked, likewise

counts  == <<due, clash, undone>>
history == <<tries, counts>>
watched == <<valid, opened>>
rest    == <<code, form, row, change, edits, history>>
allVars == <<vars, rest, watched>>

-----------------------------------------------------------------------------
Statuses == {"normal", "frozen", "deleted"}

(* typed: the captcha text is right; count: loginCount as the realm read   *)
(* it; stale and old (history): another login, a client's count, has been  *)
(* written since.                                                          *)
Forms == [pc : {"has", "get", "delete", "realm", "match"},
          code : Codes, typed : BOOLEAN, password : Passwords,
          count : Int, stale : BOOLEAN, old : BOOLEAN]

NoForm == [pc |-> "off"]

SignInTypeOK ==
    /\ TypeOK
    /\ code \in [Codes -> {"unissued", "live", "gone"}]
    /\ form \in [Threads -> Forms \cup {NoForm}]
    /\ row \in [status : Statuses, password : Passwords, count : Int]
    /\ change \in SUBSET Passwords
    /\ edits \in 0..(MaxEdits + 1)
    /\ tries \in [Codes -> Nat]
    /\ due \in Int
    /\ clash \in BOOLEAN /\ undone \in BOOLEAN
    /\ valid \in SUBSET Threads /\ opened \in SUBSET Threads

SignInInit ==
    /\ Init
    /\ code = [v \in Codes |-> "unissued"]
    /\ form = [t \in Threads |-> NoForm]
    /\ row \in [status : {"normal"}, password : Passwords, count : {0}]
    /\ change = {}
    /\ edits = 0
    /\ tries = [v \in Codes |-> 0]
    /\ due = 0
    /\ clash = FALSE /\ undone = FALSE
    /\ valid = {} /\ opened = {}

-----------------------------------------------------------------------------
InForm(t, pc) == form[t].pc = pc
Proceed(t, pc) == form' = [form EXCEPT ![t].pc = pc]

(* Mutant: a request that is over keeps what it was about.                 *)
AnswerKeepingForm(t) == form' = [form EXCEPT ![t].pc = "off"]

Answer(t) == form' = [form EXCEPT ![t] = NoForm]

(* getVerify: the key is set with an expiry.                               *)
GetVerify(v) ==
    /\ code[v] = "unissued"
    /\ code' = [code EXCEPT ![v] = "live"]
    /\ UNCHANGED <<vars, form, row, change, edits, history>>

CodeExpires(v) ==
    /\ code[v] = "live"
    /\ code' = [code EXCEPT ![v] = "gone"]
    /\ UNCHANGED <<vars, form, row, change, edits, history>>

(* adminLogin is called with a captcha that was handed out.                *)
Submit(t, v, typed, password) ==
    /\ form[t] = NoForm
    /\ code[v] # "unissued"
    /\ form' = [form EXCEPT ![t] = [pc |-> "has", code |-> v, typed |-> typed,
                                    password |-> password, count |-> 0,
                                    stale |-> FALSE, old |-> FALSE]]
    /\ UNCHANGED <<vars, code, row, change, edits, history>>

HasCode(t) ==
    /\ InForm(t, "has")
    /\ IF code[form[t].code] = "live" THEN Proceed(t, "get") ELSE Answer(t)
    /\ UNCHANGED <<vars, code, row, change, edits, history>>

(* The text is fetched; a key that vanished since is a NullPointerException *)
GetCode(t) ==
    /\ InForm(t, "get")
    /\ IF code[form[t].code] = "live" THEN Proceed(t, "delete") ELSE Answer(t)
    /\ UNCHANGED <<vars, code, row, change, edits, history>>

(* Mutant: a captcha is deleted when it was right only.                    *)
DeleteCodeIfRight(t) ==
    /\ InForm(t, "delete")
    /\ code' = IF form[t].typed THEN [code EXCEPT ![form[t].code] = "gone"] ELSE code
    /\ tries' = [tries EXCEPT ![form[t].code] = @ + 1]
    /\ IF form[t].typed THEN Proceed(t, "realm") ELSE Answer(t)
    /\ UNCHANGED <<vars, row, change, edits, counts>>

(* The key is deleted, then the text compared.                             *)
DeleteCode(t) ==
    /\ InForm(t, "delete")
    /\ code' = [code EXCEPT ![form[t].code] = "gone"]
    /\ tries' = [tries EXCEPT ![form[t].code] = @ + 1]
    /\ IF form[t].typed THEN Proceed(t, "realm") ELSE Answer(t)
    /\ UNCHANGED <<vars, row, change, edits, counts>>

(* Mutant: the realm does not look at the status.                          *)
ReadAccountAnyStatus(t) ==
    /\ InForm(t, "realm")
    /\ IF row.status = "deleted"
       THEN Answer(t) /\ UNCHANGED vars
       ELSE /\ Begin(t, form[t].password = row.password)
            /\ form' = [form EXCEPT ![t].pc = "match", ![t].count = row.count]
    /\ UNCHANGED <<code, row, change, edits, history>>

(* Mutant: the realm has a matcher without the retry counter.              *)
ReadAccountUncounted(t) ==
    /\ InForm(t, "realm")
    /\ IF row.status # "normal"
       THEN Answer(t) /\ UNCHANGED attempt
       ELSE /\ attempt' = [attempt EXCEPT ![t] = [NoAttempt EXCEPT
                             !.pc = "match", !.right = (form[t].password = row.password)]]
            /\ form' = [form EXCEPT ![t].pc = "match", ![t].count = row.count]
    /\ UNCHANGED <<key, passed, pending, faults, code, row, change, edits, history>>

(* doGetAuthenticationInfo: an account that is unknown or frozen ends the  *)
(* attempt; otherwise the matcher compares with the password read here.    *)
ReadAccount(t) ==
    /\ InForm(t, "realm")
    /\ IF row.status # "normal"
       THEN Answer(t) /\ UNCHANGED vars
       ELSE /\ Begin(t, form[t].password = row.password)
            /\ form' = [form EXCEPT ![t].pc = "match", ![t].count = row.count]
    /\ UNCHANGED <<code, row, change, edits, history>>

MatcherStep(t) ==
    /\ InForm(t, "match")
    /\ Work(t) \/ AttemptDies(t)
    /\ UNCHANGED rest

Returned(t, outcome) == InForm(t, "match") /\ At(t, "done") /\ attempt[t].outcome = outcome

(* The matcher refuses or throws: the login is answered with an error.     *)
MatcherRefuses(t) ==
    /\ InForm(t, "match") /\ At(t, "done") /\ ~ Returned(t, "ok")
    /\ Collect(t)
    /\ Answer(t)
    /\ UNCHANGED <<code, row, change, edits, history>>

(* Mutant: the count that was read is written back.                        *)
CountKept(t) == form[t].count

CountReached(t) == form[t].count + 1

(* updateLoginUser writes the loginCount of the principal plus one; a row  *)
(* that is deleted is not found, and the login succeeds all the same.      *)
UpdateLoginUser(t) ==
    /\ Returned(t, "ok")
    /\ Collect(t)
    /\ IF row.status = "deleted"
       THEN /\ Answer(t)
            /\ UNCHANGED <<row, counts>>
       ELSE /\ row' = [row EXCEPT !.count = CountReached(t)]
            /\ due' = due + 1
            /\ clash' = (clash \/ form[t].stale)
            /\ undone' = (undone \/ form[t].old)
            /\ form' = [u \in Threads |->
                          IF u = t THEN NoForm
                          ELSE IF InForm(u, "match")
                               THEN [form[u] EXCEPT !.stale = TRUE] ELSE form[u]]
    /\ UNCHANGED <<code, change, edits, tries>>

-----------------------------------------------------------------------------
(* Editing the account.                                                    *)
Edit ==
    /\ row.status # "deleted"
    /\ edits < MaxEdits
    /\ UNCHANGED <<vars, code, tries>>

CountUntouched == UNCHANGED <<form, counts>>

(* A client writes c, whatever the logins in progress have read.           *)
CountWritten(c) ==
    /\ due' = c /\ clash' = FALSE /\ undone' = FALSE
    /\ form' = [t \in Threads |->
                  IF InForm(t, "match") THEN [form[t] EXCEPT !.old = TRUE] ELSE form[t]]

(* updateUser: updateById writes every column the client's entity has, the *)
(* login count among them: given is the count sent, if one is.             *)
UpdateUser(status, password, given) ==
    /\ Edit
    /\ edits' = edits + 1
    /\ UNCHANGED change
    /\ \/ /\ given = {} /\ CountUntouched
          /\ row' = [row EXCEPT !.status = status, !.password = password]
       \/ \E c \in given :
             /\ CountWritten(c)
             /\ row' = [status |-> status, password |-> password, count |-> c]

(* UserService.updateLoginUser, called by a client: the count sent, plus   *)
(* one.                                                                    *)
ClientUpdatesLogin(c) ==
    /\ Edit
    /\ row' = [row EXCEPT !.count = c + 1]
    /\ CountWritten(c + 1)
    /\ edits' = edits + 1
    /\ UNCHANGED change

DeleteUserById ==
    /\ Edit
    /\ row' = [row EXCEPT !.status = "deleted"]
    /\ edits' = edits + 1
    /\ UNCHANGED change /\ CountUntouched

(* changePassword: the old password is compared with the row as read ...   *)
ChangePasswordRead(old, new) ==
    /\ Edit
    /\ change = {}
    /\ old = row.password
    /\ change' = {new}
    /\ UNCHANGED <<row, edits>> /\ CountUntouched

(* ... and the new one is written over what the row holds by then.         *)
ChangePasswordWrite ==
    /\ \E new \in change :
          row' = IF row.status = "deleted" THEN row ELSE [row EXCEPT !.password = new]
    /\ change' = {}
    /\ edits' = edits + 1
    /\ UNCHANGED <<vars, code, form, history>>

-----------------------------------------------------------------------------
(* What the request of a thread has seen from its start to now.            *)
Seen(set, holds(_)) ==
    {t \in Threads : form'[t] # NoForm /\ (holds(t) \/ (form[t] # NoForm /\ t \in set))}

Watch ==
    /\ valid' = Seen(valid, LAMBDA t : row'.status = "normal"
                                       /\ row'.password = form'[t].password)
    /\ opened' = Seen(opened, LAMBDA t : ~ Locked')

ServeLogin(t) ==
    \/ HasCode(t) \/ GetCode(t) \/ DeleteCode(t) \/ ReadAccount(t)
    \/ MatcherStep(t) \/ MatcherRefuses(t) \/ UpdateLoginUser(t)

LockExpires == KeyExpires /\ UNCHANGED rest

SignInNext ==
    /\ \/ \E v \in Codes : GetVerify(v) \/ CodeExpires(v)
       \/ \E t \in Threads :
             \/ \E v \in Codes, typed \in BOOLEAN, p \in Passwords : Submit(t, v, typed, p)
             \/ ServeLogin(t)
       \/ LockExpires
       \/ \E s \in {"normal", "frozen"}, p \in Passwords,
             given \in {{}} \cup {{c} : c \in Counts} : UpdateUser(s, p, given)
       \/ \E c \in Counts : ClientUpdatesLogin(c)
       \/ DeleteUserById
       \/ \E old, new \in Passwords : ChangePasswordRead(old, new)
       \/ ChangePasswordWrite
    /\ Watch

SignInSpec == SignInInit /\ [][SignInNext]_allVars

-----------------------------------------------------------------------------
(* Properties.                                                             *)

(* Whatever goes on around it, the login uses the retry counter as it is   *)
(* meant to be used, so that all it promises (AttemptsBounded) holds of    *)
(* logins.                                                                 *)
UsesTheLock == Spec

(* However attempts interleave between the commands hasKey, get and        *)
(* delete, the text of a captcha is tried no more often than there are     *)
(* requests at once: right or wrong, a comparison uses the captcha up.     *)
GuessesBounded == \A v \in Codes : tries[v] <= Cardinality(Threads)

(* A login succeeds only if, at some moment of the request, the account    *)
(* was unfrozen and had the password that was given, and at some moment it *)
(* was not locked, whatever edits and attempts fall in between (adminLogin,*)
(* doGetAuthenticationInfo, doCredentialsMatch).                           *)
LoginWasDue == \A t \in Threads : Returned(t, "ok") => t \in valid /\ t \in opened

(* From the last count a client wrote (updateUser and updateLoginUser take *)
(* any), loginCount counts the logins exactly as long as none is written   *)
(* back between the read and the write of another, and never overstates    *)
(* them as long as none is written back over the client's count            *)
(* (doGetAuthenticationInfo, updateLoginUser).                             *)
LoginsCounted ==
    ~ undone => /\ row.count <= due
                /\ ~ clash => row.count = due
=============================================================================
