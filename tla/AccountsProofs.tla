--------------------------- MODULE AccountsProofs ----------------------------
(* Accounts: AdministratorsRemain and MailedCodeIsValid for any number of   *)
(* workers, addresses and codes.                                            *)
EXTENDS Accounts, FiniteSetTheorems, TLAPS

-----------------------------------------------------------------------------
(* The codes.  They need nothing but their own tables.                      *)

CodesTyped ==
  /\ minute \in Nat
  /\ code \in [Emails -> CodeRows \cup {NoIssue}]
  /\ history \in [drawn : SUBSET Codes, last : [Emails -> Codes \cup {NoIssue}], used : [Codes -> Nat]]
  /\ task \in [Handlers -> Tasks]

Holds(e, c) == code[e] # NoIssue /\ code[e].value = c

\* The last code of an address is there as long as it was not used.
LastIsThere ==
  \A e \in Emails, c \in Codes :
    history.last[e] = c /\ history.used[c] = 0 => Holds(e, c) /\ ~code[e].consumed

\* A code that is stored was drawn, and is stored for one address.
StoredOnce ==
  /\ \A e \in Emails, c \in Codes : Holds(e, c) => c \in history.drawn
  /\ \A e, f \in Emails, c \in Codes : Holds(e, c) /\ Holds(f, c) => e = f

\* A code that was used was drawn, was used once, and is marked where it is stored.
UsedOnce ==
  \A c \in Codes : history.used[c] # 0 =>
    /\ history.used[c] = 1 /\ c \in history.drawn
    /\ \A e \in Emails : Holds(e, c) => code[e].consumed

CodesInv == CodesTyped /\ LastIsThere /\ StoredOnce /\ UsedOnce

LEMMA TaskFields ==
  ASSUME NEW t \in Tasks
  PROVE  /\ t.does \in {"mail", "register", "lock", "write"} => t.email \in Emails
         /\ t.does = "mail" => t.value \in Codes
         /\ t.does \in {"lock", "write"} =>
              /\ t.change \in Changes /\ t.locked \subseteq Emails
              /\ \A rows \in SUBSET Emails : LET u == [t EXCEPT !.does = "write", !.locked = rows] IN
                   u \in Tasks /\ u.does = "write" /\ u.email = t.email /\ u.change = t.change
<1>1. CASE t.does \in {"lock", "write"}
  <2>1. t \in [does : {"lock", "write"}, email : Emails, change : Changes, locked : SUBSET Emails]
    BY <1>1 DEF Tasks
  <2> QED BY <1>1, <2>1 DEF Tasks
<1>2. CASE t.does \notin {"lock", "write"}
  BY <1>2 DEF Tasks
<1> QED BY <1>1, <1>2

LEMMA TasksMade ==
  /\ NoTask \in Tasks /\ NoTask.does = "nothing"
  /\ [does |-> "setup"] \in Tasks
  /\ \A e \in Emails : [does |-> "register", email |-> e] \in Tasks
  /\ \A e \in Emails, c \in Codes : [does |-> "mail", email |-> e, value |-> c] \in Tasks
  /\ \A e \in Emails, change \in Changes, does \in {"lock", "write"} :
       [does |-> does, email |-> e, change |-> change, locked |-> {}] \in Tasks
BY DEF NoTask, Tasks

(* Steps that leave the codes alone keep the types of the tasks.            *)
LEMMA TasksStay ==
  ASSUME task \in [Handlers -> Tasks], AccountsNext
  PROVE  task' \in [Handlers -> Tasks]
<1>1. ASSUME NEW w \in Handlers, NEW t \in Tasks, task' = [task EXCEPT ![w] = t]
      PROVE  task' \in [Handlers -> Tasks]
  BY <1>1
<1>2. CASE MinutePasses
  BY <1>2 DEF MinutePasses
<1>3. ASSUME NEW w \in Handlers, BeginsSetup(w) \/ MailSent(w) \/ MailFails(w) \/ Register(w) \/ WriteUser(w)
      PROVE  task' \in [Handlers -> Tasks]
  BY <1>1, <1>3, TasksMade DEF BeginsSetup, MailSent, MailFails, Register, WriteUser, Start, Leaves
<1>4. ASSUME NEW w \in Handlers, LockAdmins(w) PROVE task' \in [Handlers -> Tasks]
  <2>1. ActiveAdmins \subseteq Emails
    BY DEF ActiveAdmins, Registered
  <2>2. [task[w] EXCEPT !.does = "write", !.locked = ActiveAdmins] \in Tasks
    BY <1>4, <2>1, TaskFields DEF LockAdmins, Does
  <2> QED BY <1>1, <1>4, <2>2, TasksMade DEF LockAdmins, Leaves, Proceed
<1>5. ASSUME NEW w \in Handlers, NEW e \in Emails, CreateInitialAdmin(w, e) \/ CreatesOther(w, e)
      PROVE  task' \in [Handlers -> Tasks]
  BY <1>1, <1>5, TasksMade DEF CreateInitialAdmin, CreatesOther, Leaves
<1>6. ASSUME NEW w \in Handlers, NEW e \in Emails, NEW c \in Codes, Issue(w, e, c) \/ VerifyCode(w, e, c)
      PROVE  task' \in [Handlers -> Tasks]
  BY <1>1, <1>6, TasksMade DEF Issue, VerifyCode, Start
<1>7. ASSUME NEW w \in Handlers, NEW e \in Emails, NEW change \in Changes, ReadUser(w, e, change)
      PROVE  task' \in [Handlers -> Tasks]
  BY <1>1, <1>7, TasksMade DEF ReadUser, Start
<1> QED BY <1>2, <1>3, <1>4, <1>5, <1>6, <1>7 DEF AccountsNext

-----------------------------------------------------------------------------
\* What stays known as the last code of an address when c is taken back.
LastWithout(e, c) == IF history.last[e] = c THEN NoIssue ELSE history.last[e]

LEMMA CodesInit == AccountsInit => CodesInv
<1> SUFFICES ASSUME AccountsInit PROVE CodesInv
  OBVIOUS
<1>1. CodesTyped
  BY TasksMade DEF AccountsInit, CodesTyped
<1>2. LastIsThere
  BY AccountsAssumption DEF AccountsInit, LastIsThere
<1>3. StoredOnce /\ UsedOnce
  BY DEF AccountsInit, StoredOnce, UsedOnce, Holds
<1> QED BY <1>1, <1>2, <1>3 DEF CodesInv

LEMMA CodesStep == CodesInv /\ [AccountsNext]_accountVars => CodesInv'
<1> SUFFICES ASSUME CodesInv, [AccountsNext]_accountVars PROVE CodesInv'
  OBVIOUS
<1> DEFINE Rest == task' \in [Handlers -> Tasks]
<1>1. CASE UNCHANGED accountVars
  BY <1>1 DEF accountVars, CodesInv, CodesTyped, LastIsThere, StoredOnce, UsedOnce, Holds
<1>2. ASSUME AccountsNext PROVE Rest
  BY <1>2, TasksStay DEF CodesInv, CodesTyped
<1>3. ASSUME Rest, UNCHANGED <<code, history>>, minute' \in Nat PROVE CodesInv'
  BY <1>3 DEF CodesInv, CodesTyped, LastIsThere, StoredOnce, UsedOnce, Holds
<1>4. ASSUME Rest, NEW w \in Handlers, NEW e \in Emails, NEW c \in Codes, Issue(w, e, c) PROVE CodesInv'
  <2> DEFINE row == [value |-> c, created |-> minute, expires |-> minute + Lifetime, consumed |-> FALSE]
  <2>1. row \in CodeRows /\ row.value = c /\ ~row.consumed
    BY AccountsAssumption DEF CodesInv, CodesTyped, CodeRows
  <2>2. /\ c \notin history.drawn /\ code' = [code EXCEPT ![e] = row] /\ minute' = minute
        /\ history' = [history EXCEPT !.last[e] = c, !.drawn = @ \cup {c}]
    BY <1>4 DEF Issue
  <2> HIDE DEF row
  <2>3. /\ history'.last = [history.last EXCEPT ![e] = c]
        /\ history'.drawn = history.drawn \cup {c} /\ history'.used = history.used
    BY <2>2 DEF CodesInv, CodesTyped
  <2>4. history' \in [drawn : SUBSET Codes, last : [Emails -> Codes \cup {NoIssue}], used : [Codes -> Nat]]
    BY <2>2 DEF CodesInv, CodesTyped
  <2>5. CodesTyped'
    BY <1>4, <2>1, <2>2, <2>4 DEF CodesInv, CodesTyped
  <2>6. row # NoIssue
    BY <2>1, AccountsAssumption
  <2>7. LastIsThere'
    BY <2>1, <2>2, <2>3, <2>6 DEF CodesInv, CodesTyped, LastIsThere, Holds
  <2>8. StoredOnce'
    BY <2>1, <2>2, <2>3 DEF CodesInv, CodesTyped, StoredOnce, Holds
  <2>9. UsedOnce'
    BY <2>1, <2>2, <2>3 DEF CodesInv, CodesTyped, UsedOnce, Holds
  <2> QED BY <2>5, <2>7, <2>8, <2>9 DEF CodesInv
<1>5. ASSUME Rest, NEW w \in Handlers, MailFails(w) PROVE CodesInv'
  <2> DEFINE e == task[w].email
  <2> DEFINE c == task[w].value
  <2>1. e \in Emails /\ c \in Codes
    BY <1>5, TaskFields DEF CodesInv, CodesTyped, MailFails, Does
  <2>2. /\ (code' = [code EXCEPT ![e] = NoIssue] /\ Holds(e, c)) \/ code' = code
        /\ history' = [history EXCEPT !.last[e] = LastWithout(e, c)] /\ minute' = minute
    BY <1>5 DEF MailFails, TakesBack, Holds, LastWithout
  <2> HIDE DEF e, c
  <2>3. LastWithout(e, c) \in Codes \cup {NoIssue} /\ LastWithout(e, c) # c
        /\ (LastWithout(e, c) \in {history.last[e], NoIssue})
    BY <2>1, AccountsAssumption DEF LastWithout, CodesInv, CodesTyped
  <2>4. /\ history'.last = [history.last EXCEPT ![e] = LastWithout(e, c)]
        /\ history'.drawn = history.drawn /\ history'.used = history.used
    BY <2>2 DEF CodesInv, CodesTyped
  <2>5. history' \in [drawn : SUBSET Codes, last : [Emails -> Codes \cup {NoIssue}], used : [Codes -> Nat]]
    BY <2>2, <2>3 DEF CodesInv, CodesTyped
  <2>6. CodesTyped'
    BY <1>5, <2>2, <2>5 DEF CodesInv, CodesTyped
  <2>7. LastIsThere'
    BY <2>1, <2>2, <2>3, <2>4, AccountsAssumption DEF CodesInv, CodesTyped, LastIsThere, Holds
  <2>8. StoredOnce'
    BY <2>1, <2>2, <2>4 DEF CodesInv, CodesTyped, StoredOnce, Holds
  <2>9. UsedOnce'
    BY <2>1, <2>2, <2>4 DEF CodesInv, CodesTyped, UsedOnce, Holds
  <2> QED BY <2>6, <2>7, <2>8, <2>9 DEF CodesInv
<1>6. ASSUME Rest, NEW w \in Handlers, NEW e \in Emails, NEW c \in Codes, VerifyCode(w, e, c) PROVE CodesInv'
  <2> DEFINE row == [code[e] EXCEPT !.consumed = TRUE]
  <2>1. Holds(e, c) /\ ~code[e].consumed /\ code[e] \in CodeRows
    BY <1>6 DEF VerifyCode, Valid, Holds, CodesInv, CodesTyped
  <2>2. row \in CodeRows /\ row.value = c /\ row.consumed
    BY <2>1 DEF CodeRows, Holds
  <2>3. /\ code' = [code EXCEPT ![e] = row] /\ minute' = minute
        /\ history' = [history EXCEPT !.used[c] = history.used[c] + 1]
    BY <1>6 DEF VerifyCode
  <2> HIDE DEF row
  <2>4. history.used[c] = 0 /\ c \in history.drawn /\ history.used[c] + 1 = 1
    BY <2>1 DEF CodesInv, CodesTyped, UsedOnce, StoredOnce
  <2>5. /\ history'.used = [history.used EXCEPT ![c] = 1]
        /\ history'.drawn = history.drawn /\ history'.last = history.last
    BY <2>3, <2>4 DEF CodesInv, CodesTyped
  <2>6. history' \in [drawn : SUBSET Codes, last : [Emails -> Codes \cup {NoIssue}], used : [Codes -> Nat]]
    BY <2>3, <2>4 DEF CodesInv, CodesTyped
  <2>7. CodesTyped'
    BY <1>6, <2>2, <2>3, <2>6 DEF CodesInv, CodesTyped
  <2>8. row # NoIssue
    BY <2>2, AccountsAssumption
  <2>9. LastIsThere'
    BY <2>1, <2>2, <2>3, <2>5, <2>8 DEF CodesInv, CodesTyped, LastIsThere, Holds
  <2>10. StoredOnce'
    BY <2>1, <2>2, <2>3, <2>5 DEF CodesInv, CodesTyped, StoredOnce, Holds
  <2>11. UsedOnce'
    BY <2>1, <2>2, <2>3, <2>4, <2>5 DEF CodesInv, CodesTyped, UsedOnce, StoredOnce, Holds
  <2> QED BY <2>7, <2>9, <2>10, <2>11 DEF CodesInv
<1>7. ASSUME Rest, MinutePasses PROVE CodesInv'
  BY <1>3, <1>7 DEF MinutePasses, CodesInv, CodesTyped
<1>8. ASSUME Rest, NEW w \in Handlers,
             BeginsSetup(w) \/ MailSent(w) \/ Register(w) \/ LockAdmins(w) \/ WriteUser(w)
      PROVE  CodesInv'
  BY <1>3, <1>8 DEF BeginsSetup, MailSent, Register, LockAdmins, WriteUser, CodesInv, CodesTyped
<1>9. ASSUME Rest, NEW w \in Handlers, NEW e \in Emails, CreateInitialAdmin(w, e) \/ CreatesOther(w, e)
      PROVE  CodesInv'
  BY <1>3, <1>9 DEF CreateInitialAdmin, CreatesOther, CodesInv, CodesTyped
<1>10. ASSUME Rest, NEW w \in Handlers, NEW e \in Emails, NEW change \in Changes, ReadUser(w, e, change)
       PROVE  CodesInv'
  BY <1>3, <1>10 DEF ReadUser, CodesInv, CodesTyped
<1> QED BY <1>1, <1>2, <1>4, <1>5, <1>6, <1>7, <1>8, <1>9, <1>10 DEF AccountsNext

(* A code that was mailed works until it is used or replaced, and once.     *)
THEOREM CodeTheorem == AccountsSpec => []MailedCodeIsValid
<1>1. CodesInv => MailedCodeIsValid
  BY DEF CodesInv, CodesTyped, LastIsThere, UsedOnce, Holds, MailedCodeIsValid
<1> QED BY CodesInit, CodesStep, <1>1, PTL DEF AccountsSpec

-----------------------------------------------------------------------------
(* The administrators.                                                      *)

AccountsTyped ==
  /\ marker \in BOOLEAN
  /\ account \in [Emails -> AccountRows \cup {NoAccount}]
  /\ task \in [Handlers -> Tasks]

\* The initial administrator is active, and nobody is in before it is.
InitialIsActive ==
  /\ Registered # {} => marker
  /\ marker => \E f \in Registered : account[f].system /\ account[f].role = "admin" /\ account[f].status = "active"

OneInitial == \A e, f \in Registered : account[e].system /\ account[f].system => e = f

\* A worker that will write was not refused, and what it was not refused for
\* cannot have changed: an account stays the initial one, or stays another one.
TasksAreAllowed ==
  \A w \in Handlers :
    /\ task[w].does = "register" => marker
    /\ task[w].does \in {"lock", "write"} =>
         task[w].email \in Registered /\ ~Protected(account[task[w].email], task[w].change)

AdminsInv == AccountsTyped /\ InitialIsActive /\ OneInitial /\ TasksAreAllowed

LEMMA AccountFields ==
  ASSUME NEW role \in {"admin", "member"}, NEW system \in BOOLEAN
  PROVE  LET row == Account(role, system) IN
         /\ row \in AccountRows /\ row # NoAccount
         /\ row.system = system /\ row.role = role /\ row.status = "active"
<1> DEFINE row == Account(role, system)
<1>1. row \in AccountRows
  BY DEF Account, AccountRows
<1>2. row.system = system /\ row.role = role /\ row.status = "active"
  BY DEF Account
<1>3. row # NoAccount
  <2> HIDE DEF row
  <2> QED BY <1>1, AccountsAssumption
<1> QED BY <1>1, <1>2, <1>3

LEMMA AdminsInit == AccountsInit => AdminsInv
BY TasksMade DEF AccountsInit, AdminsInv, AccountsTyped, InitialIsActive, OneInitial, TasksAreAllowed, Registered

(* An account that is added to those of an initialised system.              *)
LEMMA CreatePreserves ==
  ASSUME AdminsInv, marker, NEW e \in Emails, NEW role \in {"admin", "member"}, Create(e, role), marker' = marker
  PROVE  /\ account' \in [Emails -> AccountRows \cup {NoAccount}]
         /\ InitialIsActive' /\ OneInitial'
         /\ \A f \in Registered : f \in Registered' /\ account'[f] = account[f]
<1> DEFINE row == Account(role, FALSE)
<1>1. row \in AccountRows /\ ~row.system /\ row # NoAccount
  BY AccountFields
<1>2. account' = IF account[e] = NoAccount THEN [account EXCEPT ![e] = row] ELSE account
  BY DEF Create
<1> HIDE DEF row
<1>3. account' \in [Emails -> AccountRows \cup {NoAccount}]
  BY <1>1, <1>2 DEF AdminsInv, AccountsTyped
<1>4. \A f \in Registered : f \in Registered' /\ account'[f] = account[f]
  BY <1>1, <1>2 DEF AdminsInv, AccountsTyped, Registered
<1>5. InitialIsActive'
  BY <1>4 DEF AdminsInv, InitialIsActive
<1>6. \A f \in Registered' : account'[f].system => f \in Registered
  BY <1>1, <1>2 DEF AdminsInv, AccountsTyped, Registered
<1>7. OneInitial'
  BY <1>4, <1>6 DEF AdminsInv, OneInitial
<1> QED BY <1>3, <1>4, <1>5, <1>7

LEMMA AdminsStep == AdminsInv /\ [AccountsNext]_accountVars => AdminsInv'
<1> SUFFICES ASSUME AdminsInv, [AccountsNext]_accountVars PROVE AdminsInv'
  OBVIOUS
<1> DEFINE Rest == task' \in [Handlers -> Tasks]
<1> DEFINE AllowedTask(t) ==
      /\ t.does = "register" => marker
      /\ t.does \in {"lock", "write"} => t.email \in Registered /\ ~Protected(account[t.email], t.change)
<1>1. CASE UNCHANGED accountVars
  BY <1>1 DEF accountVars, AdminsInv, AccountsTyped, InitialIsActive, OneInitial, TasksAreAllowed, Registered
<1>2. ASSUME AccountsNext PROVE Rest
  BY <1>2, TasksStay DEF AdminsInv, AccountsTyped
<1>3. Initialized <=> marker
  BY DEF AdminsInv, InitialIsActive, Initialized
\* Steps of a worker that leave the accounts alone.
<1>4. ASSUME Rest, UNCHANGED <<marker, account>>, NEW w \in Handlers, NEW t,
             AllowedTask(t), task' = [task EXCEPT ![w] = t]
      PROVE  AdminsInv'
  <2>1. AccountsTyped' /\ InitialIsActive' /\ OneInitial' /\ Registered' = Registered
    BY <1>4 DEF AdminsInv, AccountsTyped, InitialIsActive, OneInitial, Registered
  <2>2. TasksAreAllowed'
    BY <1>4, <2>1 DEF AdminsInv, AccountsTyped, TasksAreAllowed
  <2> QED BY <2>1, <2>2 DEF AdminsInv
<1>5. ASSUME Rest, MinutePasses PROVE AdminsInv'
  BY <1>5 DEF MinutePasses, AdminsInv, AccountsTyped, InitialIsActive, OneInitial, TasksAreAllowed, Registered
<1>6. AllowedTask(NoTask)
  BY DEF NoTask
<1>7. ASSUME Rest, NEW w \in Handlers, MailSent(w) \/ MailFails(w) PROVE AdminsInv'
  BY <1>4, <1>6, <1>7 DEF MailSent, MailFails, Leaves
<1>8. ASSUME Rest, NEW w \in Handlers, BeginsSetup(w) PROVE AdminsInv'
  <2> DEFINE t == [does |-> "setup"]
  <2>1. AllowedTask(t) /\ task' = [task EXCEPT ![w] = t] /\ UNCHANGED <<marker, account>>
    BY <1>8 DEF BeginsSetup, Start
  <2> HIDE DEF t
  <2> QED BY <1>4, <1>8, <2>1
<1>9. ASSUME Rest, NEW w \in Handlers, NEW e \in Emails, NEW c \in Codes, Issue(w, e, c) \/ VerifyCode(w, e, c)
      PROVE  AdminsInv'
  <2>1. CASE Issue(w, e, c)
    <3> DEFINE t == [does |-> "mail", email |-> e, value |-> c]
    <3>1. AllowedTask(t) /\ task' = [task EXCEPT ![w] = t] /\ UNCHANGED <<marker, account>>
      BY <2>1 DEF Issue, Start
    <3> HIDE DEF t
    <3> QED BY <1>4, <1>9, <3>1
  <2>2. CASE VerifyCode(w, e, c)
    <3> DEFINE t == [does |-> "register", email |-> e]
    <3>1. AllowedTask(t) /\ task' = [task EXCEPT ![w] = t] /\ UNCHANGED <<marker, account>>
      BY <1>3, <2>2 DEF VerifyCode, Start
    <3> HIDE DEF t
    <3> QED BY <1>4, <1>9, <3>1
  <2> QED BY <1>9, <2>1, <2>2
<1>10. ASSUME Rest, NEW w \in Handlers, NEW e \in Emails, NEW change \in Changes, ReadUser(w, e, change)
       PROVE  AdminsInv'
  <2> DEFINE t == [does |-> IF MayBeLast(account[e], change) THEN "lock" ELSE "write",
                   email |-> e, change |-> change, locked |-> {}]
  <2>1. AllowedTask(t) /\ task' = [task EXCEPT ![w] = t] /\ UNCHANGED <<marker, account>>
    BY <1>10 DEF ReadUser, Start
  <2> HIDE DEF t
  <2> QED BY <1>4, <1>10, <2>1
<1>11. ASSUME Rest, NEW w \in Handlers, LockAdmins(w) PROVE AdminsInv'
  <2> DEFINE t == [task[w] EXCEPT !.does = "write", !.locked = ActiveAdmins]
  <2>1. task[w] \in Tasks /\ task[w].does = "lock" /\ ActiveAdmins \in SUBSET Emails
    BY <1>11 DEF LockAdmins, Does, AdminsInv, AccountsTyped, ActiveAdmins, Registered
  <2>2. t.does = "write" /\ t.email = task[w].email /\ t.change = task[w].change
    BY <2>1, TaskFields
  <2>3. UNCHANGED <<marker, account>> /\ (task' = [task EXCEPT ![w] = t] \/ task' = [task EXCEPT ![w] = NoTask])
    BY <1>11 DEF LockAdmins, Leaves, Proceed
  <2> HIDE DEF t
  <2>4. AllowedTask(t)
    BY <2>1, <2>2 DEF AdminsInv, TasksAreAllowed
  <2> QED BY <1>4, <1>6, <1>11, <2>3, <2>4
\* Steps that add an account.
<1>12. ASSUME Rest, marker, marker' = marker, NEW w \in Handlers, NEW e \in Emails, NEW role \in {"admin", "member"},
              Create(e, role), task' = [task EXCEPT ![w] = NoTask] \/ task' = task
       PROVE  AdminsInv'
  <2>1. /\ account' \in [Emails -> AccountRows \cup {NoAccount}] /\ InitialIsActive' /\ OneInitial'
        /\ \A f \in Registered : f \in Registered' /\ account'[f] = account[f]
    BY <1>12, CreatePreserves
  <2>2. AccountsTyped'
    BY <1>12, <2>1 DEF AdminsInv, AccountsTyped
  <2>3. \A v \in Handlers : task'[v] = task[v] \/ task'[v] = NoTask
    BY <1>12 DEF AdminsInv, AccountsTyped
  <2>4. TasksAreAllowed'
    BY <1>12, <2>1, <2>3, TasksMade DEF AdminsInv, TasksAreAllowed
  <2> QED BY <2>1, <2>2, <2>4 DEF AdminsInv
<1>13. ASSUME Rest, NEW w \in Handlers, Register(w) PROVE AdminsInv'
  <2>1. marker /\ task[w].email \in Emails
    BY <1>13, TaskFields DEF Register, Does, AdminsInv, AccountsTyped, TasksAreAllowed
  <2> QED BY <1>12, <1>13, <2>1 DEF Register, Leaves
<1>14. ASSUME Rest, NEW w \in Handlers, NEW e \in Emails, CreatesOther(w, e) PROVE AdminsInv'
  BY <1>3, <1>12, <1>14 DEF CreatesOther
<1>15. ASSUME Rest, NEW w \in Handlers, NEW e \in Emails, CreateInitialAdmin(w, e) PROVE AdminsInv'
  <2>1. CASE marker \/ Registered # {}
    BY <1>4, <1>6, <1>15, <2>1 DEF CreateInitialAdmin, Leaves
  <2>2. CASE ~(marker \/ Registered # {})
    <3> DEFINE row == Account("admin", TRUE)
    <3>1. row \in AccountRows /\ row.system /\ row.role = "admin" /\ row.status = "active" /\ row # NoAccount
      BY AccountFields
    <3>2. marker' = TRUE /\ account' = [account EXCEPT ![e] = row] /\ task' = [task EXCEPT ![w] = NoTask]
      BY <1>15, <2>2 DEF CreateInitialAdmin, Leaves
    <3> HIDE DEF row
    <3>3. AccountsTyped'
      BY <1>15, <3>1, <3>2 DEF AdminsInv, AccountsTyped
    <3>4. Registered' = {e} /\ account'[e] = row
      BY <2>2, <3>1, <3>2 DEF AdminsInv, AccountsTyped, Registered
    <3>5. InitialIsActive' /\ OneInitial'
      BY <3>1, <3>2, <3>4 DEF InitialIsActive, OneInitial
    <3>6. \A v \in Handlers : task'[v].does \notin {"register", "lock", "write"}
      BY <2>2, <3>2, TasksMade DEF AdminsInv, AccountsTyped, TasksAreAllowed
    <3>7. TasksAreAllowed'
      BY <3>6 DEF TasksAreAllowed
    <3> QED BY <3>3, <3>5, <3>7 DEF AdminsInv
  <2> QED BY <2>1, <2>2
<1>16. ASSUME Rest, NEW w \in Handlers, WriteUser(w) PROVE AdminsInv'
  <2> DEFINE e == task[w].email
  <2> DEFINE change == task[w].change
  <2> DEFINE row == IF change \in {"admin", "member"} THEN [account[e] EXCEPT !.role = change]
                    ELSE [account[e] EXCEPT !.status = change]
  <2>1. /\ e \in Registered /\ e \in Emails /\ change \in Changes /\ account[e] \in AccountRows
        /\ ~Protected(account[e], change)
    BY <1>16, TaskFields DEF WriteUser, Does, AdminsInv, AccountsTyped, TasksAreAllowed, Registered
  <2>2. /\ account' = [account EXCEPT ![e] = row] /\ marker' = marker
        /\ task' = [task EXCEPT ![w] = NoTask]
    BY <1>16 DEF WriteUser, Leaves
  <2>3. /\ row \in AccountRows /\ row.system = account[e].system
        /\ account[e].system /\ account[e].role = "admin" /\ account[e].status = "active" =>
             row.role = "admin" /\ row.status = "active"
    BY <2>1 DEF AccountRows, Changes, Protected
  <2> HIDE DEF e, change, row
  <2>4. row # NoAccount
    BY <2>3, AccountsAssumption
  <2>5. AccountsTyped'
    BY <1>16, <2>2, <2>3 DEF AdminsInv, AccountsTyped
  <2>6. Registered' = Registered /\ \A f \in Registered : account'[f] = IF f = e THEN row ELSE account[f]
    BY <2>1, <2>2, <2>4 DEF AdminsInv, AccountsTyped, Registered
  <2>7. InitialIsActive' /\ OneInitial'
    BY <2>1, <2>2, <2>3, <2>6 DEF AdminsInv, InitialIsActive, OneInitial
  <2>8. \A v \in Handlers : task'[v] = task[v] \/ task'[v] = NoTask
    BY <2>2 DEF AdminsInv, AccountsTyped
  <2>9. TasksAreAllowed'
    BY <2>2, <2>3, <2>6, <2>8, TasksMade DEF AdminsInv, TasksAreAllowed, Protected
  <2> QED BY <2>5, <2>7, <2>9 DEF AdminsInv
<1> QED BY <1>1, <1>2, <1>5, <1>7, <1>8, <1>9, <1>10, <1>11, <1>13, <1>14, <1>15, <1>16 DEF AccountsNext

(* There is one initial administrator once the system is set up, and with   *)
(* it always an active one, whatever changes were under way at once.        *)
THEOREM AdministratorsTheorem == AccountsSpec => []AdministratorsRemain
<1>1. ASSUME AdminsInv PROVE AdministratorsRemain
  <2> DEFINE initial == {e \in Registered : account[e].system}
  <2>1. CASE marker
    <3>1. PICK f \in Registered : account[f].system /\ account[f].role = "admin" /\ account[f].status = "active"
      BY <1>1, <2>1 DEF AdminsInv, InitialIsActive
    <3>2. initial = {f}
      BY <1>1, <3>1 DEF AdminsInv, OneInitial
    <3>3. Cardinality(initial) = 1 /\ ActiveAdmins # {}
      BY <3>1, <3>2, FS_Singleton DEF ActiveAdmins
    <3> QED BY <2>1, <3>3 DEF AdministratorsRemain
  <2>2. CASE ~marker
    <3>1. Registered = {} /\ initial = {}
      BY <1>1, <2>2 DEF AdminsInv, InitialIsActive
    <3>2. Cardinality(initial) = 0
      BY <3>1, FS_EmptySet
    <3> QED BY <2>2, <3>1, <3>2 DEF AdministratorsRemain
  <2> QED BY <2>1, <2>2
<1> QED BY AdminsInit, AdminsStep, <1>1, PTL DEF AccountsSpec
=============================================================================
