------------------------------ MODULE Accounts ------------------------------
(***************************************************************************)
(* The accounts: the first administrator, registration with a code sent by  *)
(* mail, single sign-on, and what administrators change.  An account is     *)
(* known by its e-mail address, which is unique.                            *)
(*                                                                          *)
(* A transaction whose rows nobody else can change between its reads and    *)
(* its commit is one step.  Two methods are not like that: Update and       *)
(* SetStatus read the account without a lock, and lock the rows of the      *)
(* active administrators only if what they have read calls for it.  Between *)
(* the steps of a request - the readiness check and the transaction, the    *)
(* code and the account, the code and the mail - others go on.              *)
(***************************************************************************)
EXTENDS Naturals, FiniteSets

CONSTANTS
  Handlers, Emails,
  Codes,      \* drawn at random from a million; no code is drawn twice
  NoAccount, NoIssue,
  Lifetime,   \* minutes a code is valid; between two codes lies one minute
  MaxMinutes  \* bound

AccountRows == [role : {"admin", "member"}, status : {"active", "disabled"}, system : BOOLEAN]
CodeRows == [value : Codes, created : Nat, expires : Nat, consumed : BOOLEAN]

ASSUME AccountsAssumption ==
  /\ Lifetime \in Nat \ {0} /\ MaxMinutes \in Nat
  /\ NoAccount \notin AccountRows /\ NoIssue \notin Codes \cup CodeRows

VARIABLES
  marker,   \* the system setting that an administrator was initialised
  account,  \* users
  code,     \* email_verification_codes: one row for an address
  minute,
  mailbox,  \* codes that have reached an address
  history,  \* codes drawn, the last one for each address, how often each was used
  task      \* what each worker is in the middle of

accountVars == <<marker, account, code, minute, mailbox, history, task>>

NoTask == [does |-> "nothing"]
Start(w, t) == task[w] = NoTask /\ task' = [task EXCEPT ![w] = t]
Leaves(w) == task' = [task EXCEPT ![w] = NoTask]
Proceed(w, t) == task' = [task EXCEPT ![w] = t]
Does(w, what) == task[w].does = what

Registered == {e \in Emails : account[e] # NoAccount}
ActiveAdmins == {e \in Registered : account[e].role = "admin" /\ account[e].status = "active"}
Initialized == marker \/ Registered # {}

Account(role, system) == [role |-> role, status |-> "active", system |-> system]

AccountsInit ==
  /\ marker = FALSE /\ minute = 0
  /\ account = [e \in Emails |-> NoAccount] /\ code = [e \in Emails |-> NoIssue]
  /\ mailbox = [e \in Emails |-> {}]
  /\ history = [drawn |-> {}, last |-> [e \in Emails |-> NoIssue], used |-> [c \in Codes |-> 0]]
  /\ task = [w \in Handlers |-> NoTask]

-----------------------------------------------------------------------------
(* Who comes in.                                                            *)

BeginsSetup(w) ==
  /\ ~Initialized /\ Start(w, [does |-> "setup"])
  /\ UNCHANGED <<marker, account, code, minute, mailbox, history>>

\* The marker is unique, so that the second of two transactions is refused.
CreateInitialAdmin(w, e) ==
  /\ Does(w, "setup") /\ Leaves(w)
  /\ IF marker \/ Registered # {} THEN UNCHANGED <<marker, account>>
     ELSE marker' = TRUE /\ account' = [account EXCEPT ![e] = Account("admin", TRUE)]
  /\ UNCHANGED <<code, minute, mailbox, history>>

Create(e, role) ==
  account' = IF account[e] = NoAccount THEN [account EXCEPT ![e] = Account(role, FALSE)] ELSE account

\* An administrator creates an account, or a person signs on for the first time.
CreatesOther(w, e) ==
  /\ task[w] = NoTask /\ Initialized
  /\ Create(e, "member") \/ (ActiveAdmins # {} /\ Create(e, "admin"))
  /\ UNCHANGED <<marker, code, minute, mailbox, history, task>>

-----------------------------------------------------------------------------
(* The code.                                                                *)

\* SQLStore.Issue; a row may be replaced after a minute.
Issue(w, e, c) ==
  /\ Initialized /\ account[e] = NoAccount
  /\ (code[e] # NoIssue => code[e].created + 1 <= minute)
  /\ c \notin history.drawn
  /\ code' = [code EXCEPT ![e] = [value |-> c, created |-> minute, expires |-> minute + Lifetime, consumed |-> FALSE]]
  /\ history' = [history EXCEPT !.last[e] = c, !.drawn = @ \cup {c}]
  /\ Start(w, [does |-> "mail", email |-> e, value |-> c])
  /\ UNCHANGED <<marker, account, minute, mailbox>>

Arrives(w) == mailbox' = [mailbox EXCEPT ![task[w].email] = @ \cup {task[w].value}]

MailSent(w) ==
  /\ Does(w, "mail") /\ Leaves(w) /\ Arrives(w)
  /\ UNCHANGED <<marker, account, code, minute, history>>

\* A variant that takes back whatever row the address has.
TakesBackAny(e, c) == code' = [code EXCEPT ![e] = NoIssue] \/ UNCHANGED code

\* DeleteIssue removes the row if it still holds this code; its error is ignored.
TakesBack(e, c) ==
  \/ code' = IF code[e] # NoIssue /\ code[e].value = c THEN [code EXCEPT ![e] = NoIssue] ELSE code
  \/ UNCHANGED code

\* The mailer fails, and nobody knows whether the mail arrives.
MailFails(w) ==
  /\ Does(w, "mail") /\ Leaves(w)
  /\ Arrives(w) \/ UNCHANGED mailbox
  /\ TakesBack(task[w].email, task[w].value)
  /\ LET e == task[w].email
     IN  history' = [history EXCEPT !.last[e] = IF history.last[e] = task[w].value THEN NoIssue ELSE history.last[e]]
  /\ UNCHANGED <<marker, account, minute>>

\* SQLStore.Consume.
Valid(e, c) == code[e] # NoIssue /\ code[e].value = c /\ ~code[e].consumed /\ code[e].expires > minute

VerifyCode(w, e, c) ==
  /\ Initialized /\ c \in mailbox[e] /\ Valid(e, c)
  /\ code' = [code EXCEPT ![e].consumed = TRUE]
  /\ history' = [history EXCEPT !.used[c] = history.used[c] + 1]
  /\ Start(w, [does |-> "register", email |-> e])
  /\ UNCHANGED <<marker, account, minute, mailbox>>

Register(w) ==
  /\ Does(w, "register") /\ Leaves(w)
  /\ Create(task[w].email, "member")
  /\ UNCHANGED <<marker, code, minute, mailbox, history>>

-----------------------------------------------------------------------------
(* Administrators change a role or a status.                                *)

Changes == {"admin", "member", "active", "disabled"}

\* A variant that trusts the locks alone.
NeverProtected(row, change) == FALSE

Protected(row, change) == row.system /\ change \in {"member", "disabled"}

\* What was read is an active administrator who would be none afterwards.
MayBeLast(row, change) == row.role = "admin" /\ row.status = "active" /\ change \in {"member", "disabled"}

ReadUser(w, e, change) ==
  /\ ActiveAdmins # {} /\ e \in Registered /\ ~Protected(account[e], change)
  /\ Start(w, [does |-> IF MayBeLast(account[e], change) THEN "lock" ELSE "write",
               email |-> e, change |-> change, locked |-> {}])
  /\ UNCHANGED <<marker, account, code, minute, mailbox, history>>

LockedBy(v) == IF Does(v, "write") THEN task[v].locked ELSE {}
Unlocked(w, rows) == \A v \in Handlers \ {w} : LockedBy(v) \cap rows = {}

LockAdmins(w) ==
  /\ Does(w, "lock") /\ Unlocked(w, ActiveAdmins)
  /\ IF Cardinality(ActiveAdmins) <= 1 THEN Leaves(w)
     ELSE Proceed(w, [task[w] EXCEPT !.does = "write", !.locked = ActiveAdmins])
  /\ UNCHANGED <<marker, account, code, minute, mailbox, history>>

WriteUser(w) ==
  /\ Does(w, "write") /\ Unlocked(w, {task[w].email}) /\ Leaves(w)
  /\ LET e == task[w].email
         change == task[w].change
     IN  account' = IF change \in {"admin", "member"} THEN [account EXCEPT ![e].role = change]
                    ELSE [account EXCEPT ![e].status = change]
  /\ UNCHANGED <<marker, code, minute, mailbox, history>>

-----------------------------------------------------------------------------
MinutePasses == minute < MaxMinutes /\ minute' = minute + 1 /\ UNCHANGED <<marker, account, code, mailbox, history, task>>

AccountsNext ==
  \/ MinutePasses
  \/ \E w \in Handlers :
       \/ BeginsSetup(w) \/ MailSent(w) \/ MailFails(w) \/ Register(w) \/ LockAdmins(w) \/ WriteUser(w)
       \/ \E e \in Emails :
            \/ CreateInitialAdmin(w, e) \/ CreatesOther(w, e)
            \/ \E c \in Codes : Issue(w, e, c) \/ VerifyCode(w, e, c)
            \/ \E change \in Changes : ReadUser(w, e, change)

AccountsSpec == AccountsInit /\ [][AccountsNext]_accountVars

-----------------------------------------------------------------------------
Tasks ==
  [does : {"nothing", "setup"}]
  \cup [does : {"mail"}, email : Emails, value : Codes]
  \cup [does : {"register"}, email : Emails]
  \cup [does : {"lock", "write"}, email : Emails, change : Changes, locked : SUBSET Emails]

AccountsTypeOK ==
  /\ marker \in BOOLEAN /\ minute \in Nat
  /\ account \in [Emails -> AccountRows \cup {NoAccount}]
  /\ code \in [Emails -> CodeRows \cup {NoIssue}]
  /\ mailbox \in [Emails -> SUBSET Codes]
  /\ history \in [drawn : SUBSET Codes, last : [Emails -> Codes \cup {NoIssue}], used : [Codes -> Nat]]
  /\ task \in [Handlers -> Tasks]

(* Exactly one account is the initial administrator, whichever of several   *)
(* set-ups won; nobody comes in before it; and from then on there is always *)
(* an active administrator (docs/api.md:125), although a change may be      *)
(* written on the strength of an account that was read before others        *)
(* changed it.  The locks alone would not do.                               *)
AdministratorsRemain ==
  /\ Cardinality({e \in Registered : account[e].system}) = IF marker THEN 1 ELSE 0
  /\ Registered # {} => ActiveAdmins # {}

(* The last code drawn for an address, if the mailer took it, is the one in *)
(* the database until it is used: the failure of an older mail takes        *)
(* nothing back.  And no code is used twice (docs/api.md:128).              *)
MailedCodeIsValid ==
  /\ \A e \in Emails, c \in Codes :
       c \in mailbox[e] /\ history.last[e] = c /\ history.used[c] = 0
         => code[e] # NoIssue /\ code[e].value = c /\ ~code[e].consumed
  /\ \A c \in Codes : history.used[c] <= 1
=============================================================================
