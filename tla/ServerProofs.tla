----------------------------- MODULE ServerProofs ------------------------------
(***************************************************************************)
(* What the parts of the server that work by themselves promise.           *)
(* Accounts: at most one administrator, and no account that is in use is   *)
(* deleted, for any number of people and registrations and any expiry.     *)
(* Mail: a message is one article however often it is posted, and what the *)
(* sending server was told is delivered is stored and counted, for any     *)
(* messages and any number of requests at a time.                          *)
(* Migrations: a worker that has started finds the table and every index   *)
(* usable, for any number of migrations, migrators and workers, wherever   *)
(* earlier migrators were interrupted.                                     *)
(* Imports: a document is imported once, for any documents and any number  *)
(* of imports.  Folders: a deletion takes along only what entered the      *)
(* folder after it was found empty.                                        *)
(* Host gate: interactive requests keep their priority, for any number of  *)
(* requests and any interval, patience and expiry, as long as the counter  *)
(* outlives the patience of a request.                                     *)
(* Redirect map: an entry that no longer tells the truth is gone once its  *)
(* lifetime and that of its target have passed, for any URLs and redirects.*)
(***************************************************************************)
EXTENDS Accounts, MailRelay, Migrator, Folders, HostGate, Redirects,
        FiniteSetTheorems, WellFoundedInduction, TLAPS

------------------------------------------------------------------------------
(* Accounts *)

AccountShapes ==
    /\ users \in [Person -> User_]
    /\ used \in [Person -> Age]
    /\ \A s \in Signup : signup[s] # NoSignup => signup[s].email \in Person
    /\ signup \in [Signup -> [pc : {"idle", "open", "new", "mailed", "insert", "lock"},
                              email : Person \cup {NoPerson}]]
    /\ \A s \in Signup : signup[s].email = NoPerson => signup[s] = NoSignup

AtMostOne == \A p, q \in Person : users[p].admin /\ users[q].admin => p = q

\* last_seen_at lags a day behind at most.
SeenFollowsUse == \A p \in Person : Exists(p) => users[p].seen <= used[p] + 1

AccountsInv == AccountShapes /\ AtMostOne /\ SeenFollowsUse

USE AccountsAssumption

\* What the rows of the table can be.
LEMMA Rows ==
    /\ NoUser \in User_ /\ NoUser.admin = FALSE /\ NoUser.seen = 0
    /\ \A admin \in BOOLEAN : /\ NewUser(admin) \in User_
                              /\ NewUser(admin).admin = admin
                              /\ NewUser(admin).seen = 0
    /\ 0 \in Age
BY DEF NoUser, User_, NewUser, Age

LEMMA AccountsInitially == AccountsInit => AccountsInv
<1>1. NoSignup \in [pc : {"idle", "open", "new", "mailed", "insert", "lock"},
                    email : Person \cup {NoPerson}]
  BY DEF NoSignup
<1>. QED
  BY <1>1, Rows DEF AccountsInit, AccountsInv, AccountShapes, AtMostOne, SeenFollowsUse, Exists

\* The registrations keep their shape whatever one of them does.
LEMMA SignupMoves ==
    ASSUME AccountShapes, NEW s \in Signup,
           \/ SignupEnds(s)
           \/ \E p \in Person : signup' = [signup EXCEPT ![s] = [pc |-> "open", email |-> p]]
           \/ /\ signup[s] # NoSignup
              /\ \E pc \in {"new", "mailed", "insert", "lock"} : SignupTo(s, pc)
    PROVE  /\ \A r \in Signup : signup'[r] # NoSignup => signup'[r].email \in Person
           /\ signup' \in [Signup -> [pc : {"idle", "open", "new", "mailed", "insert", "lock"},
                                      email : Person \cup {NoPerson}]]
           /\ \A r \in Signup : signup'[r].email = NoPerson => signup'[r] = NoSignup
<1>. DEFINE State == [pc : {"idle", "open", "new", "mailed", "insert", "lock"},
                      email : Person \cup {NoPerson}]
            Good(r) == /\ r \in State
                       /\ r # NoSignup => r.email \in Person
                       /\ r.email = NoPerson => r = NoSignup
<1>1. \A r \in Signup : Good(signup[r])
  BY DEF AccountShapes
<1>2. ASSUME NEW new, Good(new), signup' = [signup EXCEPT ![s] = new]
      PROVE  \A r \in Signup : signup' \in [Signup -> State] /\ Good(signup'[r])
  BY <1>1, <1>2 DEF AccountShapes
<1>3. Good(NoSignup)
  BY DEF NoSignup
<1>4. \A p \in Person : Good([pc |-> "open", email |-> p])
  BY DEF NoSignup
<1>5. ASSUME NEW pc \in {"new", "mailed", "insert", "lock"}, signup[s] # NoSignup
      PROVE  Good([signup[s] EXCEPT !.pc = pc])
  BY <1>1, <1>5
<1>6. \A pc \in {"new", "mailed", "insert", "lock"} : SignupTo(s, pc) =>
         signup' = [signup EXCEPT ![s] = [signup[s] EXCEPT !.pc = pc]]
  BY DEF SignupTo, AccountShapes
<1>. HIDE DEF Good
<1>7. \A r \in Signup : signup' \in [Signup -> State] /\ Good(signup'[r])
  BY <1>2, <1>3, <1>4, <1>5, <1>6 DEF SignupEnds
<1>. QED
  BY <1>7 DEF Good

\* A row that is inserted for a new account.
LEMMA Inserts ==
    ASSUME AccountsInv, NEW s \in Signup, NEW admin \in BOOLEAN,
           signup[s] # NoSignup, InsertUser(s, admin), admin => ~SomeoneExists
    PROVE  AccountsInv'
<1>. DEFINE p == signup[s].email
<1>1. p \in Person
  BY DEF AccountsInv, AccountShapes
<1>2. /\ \A r \in Signup : signup'[r] # NoSignup => signup'[r].email \in Person
      /\ signup' \in [Signup -> [pc : {"idle", "open", "new", "mailed", "insert", "lock"},
                                 email : Person \cup {NoPerson}]]
      /\ \A r \in Signup : signup'[r].email = NoPerson => signup'[r] = NoSignup
  BY SignupMoves DEF InsertUser, AccountsInv
<1>3. CASE Exists(p)
  BY <1>2, <1>3 DEF InsertUser, AccountsInv, AccountShapes, AtMostOne, SeenFollowsUse, Exists
<1>4. CASE ~Exists(p)
  <2>1. /\ users' = [users EXCEPT ![p] = NewUser(admin)]
        /\ used' = [used EXCEPT ![p] = 0]
    BY <1>4 DEF InsertUser
  <2>2. users' \in [Person -> User_] /\ used' \in [Person -> Age]
    BY <1>1, <2>1, Rows DEF AccountsInv, AccountShapes
  <2>3. \A q \in Person : /\ users'[q] = IF q = p THEN NewUser(admin) ELSE users[q]
                          /\ used'[q] = IF q = p THEN 0 ELSE used[q]
    BY <1>1, <2>1 DEF AccountsInv, AccountShapes
  <2>4. admin => \A q \in Person : users[q].admin = FALSE
    BY Rows DEF SomeoneExists, Exists
  <2>5. AtMostOne'
    BY <2>3, <2>4, Rows DEF AtMostOne, AccountsInv
  <2>6. SeenFollowsUse'
    BY <2>2, <2>3, Rows DEF SeenFollowsUse, AccountsInv, Exists, Age
  <2>. HIDE DEF p
  <2>. QED
    BY <1>2, <2>2, <2>5, <2>6 DEF AccountsInv, AccountShapes
<1>. QED
  BY <1>3, <1>4

\* Registrations: only the two inserts change the accounts.
LEMMA Registering ==
    ASSUME AccountsInv, NEW s \in Signup,
           \/ \E p \in Person : SignupAllowed(s, p)
           \/ FindExisting(s) \/ SendActivation(s) \/ SelectUsers(s)
           \/ InsertMember(s) \/ InsertFirst(s) \/ SignupFails(s)
    PROVE  AccountsInv'
<1>0. NoSignup.pc = "idle"
  BY DEF NoSignup
<1>1. CASE InsertMember(s)
  <2>1. signup[s] # NoSignup
    BY <1>0, <1>1 DEF InsertMember
  <2>. QED
    BY <1>1, <2>1, Inserts DEF InsertMember
<1>2. CASE InsertFirst(s)
  <2>1. signup[s] # NoSignup
    BY <1>0, <1>2 DEF InsertFirst
  <2>2. (~SomeoneExists) \in BOOLEAN
    BY DEF SomeoneExists
  <2>. QED
    BY <1>2, <2>1, <2>2, Inserts DEF InsertFirst
<1>3. CASE ~InsertMember(s) /\ ~InsertFirst(s)
  <2>1. UNCHANGED <<users, used>>
    BY <1>3 DEF SignupAllowed, FindExisting, SendActivation, SelectUsers, SignupFails
  <2>2. \/ SignupEnds(s)
        \/ \E p \in Person : signup' = [signup EXCEPT ![s] = [pc |-> "open", email |-> p]]
        \/ /\ signup[s] # NoSignup
           /\ \E pc \in {"new", "mailed", "insert", "lock"} : SignupTo(s, pc)
    BY <1>0, <1>3 DEF SignupAllowed, FindExisting, SendActivation, SelectUsers, SignupFails
  <2>3. /\ \A r \in Signup : signup'[r] # NoSignup => signup'[r].email \in Person
        /\ signup' \in [Signup -> [pc : {"idle", "open", "new", "mailed", "insert", "lock"},
                                   email : Person \cup {NoPerson}]]
        /\ \A r \in Signup : signup'[r].email = NoPerson => signup'[r] = NoSignup
    BY <2>2, SignupMoves DEF AccountsInv
  <2>. QED
    BY <2>1, <2>3 DEF AccountsInv, AccountShapes, AtMostOne, SeenFollowsUse, Exists
<1>. QED
  BY <1>1, <1>2, <1>3

\* What happens to one account after its registration.
LEMMA Using ==
    ASSUME AccountsInv, NEW p \in Person, Activate(p) \/ AuthedRequest(p)
    PROVE  AccountsInv'
<1>0. users[p] \in User_ /\ users[p].seen \in Age /\ Exists(p)
  BY DEF AccountsInv, AccountShapes, User_, Activate, AuthedRequest, Exists, NoUser
<1>1. PICK new \in User_ : /\ users' = [users EXCEPT ![p] = new]
                           /\ new.admin = users[p].admin
                           /\ \/ new.seen = users[p].seen /\ UNCHANGED used
                              \/ new.seen <= 1 /\ used' = [used EXCEPT ![p] = 0]
  <2>1. CASE Activate(p)
    <3>. DEFINE new == [users[p] EXCEPT !.status = "active", !.token = FALSE]
    <3>1. new \in User_ /\ new.admin = users[p].admin /\ new.seen = users[p].seen
      BY <1>0 DEF User_
    <3>2. users' = [users EXCEPT ![p] = new] /\ UNCHANGED used
      BY <2>1 DEF Activate, AccountsInv, AccountShapes
    <3>. QED
      BY <3>1, <3>2
  <2>2. CASE AuthedRequest(p)
    <3>. DEFINE new == [users[p] EXCEPT !.seen = Touch(p)]
    <3>0. Touch(p) \in Age /\ Touch(p) <= 1
      BY <1>0 DEF Touch, Age
    <3>1. new \in User_ /\ new.admin = users[p].admin /\ new.seen <= 1
      BY <1>0, <3>0 DEF User_
    <3>2. users' = [users EXCEPT ![p] = new] /\ used' = [used EXCEPT ![p] = 0]
      BY <2>2 DEF AuthedRequest, AccountsInv, AccountShapes
    <3>. QED
      BY <3>1, <3>2
  <2>. QED
    BY <2>1, <2>2
<1>2. users' \in [Person -> User_] /\ used' \in [Person -> Age]
  BY <1>1 DEF AccountsInv, AccountShapes, Age
<1>3. \A q \in Person : users'[q] = IF q = p THEN new ELSE users[q]
  BY <1>1 DEF AccountsInv, AccountShapes
<1>4. AtMostOne'
  BY <1>1, <1>3 DEF AccountsInv, AtMostOne
<1>5. SeenFollowsUse'
  <2>1. CASE new.seen = users[p].seen /\ UNCHANGED used
    BY <1>0, <1>3, <2>1 DEF AccountsInv, SeenFollowsUse, Exists
  <2>2. CASE new.seen <= 1 /\ used' = [used EXCEPT ![p] = 0]
    <3>1. \A q \in Person : used'[q] = IF q = p THEN 0 ELSE used[q]
      BY <2>2 DEF AccountsInv, AccountShapes
    <3>. QED
      BY <1>3, <2>2, <3>1 DEF AccountsInv, SeenFollowsUse, Exists
  <2>. QED
    BY <1>1, <2>1, <2>2
<1>6. UNCHANGED signup
  BY DEF Activate, AuthedRequest
<1>. QED
  BY <1>2, <1>4, <1>5, <1>6 DEF AccountsInv, AccountShapes

\* The expiry only takes accounts away.
LEMMA Expiring ==
    ASSUME AccountsInv, ExpireUsers
    PROVE  AccountsInv'
<1>1. \A p \in Person : users'[p] = users[p] \/ users'[p] = NoUser
  BY DEF ExpireUsers
<1>2. users' \in [Person -> User_]
  BY Rows DEF ExpireUsers, AccountsInv, AccountShapes
<1>3. UNCHANGED <<used, signup>>
  BY DEF ExpireUsers
<1>. QED
  BY <1>1, <1>2, <1>3, Rows DEF AccountsInv, AccountShapes, AtMostOne, SeenFollowsUse, Exists

\* A day later both ages have grown, up to the same bound.
LEMMA Aging ==
    ASSUME AccountsInv, DayPasses
    PROVE  AccountsInv'
<1>1. \A n \in Age : Older_(n) \in Age /\ Older_(n) <= n + 1 /\ n <= Older_(n)
                     /\ (n <= Expiry => Older_(n) = n + 1)
  BY DEF Older_, Age
<1>2. \A p \in Person : users[p].seen \in Age /\ used[p] \in Age
  BY DEF AccountsInv, AccountShapes, User_
<1>3. \A p \in Person : [users[p] EXCEPT !.seen = Older_(users[p].seen)] \in User_
  BY <1>1, <1>2 DEF AccountsInv, AccountShapes, User_
<1>4. \A p \in Person :
         /\ users'[p] = IF Exists(p) THEN [users[p] EXCEPT !.seen = Older_(users[p].seen)]
                                     ELSE users[p]
         /\ used'[p] = IF Exists(p) THEN Older_(used[p]) ELSE used[p]
  BY DEF DayPasses
<1>5. \A p \in Person : /\ users'[p].admin = users[p].admin
                        /\ Exists(p) => users'[p].seen = Older_(users[p].seen)
  BY <1>4 DEF AccountsInv, AccountShapes, User_
<1>6. users' \in [Person -> User_] /\ used' \in [Person -> Age]
  BY <1>1, <1>2, <1>3 DEF DayPasses, AccountsInv, AccountShapes
<1>7. AtMostOne'
  BY <1>5 DEF AccountsInv, AtMostOne
<1>8. SeenFollowsUse'
  <2>. SUFFICES ASSUME NEW p \in Person, Exists(p)' PROVE users'[p].seen <= used'[p] + 1
    BY DEF SeenFollowsUse
  <2>1. Exists(p)
    BY <1>4 DEF Exists
  <2>2. users[p].seen <= used[p] + 1
    BY <2>1 DEF AccountsInv, SeenFollowsUse
  <2>3. users'[p].seen = Older_(users[p].seen) /\ used'[p] = Older_(used[p])
    BY <1>4, <1>5, <2>1
  <2>4. users[p].seen \in Age /\ used[p] \in Age
    BY <1>2
  <2>. QED
    BY <2>2, <2>3, <2>4 DEF Older_, Age
<1>9. UNCHANGED signup
  BY DEF DayPasses
<1>. QED
  BY <1>6, <1>7, <1>8, <1>9 DEF AccountsInv, AccountShapes

\* Every step keeps the invariant.
LEMMA AccountsStep == AccountsInv /\ [AccountsNext]_accountVars => AccountsInv'
<1>. SUFFICES ASSUME AccountsInv, [AccountsNext]_accountVars PROVE AccountsInv'
  OBVIOUS
<1>1. CASE UNCHANGED <<users, used, signup>>
  BY <1>1 DEF AccountsInv, AccountShapes, AtMostOne, SeenFollowsUse, Exists
<1>2. ASSUME NEW p \in Person, Login(p) \/ Logout(p) PROVE AccountsInv'
  BY <1>1, <1>2 DEF Login, Logout
<1>. QED
  BY <1>1, <1>2, Registering, Using, Expiring, Aging DEF AccountsNext, accountVars

\* There is at most one administrator (createUser with its table lock).
THEOREM AtMostOneAdmin == AccountsSpec => []OneAdmin
<1>1. AccountsInv => OneAdmin
  <2>. SUFFICES ASSUME AtMostOne PROVE OneAdmin
    BY DEF AccountsInv
  <2>. DEFINE admins == {p \in Person : users[p].admin}
  <2>1. CASE admins = {}
    <3>1. Cardinality(admins) = 0
      BY <2>1, FS_EmptySet
    <3>. QED
      BY <3>1 DEF OneAdmin
  <2>2. ASSUME NEW p \in admins PROVE OneAdmin
    <3>1. admins = {p}
      BY <2>2 DEF AtMostOne
    <3>2. Cardinality(admins) = 1
      BY <3>1, FS_Singleton
    <3>. QED
      BY <3>2 DEF OneAdmin
  <2>. QED
    BY <2>1, <2>2
<1>. QED
  BY <1>1, AccountsInitially, AccountsStep, PTL DEF AccountsSpec

\* An account is expired only when its last authenticated request is at least
\* userExpiryDays old (touchLastSeen writes once a day, cleanupOrphanedData).
THEOREM AccountsInUseAreKept == AccountsSpec => []ActiveIsKept
<1>1. AccountsInv => ActiveIsKept
  BY DEF AccountsInv, AccountShapes, SeenFollowsUse, ActiveIsKept, Expired_, User_, Age
<1>. QED
  BY <1>1, AccountsInitially, AccountsStep, PTL DEF AccountsSpec

HIDE AccountsAssumption

------------------------------------------------------------------------------
(* Mail *)

MailShapes ==
    /\ known \in BOOLEAN
    /\ rows \in [Message -> {0, 1}]
    /\ handler \in [Handler -> Handling \cup {NoMail}]
    /\ delivered \subseteq Message

\* What a request has done is still there when it goes on, as long as the
\* source is.
WorkIsKept ==
    known => \A h \in Handler :
        /\ MailAt(h, "counting") => rows[handler[h].message] = 1
        /\ MailAt(h, "succeeding") \/ MailAt(h, "answering") =>
              handler[h].message \in counted

CountedIsStored == counted \subseteq {m \in Message : rows[m] = 1}
DeliveredIsCounted == known => delivered \subseteq counted

MailInv == MailShapes /\ WorkIsKept /\ CountedIsStored /\ DeliveredIsCounted

\* At the start there is nothing to keep.
LEMMA MailInitially == MailInit => MailInv
BY DEF MailInit, MailInv, MailShapes, WorkIsKept, CountedIsStored, DeliveredIsCounted,
       Handling, NoMail, MailAt

\* A request keeps its message and only its place changes.
LEMMA MailMoves ==
    ASSUME MailShapes, NEW h \in Handler, handler[h] # NoMail,
           NEW pc \in {"parsing", "finding", "storing", "counting", "succeeding",
                       "answering"},
           MailTo(h, pc)
    PROVE  /\ handler' \in [Handler -> Handling \cup {NoMail}]
           /\ handler'[h].pc = pc /\ handler'[h].message = handler[h].message
           /\ \A g \in Handler \ {h} : handler'[g] = handler[g]
           /\ handler[h].message \in Message
<1>1. handler[h] \in Handling
  BY DEF MailShapes
<1>2. handler' = [handler EXCEPT ![h] = [handler[h] EXCEPT !.pc = pc]]
  BY DEF MailTo, MailShapes
<1>3. [handler[h] EXCEPT !.pc = pc] \in Handling
  BY <1>1 DEF Handling
<1>. QED
  BY <1>1, <1>2, <1>3 DEF MailShapes, Handling

\* A request that ends leaves the others as they are.
LEMMA MailEnds ==
    ASSUME MailInv, NEW h \in Handler, handler' = [handler EXCEPT ![h] = NoMail],
           UNCHANGED <<known, rows, counted>>,
           delivered' \subseteq Message, known => delivered' \subseteq counted
    PROVE  MailInv'
<1>1. /\ handler' \in [Handler -> Handling \cup {NoMail}]
      /\ handler'[h] = NoMail
      /\ \A g \in Handler \ {h} : handler'[g] = handler[g]
  BY DEF MailInv, MailShapes
<1>2. NoMail.pc = "idle"
  BY DEF NoMail
<1>. QED
  BY <1>1, <1>2 DEF MailInv, MailShapes, WorkIsKept, CountedIsStored, DeliveredIsCounted, MailAt

\* Every step keeps the invariant.
LEMMA MailStep == MailInv /\ [MailNext]_mailVars => MailInv'
<1>. SUFFICES ASSUME MailInv, [MailNext]_mailVars PROVE MailInv'
  OBVIOUS
<1>0. NoMail.pc = "idle"
  BY DEF NoMail
<1>1. CASE UNCHANGED mailVars
  BY <1>1 DEF mailVars, MailInv, MailShapes, WorkIsKept, CountedIsStored,
             DeliveredIsCounted, MailAt
<1>2. ASSUME NEW h \in Handler, NEW m \in Message, Post(h, m) PROVE MailInv'
  <2>1. [pc |-> "parsing", message |-> m, waited |-> TRUE] \in Handling
    BY DEF Handling
  <2>2. /\ handler' \in [Handler -> Handling \cup {NoMail}]
        /\ handler'[h].pc = "parsing"
        /\ \A g \in Handler \ {h} : handler'[g] = handler[g]
    BY <1>2, <2>1 DEF Post, MailInv, MailShapes
  <2>. QED
    BY <1>2, <2>2 DEF Post, MailInv, MailShapes, WorkIsKept, CountedIsStored,
                      DeliveredIsCounted, MailAt
<1>3. ASSUME NEW h \in Handler, Refuse(h) \/ MailFails(h) PROVE MailInv'
  BY <1>3, MailEnds DEF Refuse, MailFails, MailInv, MailShapes, DeliveredIsCounted
<1>4. ASSUME NEW h \in Handler, Parse(h) PROVE MailInv'
  <2>1. handler[h] # NoMail
    BY <1>0, <1>4 DEF Parse, MailAt
  <2>. QED
    BY <1>4, <2>1, MailMoves DEF Parse, MailInv, MailShapes, WorkIsKept, CountedIsStored,
                            DeliveredIsCounted, MailAt
<1>5. ASSUME NEW h \in Handler, FindRecipient(h) PROVE MailInv'
  <2>1. handler[h] # NoMail
    BY <1>0, <1>5 DEF FindRecipient, MailAt
  <2>2. CASE known
    BY <1>5, <2>1, <2>2, MailMoves DEF FindRecipient, MailInv, MailShapes, WorkIsKept,
                                  CountedIsStored, DeliveredIsCounted, MailAt
  <2>3. CASE ~known
    BY <1>5, <2>3, MailEnds DEF FindRecipient, MailInv, MailShapes, DeliveredIsCounted
  <2>. QED
    BY <2>2, <2>3
<1>6. ASSUME NEW h \in Handler, StoreMail(h) PROVE MailInv'
  <2>1. handler[h] # NoMail
    BY <1>0, <1>6 DEF StoreMail, MailAt
  <2>2. CASE known
    <3>1. MailTo(h, "counting") /\ rows' = [rows EXCEPT ![handler[h].message] = 1]
      BY <1>6, <2>2 DEF StoreMail
    <3>2. /\ rows' \in [Message -> {0, 1}]
          /\ \A m \in Message : rows[m] = 1 => rows'[m] = 1
          /\ rows'[handler[h].message] = 1
      BY <2>1, <3>1, MailMoves DEF MailInv, MailShapes
    <3>. QED
      BY <1>6, <2>1, <3>1, <3>2, MailMoves DEF StoreMail, MailInv, MailShapes, WorkIsKept,
                                     CountedIsStored, DeliveredIsCounted, MailAt, Handling
  <2>3. CASE ~known
    BY <1>6, <2>3, MailEnds DEF StoreMail, MailInv, MailShapes, DeliveredIsCounted
  <2>. QED
    BY <2>2, <2>3
<1>7. ASSUME NEW h \in Handler, CountMail(h) PROVE MailInv'
  <2>1. handler[h] # NoMail
    BY <1>0, <1>7 DEF CountMail, MailAt
  <2>2. counted' = {m \in Message : rows[m] = 1}
    BY <1>7 DEF CountMail, MailInv, MailShapes
  <2>. QED
    BY <1>7, <2>1, <2>2, MailMoves DEF CountMail, MailInv, MailShapes, WorkIsKept,
                                  CountedIsStored, DeliveredIsCounted, MailAt, Handling
<1>8. ASSUME NEW h \in Handler, MailSucceeds(h) PROVE MailInv'
  <2>1. handler[h] # NoMail
    BY <1>0, <1>8 DEF MailSucceeds, MailAt
  <2>. QED
    BY <1>8, <2>1, MailMoves DEF MailSucceeds, MailInv, MailShapes, WorkIsKept,
                            CountedIsStored, DeliveredIsCounted, MailAt
<1>9. ASSUME NEW h \in Handler, AnswerMail(h) PROVE MailInv'
  <2>1. handler[h] # NoMail /\ handler[h] \in Handling
    BY <1>0, <1>9 DEF AnswerMail, MailAt, MailInv, MailShapes
  <2>2. delivered' \subseteq Message /\ (known => delivered' \subseteq counted)
    BY <1>9, <2>1 DEF AnswerMail, MailInv, MailShapes, WorkIsKept, DeliveredIsCounted,
                      Handling
  <2>. QED
    BY <1>9, <2>2, MailEnds DEF AnswerMail
<1>10. ASSUME NEW h \in Handler, AbandonMail(h) PROVE MailInv'
  <2>1. handler[h] \in Handling
    BY <1>10 DEF AbandonMail, MailInv, MailShapes
  <2>2. /\ handler' \in [Handler -> Handling \cup {NoMail}]
        /\ \A g \in Handler : /\ handler'[g].pc = handler[g].pc
                              /\ handler[g] \in Handling =>
                                    handler'[g].message = handler[g].message
    BY <1>10, <2>1 DEF AbandonMail, MailInv, MailShapes, Handling
  <2>3. \A g \in Handler : handler[g].pc # "idle" => handler[g] \in Handling
    BY <1>0 DEF MailInv, MailShapes
  <2>. QED
    BY <1>10, <2>2, <2>3 DEF AbandonMail, MailInv, MailShapes, WorkIsKept,
                            CountedIsStored, DeliveredIsCounted, MailAt
<1>11. CASE LoseSource
  BY <1>11 DEF LoseSource, MailInv, MailShapes, WorkIsKept, CountedIsStored,
              DeliveredIsCounted, MailAt
<1>. QED
  BY <1>1, <1>2, <1>3, <1>4, <1>5, <1>6, <1>7, <1>8, <1>9, <1>10, <1>11 DEF MailNext

\* However often a message is posted it is one article, and what was accepted is
\* stored and counted (processEmail, batchUpsertArticles keyed by emailGuid).
THEOREM MailIsDeliveredOnce == MailSpec => []DeliveredOnce
<1>1. MailInv => DeliveredOnce
  BY DEF MailInv, MailShapes, CountedIsStored, DeliveredIsCounted, DeliveredOnce
<1>. QED
  BY <1>1, MailInitially, MailStep, PTL DEF MailSpec

------------------------------------------------------------------------------
(* Migrations *)

Holds(m) == migrator[m].pc \notin {"stopped", "locking"}
Usable(k) == index[k] = "valid" \/ ~table

\* Before the first migration there is nothing to index.
NothingYet == ~table => \A k \in Indexed : index[k] = "none"

\* What the journal says is true, and it has no gaps.
JournalIsTrue ==
    /\ PreSquash \in journal => table
    /\ \A k \in journal \cap Migration : table /\ 1 .. k \subseteq journal
    /\ \A k \in journal \cap Indexed : index[k] = "valid"

\* The migrator at work has dealt with every index that is neither in the
\* journal nor among those it still has to look at.
PrebuiltIsUsable ==
    \A m \in MigratorProc :
        /\ migrator[m].pc \in {"checking", "building", "migrating"} =>
              \A k \in Indexed \ (journal \cup migrator[m].pending) : Usable(k)
        /\ migrator[m].pc = "building" => table
        /\ migrator[m].pc = "migrating" => migrator[m].pending = {}

StartedAreMigrated == started # {} => Latest \in journal

MigratorInv ==
    /\ MigratorTypeOK
    /\ NothingYet
    /\ JournalIsTrue
    /\ PrebuiltIsUsable
    /\ StartedAreMigrated

USE MigratorAssumption

LEMMA MigratorInitially == MigratorInit => MigratorInv
<1>. SUFFICES ASSUME MigratorInit PROVE MigratorInv
  OBVIOUS
<1>1. \A m \in MigratorProc : migrator[m].pc = "stopped"
  BY DEF MigratorInit, Stopped
<1>2. MigratorTypeOK
  <2>1. Stopped \in MigratorState /\ Stopped.pc = "stopped"
    BY DEF Stopped, MigratorState
  <2>2. journal \subseteq Migration \cup {PreSquash} /\ table \in BOOLEAN
    <3>1. PICK last \in 0 .. Latest : journal \in {{}, {PreSquash}, 1 .. last}
      BY DEF MigratorInit
    <3>2. 1 .. last \subseteq Migration
      BY DEF Migration
    <3>3. table \in BOOLEAN
      BY DEF MigratorInit
    <3>. QED
      BY <3>1, <3>2, <3>3
  <2>3. index \in [Indexed -> {"none", "invalid", "valid"}]
    BY DEF MigratorInit
  <2>. QED
    BY <2>1, <2>2, <2>3 DEF MigratorInit, MigratorTypeOK
<1>3. NothingYet /\ JournalIsTrue
  BY DEF MigratorInit, NothingYet, JournalIsTrue, Indexed, Migration, PreSquash
<1>. QED
  BY <1>1, <1>2, <1>3 DEF MigratorInit, MigratorInv, PrebuiltIsUsable, StartedAreMigrated

\* A migrator that changes only its own state leaves the rest of the invariant.
LEMMA OneMigrator ==
    ASSUME MigratorInv, NEW m \in MigratorProc, NEW new \in MigratorState,
           migrator' = [migrator EXCEPT ![m] = new],
           UNCHANGED <<table, index, journal, started>>,
           lock' \in MigratorProc \cup {Nobody},
           \A n \in MigratorProc \ {m} : Holds(n) => lock' = n,
           new.pc \notin {"stopped", "locking"} => lock' = m,
           new.pc \in {"checking", "building", "migrating"} =>
              \A k \in Indexed \ (journal \cup new.pending) : Usable(k),
           new.pc = "building" => table,
           new.pc = "migrating" => new.pending = {}
    PROVE  MigratorInv'
<1>1. \A n \in MigratorProc : migrator'[n] = IF n = m THEN new ELSE migrator[n]
  BY DEF MigratorInv, MigratorTypeOK
<1>2. MigratorTypeOK'
  BY <1>1 DEF MigratorInv, MigratorTypeOK, Holds
<1>3. PrebuiltIsUsable'
  BY <1>1 DEF MigratorInv, PrebuiltIsUsable, Usable
<1>. QED
  BY <1>2, <1>3 DEF MigratorInv, NothingYet, JournalIsTrue, StartedAreMigrated

\* Two migrators never work at the same time.
LEMMA Alone ==
    ASSUME MigratorInv, NEW m \in MigratorProc, Holds(m)
    PROVE  /\ lock = m
           /\ \A n \in MigratorProc \ {m} : ~Holds(n)
BY DEF MigratorInv, MigratorTypeOK, Holds

\* What a migrator can become.
LEMMA Places ==
    ASSUME MigratorInv, NEW m \in MigratorProc,
           NEW pc \in {"stopped", "locking", "adopting", "listing", "checking", "building",
                       "migrating"}
    PROVE  LET new == [migrator[m] EXCEPT !.pc = pc]
           IN  /\ new \in MigratorState /\ new.pc = pc /\ new.pending = migrator[m].pending
               /\ To(m, pc) => migrator' = [migrator EXCEPT ![m] = new]
BY DEF MigratorInv, MigratorTypeOK, MigratorState, To

\* Waiting for the session and for the lock, and looking at the journal.
LEMMA Preparation ==
    ASSUME MigratorInv, NEW m \in MigratorProc,
           Connect(m) \/ TakeLock(m) \/ ListPending(m)
    PROVE  MigratorInv'
<1>1. CASE Connect(m)
  <2>. DEFINE new == [migrator[m] EXCEPT !.pc = "locking"]
  <2>1. new \in MigratorState /\ new.pc = "locking" /\ migrator' = [migrator EXCEPT ![m] = new]
    BY <1>1, Places DEF Connect
  <2>2. lock' \in MigratorProc \cup {Nobody} /\ \A n \in MigratorProc : Holds(n) => lock' = n
    BY <1>1 DEF Connect, MigratorInv, MigratorTypeOK, Holds
  <2>. HIDE DEF new
  <2>. QED
    BY <1>1, <2>1, <2>2, OneMigrator DEF Connect
<1>2. CASE TakeLock(m)
  <2>1. \A n \in MigratorProc : ~Holds(n)
    BY <1>2 DEF TakeLock, MigratorInv, MigratorTypeOK, Holds
  <2>. DEFINE new == [migrator[m] EXCEPT !.pc = "adopting"]
  <2>2. new \in MigratorState /\ new.pc = "adopting" /\ migrator' = [migrator EXCEPT ![m] = new]
    BY <1>2, Places DEF TakeLock
  <2>. HIDE DEF new
  <2>. QED
    BY <1>2, <2>1, <2>2, OneMigrator DEF TakeLock
<1>3. CASE ListPending(m)
  <2>1. [pc |-> "checking", pending |-> Indexed \ journal] \in MigratorState
    BY DEF MigratorState
  <2>2. Holds(m)
    BY <1>3 DEF ListPending, At_, Holds
  <2>. QED
    BY <1>3, <2>1, <2>2, Alone, OneMigrator DEF ListPending
<1>. QED
  BY <1>1, <1>2, <1>3

\* Adopting the baseline of a database that was migrated before the squash.
LEMMA Adoption ==
    ASSUME MigratorInv, NEW m \in MigratorProc, Adopt(m)
    PROVE  MigratorInv'
<1>1. Holds(m)
  BY DEF Adopt, At_, Holds
<1>2. \A n \in MigratorProc \ {m} : migrator'[n] = migrator[n] /\ ~Holds(n)
  BY <1>1, Alone DEF Adopt, To, MigratorInv, MigratorTypeOK
<1>3. migrator'[m].pc = "listing" /\ migrator' \in [MigratorProc -> MigratorState]
  BY DEF Adopt, To, MigratorInv, MigratorTypeOK, MigratorState
<1>4. journal \subseteq journal' /\ journal' \subseteq journal \cup {1}
  BY DEF Adopt
<1>5. JournalIsTrue'
  BY DEF Adopt, MigratorInv, JournalIsTrue, Indexed, Migration, PreSquash
<1>6. MigratorTypeOK'
  BY <1>1, <1>2, <1>3, <1>4, Alone DEF Adopt, MigratorInv, MigratorTypeOK, Migration, Holds
<1>. QED
  BY <1>2, <1>3, <1>4, <1>5, <1>6 DEF Adopt, MigratorInv, NothingYet, PrebuiltIsUsable,
                                    StartedAreMigrated, Holds

\* An index that is made invalid, or valid, by the only migrator at work.
LEMMA IndexChanges ==
    ASSUME MigratorInv, NEW m \in MigratorProc, Holds(m), NEW new \in MigratorState,
           migrator' = [migrator EXCEPT ![m] = new],
           NEW k, NEW status \in {"invalid", "valid"},
           index' = [index EXCEPT ![k] = status],
           UNCHANGED <<table, journal, lock, started>>,
           table,
           new.pc \in {"checking", "building"},
           k \in journal => status = "valid",
           \A i \in Indexed \ (journal \cup new.pending) :
              i # k => Usable(i),
           k \in Indexed \ (journal \cup new.pending) => status = "valid"
    PROVE  MigratorInv'
<1>1. /\ index' \in [Indexed -> {"none", "invalid", "valid"}]
      /\ \A i \in Indexed : index'[i] = IF i = k THEN status ELSE index[i]
  BY DEF MigratorInv, MigratorTypeOK
<1>2. \A n \in MigratorProc : migrator'[n] = IF n = m THEN new ELSE migrator[n]
  BY DEF MigratorInv, MigratorTypeOK
<1>3. MigratorTypeOK'
  BY <1>1, <1>2, Alone DEF MigratorInv, MigratorTypeOK, Holds
<1>4. JournalIsTrue' /\ NothingYet'
  BY <1>1 DEF MigratorInv, JournalIsTrue, NothingYet
<1>5. PrebuiltIsUsable'
  <2>1. \A n \in MigratorProc \ {m} : migrator'[n].pc \in {"stopped", "locking"}
    BY <1>2, Alone DEF Holds
  <2>. QED
    BY <1>1, <1>2, <2>1 DEF PrebuiltIsUsable, Usable
<1>. QED
  BY <1>3, <1>4, <1>5 DEF MigratorInv, StartedAreMigrated

\* prebuildIndexesConcurrently keeps what is valid and builds the rest.
LEMMA Building ==
    ASSUME MigratorInv, NEW m \in MigratorProc, CheckIndex(m) \/ Built(m)
    PROVE  MigratorInv'
<1>. DEFINE pending == migrator[m].pending
            k == First(pending)
            rest == [migrator[m] EXCEPT !.pending = pending \ {k}]
<1>0. Holds(m) /\ pending \in SUBSET Indexed /\ migrator[m] \in MigratorState
  BY DEF CheckIndex, Built, At_, Holds, MigratorInv, MigratorTypeOK, MigratorState
<1>1. CASE CheckIndex(m) /\ pending = {}
  <2>. DEFINE new == [migrator[m] EXCEPT !.pc = "migrating"]
  <2>1. /\ new \in MigratorState /\ new.pc = "migrating" /\ new.pending = {}
        /\ migrator' = [migrator EXCEPT ![m] = new]
    BY <1>1, Places DEF CheckIndex
  <2>2. \A k_ \in Indexed \ (journal \cup {}) : Usable(k_)
    BY <1>1 DEF CheckIndex, At_, MigratorInv, PrebuiltIsUsable
  <2>3. UNCHANGED <<table, index, journal, lock, started>>
    BY <1>1 DEF CheckIndex
  <2>. HIDE DEF new
  <2>. QED
    BY <1>0, <2>1, <2>2, <2>3, Alone, OneMigrator DEF MigratorInv, MigratorTypeOK
<1>2. CASE CheckIndex(m) /\ pending # {} /\ (~table \/ index[k] = "valid")
  <2>1. rest \in MigratorState /\ rest.pc = "checking" /\ rest.pending = pending \ {k}
    BY <1>0, <1>2 DEF CheckIndex, At_, MigratorState
  <2>2. /\ migrator' = [migrator EXCEPT ![m] = rest]
        /\ UNCHANGED <<table, index, journal, lock, started>>
    BY <1>2 DEF CheckIndex, MigratorInv, MigratorTypeOK
  <2>3. \A i \in Indexed \ (journal \cup (pending \ {k})) : Usable(i)
    BY <1>2 DEF CheckIndex, At_, MigratorInv, PrebuiltIsUsable, Usable
  <2>. HIDE DEF k, rest
  <2>. QED
    BY <1>0, <2>1, <2>2, <2>3, Alone, OneMigrator DEF MigratorInv, MigratorTypeOK
<1>3. CASE CheckIndex(m) /\ pending # {} /\ table /\ index[k] # "valid"
  <2>. DEFINE new == [migrator[m] EXCEPT !.pc = "building"]
  <2>1. new \in MigratorState /\ new.pc = "building" /\ new.pending = pending
    BY <1>0 DEF MigratorState
  <2>2. /\ migrator' = [migrator EXCEPT ![m] = new]
        /\ index' = [index EXCEPT ![k] = "invalid"]
        /\ UNCHANGED <<table, journal, lock, started>>
    BY <1>3, Places DEF CheckIndex
  <2>3. \A i \in Indexed \ (journal \cup pending) : Usable(i)
    BY <1>3 DEF CheckIndex, At_, MigratorInv, PrebuiltIsUsable
  <2>4. k \in Indexed => k \in pending /\ k \notin journal
    BY <1>3, <2>3 DEF MigratorInv, JournalIsTrue, Usable
  <2>5. CASE k \in Indexed
    <3>. HIDE DEF k, new
    <3>. QED
      BY <1>0, <1>3, <2>1, <2>2, <2>3, <2>4, <2>5, IndexChanges
  <2>6. CASE k \notin Indexed
    <3>1. index' = index
      BY <2>2, <2>6 DEF MigratorInv, MigratorTypeOK
    <3>. HIDE DEF k, new
    <3>. QED
      BY <1>0, <1>3, <2>1, <2>2, <2>3, <3>1, Alone, OneMigrator DEF MigratorInv, MigratorTypeOK
  <2>. QED
    BY <2>5, <2>6
<1>4. CASE Built(m)
  <2>. DEFINE new == [pc |-> "checking", pending |-> pending \ {k}]
  <2>1. new \in MigratorState /\ new.pc = "checking" /\ new.pending = pending \ {k}
    BY <1>0 DEF MigratorState
  <2>2. /\ migrator' = [migrator EXCEPT ![m] = new]
        /\ index' = [index EXCEPT ![k] = "valid"]
        /\ UNCHANGED <<table, journal, lock, started>>
    BY <1>4 DEF Built, MigratorInv, MigratorTypeOK
  <2>3. table /\ \A i \in Indexed \ (journal \cup (pending \ {k})) : i # k => Usable(i)
    BY <1>4 DEF Built, At_, MigratorInv, PrebuiltIsUsable
  <2>. HIDE DEF k, new
  <2>. QED
    BY <1>0, <2>1, <2>2, <2>3, IndexChanges
<1>. QED
  BY <1>1, <1>2, <1>3, <1>4 DEF CheckIndex

\* The transaction of the migrations: the journal has no gaps after it, and the
\* indexes it names are there, built before or with the table.
LEMMA MigrationRun ==
    ASSUME MigratorInv, NEW m \in MigratorProc, Migrate(m)
    PROVE  MigratorInv'
<1>0. Holds(m) /\ migrator[m].pending = {}
  BY DEF Migrate, At_, Holds, MigratorInv, PrebuiltIsUsable
<1>1. \A k \in Indexed \ journal : Usable(k)
  BY <1>0 DEF Migrate, At_, MigratorInv, PrebuiltIsUsable
<1>2. /\ \A k \in Indexed : index'[k] = IF k \in ToRun /\ index[k] = "none"
                                        THEN "valid" ELSE index[k]
      /\ index' \in [Indexed -> {"none", "invalid", "valid"}]
  BY DEF Migrate, MigratorInv, MigratorTypeOK
<1>3. \A k \in ToRun : k \in Migration /\ k \notin journal
  BY DEF ToRun, Migration
<1>4. \A k \in Indexed \cap (journal \cup ToRun) : index'[k] = "valid"
  BY <1>1, <1>2, <1>3 DEF MigratorInv, JournalIsTrue, NothingYet, Usable
<1>5. \A k \in Migration \cap (journal \cup ToRun) : 1 .. k \subseteq journal \cup ToRun
  <2>. SUFFICES ASSUME NEW k \in Migration \cap (journal \cup ToRun), NEW i \in 1 .. k,
                       i \notin journal, i \notin ToRun
                PROVE  FALSE
    OBVIOUS
  <2>1. k \in ToRun
    BY DEF MigratorInv, JournalIsTrue, Migration
  <2>2. i \in Migration
    BY DEF Migration
  <2>3. PICK j \in journal : ~(j < i)
    BY <2>2 DEF ToRun
  <2>4. j \in Migration /\ i \in 1 .. j
    BY <2>2, <2>3 DEF MigratorInv, MigratorTypeOK, Migration, PreSquash
  <2>. QED
    BY <2>3, <2>4 DEF MigratorInv, JournalIsTrue
<1>6. \A k \in Migration \cap (journal \cup ToRun) : table'
  <2>1. journal \cap Migration # {} => table
    BY DEF MigratorInv, JournalIsTrue
  <2>2. ASSUME journal \cap Migration = {}, NEW k \in ToRun PROVE 1 \in ToRun
    BY <2>2, <1>3 DEF ToRun, Migration, MigratorInv, MigratorTypeOK, PreSquash
  <2>. QED
    BY <2>1, <2>2 DEF Migrate
<1>7. journal' = journal \cup ToRun /\ (table => table') /\ PreSquash \notin ToRun
  <2>1. journal' = journal \cup ToRun /\ (table => table')
    BY Zenon DEF Migrate
  <2>2. PreSquash \notin ToRun
    BY <1>3 DEF Migration, PreSquash
  <2>. QED
    BY <2>1, <2>2
<1>8. JournalIsTrue'
  BY <1>4, <1>5, <1>6, <1>7 DEF JournalIsTrue, MigratorInv
<1>9. NothingYet'
  <2>1. ~table' => ~table /\ 1 \notin ToRun
    BY DEF Migrate
  <2>2. ~table => journal \cap Migration = {} /\ PreSquash \notin journal
    BY DEF MigratorInv, JournalIsTrue
  <2>3. ~table => 1 \in ToRun
    BY <2>2 DEF MigratorInv, MigratorTypeOK, ToRun, Migration, PreSquash
  <2>. QED
    BY <2>1, <2>3 DEF NothingYet
<1>10. \A n \in MigratorProc : migrator'[n].pc \in {"stopped", "locking"}
  <2>1. \A n \in MigratorProc : migrator'[n] = IF n = m THEN Stopped ELSE migrator[n]
    BY DEF Migrate, MigratorInv, MigratorTypeOK
  <2>. QED
    BY <1>0, <2>1, Alone DEF Holds, Stopped
<1>11. migrator' \in [MigratorProc -> MigratorState]
  <2>1. Stopped \in MigratorState
    BY DEF Stopped, MigratorState
  <2>. QED
    BY <2>1 DEF Migrate, MigratorInv, MigratorTypeOK
<1>12. MigratorTypeOK'
  BY <1>2, <1>3, <1>7, <1>10, <1>11 DEF Migrate, MigratorInv, MigratorTypeOK
<1>13. PrebuiltIsUsable'
  BY <1>10 DEF PrebuiltIsUsable
<1>14. StartedAreMigrated'
  BY <1>7 DEF Migrate, MigratorInv, StartedAreMigrated
<1>. QED
  BY <1>8, <1>9, <1>12, <1>13, <1>14 DEF MigratorInv

\* Every step keeps the invariant.
LEMMA MigratorStep == MigratorInv /\ [MigratorNext]_migratorVars => MigratorInv'
<1>. SUFFICES ASSUME MigratorInv, [MigratorNext]_migratorVars PROVE MigratorInv'
  OBVIOUS
<1>1. CASE UNCHANGED migratorVars
  BY <1>1 DEF migratorVars, MigratorInv, MigratorTypeOK, NothingYet, JournalIsTrue,
             PrebuiltIsUsable, StartedAreMigrated, Usable
<1>2. ASSUME NEW m \in MigratorProc, Abort(m) PROVE MigratorInv'
  <2>1. Stopped \in MigratorState /\ Stopped.pc = "stopped"
    BY DEF Stopped, MigratorState
  <2>2. /\ lock' \in MigratorProc \cup {Nobody}
        /\ \A n \in MigratorProc \ {m} : Holds(n) => lock' = n
    BY <1>2 DEF Abort, MigratorInv, MigratorTypeOK, Holds
  <2>. QED
    BY <1>2, <2>1, <2>2, OneMigrator DEF Abort
<1>3. ASSUME NEW w \in WorkerProc, StartWorker(w) PROVE MigratorInv'
  BY <1>3 DEF StartWorker, MigratorInv, MigratorTypeOK, NothingYet, JournalIsTrue,
             PrebuiltIsUsable, StartedAreMigrated, Usable
<1>. QED
  BY <1>1, <1>2, <1>3, Preparation, Adoption, Building, MigrationRun DEF MigratorNext

\* A worker that has seen the newest migration in the journal has its schema
\* with every index usable (waitForMigration, prebuildIndexesConcurrently).
THEOREM SchemaIsReady == MigratorSpec => []WorkersFindSchema
<1>1. MigratorInv => WorkersFindSchema
  <2>. SUFFICES ASSUME MigratorInv, started # {} PROVE WorkersFindSchema
    BY DEF WorkersFindSchema
  <2>1. Latest \in journal \cap Migration
    BY DEF MigratorInv, StartedAreMigrated, Migration
  <2>2. table /\ 1 .. Latest \subseteq journal
    BY <2>1 DEF MigratorInv, JournalIsTrue
  <2>3. \A k \in Indexed : k \in journal
    BY <2>2 DEF Indexed
  <2>. QED
    BY <2>2, <2>3 DEF MigratorInv, JournalIsTrue, WorkersFindSchema
<1>. QED
  BY <1>1, MigratorInitially, MigratorStep, PTL DEF MigratorSpec

HIDE MigratorAssumption

------------------------------------------------------------------------------
(* Folders *)

USE FoldersAssumption

\* What is in a folder that a deletion has found empty has entered it since.
DeletionsAreWatched ==
    \A f \in deletion : f \in folders /\ Inside(f) \subseteq entered[f]

FolderInv ==
    /\ deletion \subseteq Folder
    /\ entered \in [Folder -> SUBSET Source]
    /\ place \in [Source -> Folder \cup {Root, None}]
    /\ asked \in [Source -> Folder \cup {Root, Nowhere}]
    /\ DeletionsAreWatched

LEMMA FoldersInitially == FoldersInit => FolderInv
BY DEF FoldersInit, FolderInv, DeletionsAreWatched, Inside

\* The steps that change no folder, place or deletion.
LEMMA FoldersStill ==
    ASSUME FolderInv, UNCHANGED <<folders, place, deletion, entered>>,
           asked' \in [Source -> Folder \cup {Root, Nowhere}]
    PROVE  FolderInv'
BY DEF FolderInv, DeletionsAreWatched, Inside

LEMMA Entering ==
    ASSUME FolderInv, NEW s \in Source, EnterFolder(s)
    PROVE  FolderInv'
<1>1. asked' \in [Source -> Folder \cup {Root, Nowhere}]
  BY DEF EnterFolder, FolderInv
<1>2. CASE asked[s] \in folders \cup {Root}
  <2>1. place' = [place EXCEPT ![s] = asked[s]] /\ UNCHANGED <<folders, deletion>>
    BY <1>2 DEF EnterFolder
  <2>2. entered' = [f \in Folder |-> IF f = asked[s] /\ f \in deletion
                                     THEN entered[f] \cup {s} ELSE entered[f]]
    BY <1>2 DEF EnterFolder
  <2>3. entered' \in [Folder -> SUBSET Source]
    BY <2>2 DEF FolderInv
  <2>4. asked[s] \in Folder \cup {Root}
    BY DEF EnterFolder, FolderInv
  <2>5. place' \in [Source -> Folder \cup {Root, None}]
    BY <2>1, <2>4 DEF FolderInv
  <2>6. ASSUME NEW f \in deletion PROVE f \in folders /\ Inside(f)' \subseteq entered'[f]
    <3>1. f \in Folder /\ f \in folders /\ Inside(f) \subseteq entered[f]
      BY DEF FolderInv, DeletionsAreWatched
    <3>2. Inside(f)' \subseteq IF f = asked[s] THEN Inside(f) \cup {s} ELSE Inside(f)
      BY <2>1 DEF Inside, FolderInv
    <3>. QED
      BY <2>2, <3>1, <3>2
  <2>. QED
    BY <1>1, <2>1, <2>3, <2>5, <2>6 DEF FolderInv, DeletionsAreWatched
<1>3. CASE asked[s] \notin folders \cup {Root}
  BY <1>1, <1>3, FoldersStill DEF EnterFolder
<1>. QED
  BY <1>2, <1>3

LEMMA FolderStep == FolderInv /\ [FoldersNext]_folderVars => FolderInv'
<1>. SUFFICES ASSUME FolderInv, [FoldersNext]_folderVars PROVE FolderInv'
  OBVIOUS
<1>1. CASE UNCHANGED folderVars
  BY <1>1, FoldersStill DEF folderVars, FolderInv
<1>2. ASSUME NEW f \in Folder, CreateFolder(f) PROVE FolderInv'
  BY <1>2 DEF CreateFolder, FolderInv, DeletionsAreWatched, Inside
<1>3. ASSUME NEW f \in Folder, SelectEmptyFolder(f) PROVE FolderInv'
  BY <1>3 DEF SelectEmptyFolder, FolderInv, DeletionsAreWatched, Inside
<1>4. ASSUME NEW f \in Folder, DeleteFolder(f) PROVE FolderInv'
  BY <1>4 DEF DeleteFolder, FolderInv, DeletionsAreWatched, Inside
<1>5. ASSUME NEW f \in Folder, NEW i \in Importer, CommitImport(i, f) PROVE FolderInv'
  BY <1>5 DEF CommitImport, FolderInv, DeletionsAreWatched, Inside
<1>6. ASSUME NEW s \in Source, NEW f \in Folder \cup {Root}, CheckFolder(s, f)
      PROVE  FolderInv'
  BY <1>6, FoldersStill DEF CheckFolder, FolderInv
<1>7. ASSUME NEW s \in Source, RemoveSource(s) PROVE FolderInv'
  BY <1>7 DEF RemoveSource, FolderInv, DeletionsAreWatched, Inside
<1>8. ASSUME NEW i \in Importer, NEW d \in Document, ClaimDocument(i, d) PROVE FolderInv'
  BY <1>8, FoldersStill DEF ClaimDocument, FolderInv
<1>9. ASSUME NEW i \in Importer, EnqueueImported(i) \/ ImportCrashes(i) PROVE FolderInv'
  BY <1>9, FoldersStill DEF EnqueueImported, ImportCrashes, FolderInv
<1>. QED
  BY <1>1, <1>2, <1>3, <1>4, <1>5, <1>6, <1>7, <1>8, <1>9, Entering DEF FoldersNext

\* The deletion of a folder takes along only what entered it after it was found
\* empty (removeEmptyUserFolder).
THEOREM DeletionsTakeOnlyEntered == FoldersSpec => DeletionTakesOnlyEntered
<1>1. ASSUME FolderInv, [FoldersNext]_folderVars, NEW f \in Folder, f \in folders \ folders'
      PROVE  Inside(f) \subseteq entered[f]
  <2>1. DeleteFolder(f)
    BY <1>1 DEF FoldersNext, folderVars, CreateFolder, SelectEmptyFolder, DeleteFolder,
                CommitImport, CheckFolder, EnterFolder, RemoveSource, ClaimDocument,
                EnqueueImported, ImportCrashes, importVars
  <2>. QED
    BY <1>1, <2>1 DEF DeleteFolder, FolderInv, DeletionsAreWatched
<1>2. FolderInv /\ [FoldersNext]_folderVars =>
         [\A f \in Folder : f \in folders \ folders' => Inside(f) \subseteq entered[f]]_folderVars
  BY <1>1
<1>. QED
  BY <1>2, FoldersInitially, FolderStep, PTL DEF FoldersSpec, DeletionTakesOnlyEntered

------------------------------------------------------------------------------
(* Imports *)

\* Each document that has been imported was imported once, and one that is being
\* imported was not.
ImportInv ==
    /\ imports \subseteq Document
    /\ import \in [Importer -> ImportState]
    /\ copies = [d \in Document |-> IF d \in imports THEN 1 ELSE 0]
    /\ \A i \in Importer : import[i].pc = "inserting" =>
          /\ import[i].doc \in Document \ imports
          /\ \A j \in Importer : import[j].pc = "inserting" => j = i

LEMMA ImportsInitially == FoldersInit => ImportInv
<1>1. NoImport \in ImportState /\ NoImport.pc = "idle"
  BY DEF NoImport, ImportState
<1>. QED
  BY <1>1 DEF FoldersInit, ImportInv

LEMMA Claiming ==
    ASSUME ImportInv, NEW i \in Importer, NEW d \in Document, ClaimDocument(i, d)
    PROVE  ImportInv'
<1>1. Free /\ d \notin imports /\ UNCHANGED <<imports, copies>>
  BY DEF ClaimDocument
<1>2. import' = [import EXCEPT ![i] = [pc |-> "inserting", doc |-> d, todo |-> {}]]
  BY DEF ClaimDocument
<1>3. import' \in [Importer -> ImportState] /\ import'[i].doc = d
      /\ \A j \in Importer : import'[j].pc = "inserting" => j = i
  BY <1>1, <1>2 DEF ImportInv, ImportState, Free
<1>. QED
  BY <1>1, <1>3 DEF ImportInv

LEMMA Committing ==
    ASSUME ImportInv, NEW i \in Importer, NEW f \in Folder, CommitImport(i, f)
    PROVE  ImportInv'
<1>. DEFINE new == {s \in Source : place[s] = None}
            d == import[i].doc
<1>1. import' = [import EXCEPT ![i] = [pc |-> "enqueueing", doc |-> d, todo |-> new]]
  BY DEF CommitImport
<1>2. d \in Document \ imports
  BY DEF CommitImport, ImportInv
<1>3. import' \in [Importer -> ImportState]
      /\ \A j \in Importer : import'[j].pc # "inserting"
  BY <1>1, <1>2 DEF CommitImport, ImportInv, ImportState
<1>4. imports' = imports \cup {d}
      /\ copies' = [e \in Document |-> IF e \in imports' THEN 1 ELSE 0]
  BY <1>2 DEF CommitImport, ImportInv
<1>. QED
  BY <1>2, <1>3, <1>4 DEF ImportInv

LEMMA ImportStep == ImportInv /\ [FoldersNext]_folderVars => ImportInv'
<1>. SUFFICES ASSUME ImportInv, [FoldersNext]_folderVars PROVE ImportInv'
  OBVIOUS
<1>1. CASE UNCHANGED importVars
  BY <1>1 DEF importVars, ImportInv
<1>2. ASSUME NEW i \in Importer, EnqueueImported(i) PROVE ImportInv'
  <2>1. CASE import[i].todo = {}
    <3>1. NoImport \in ImportState /\ NoImport.pc = "idle"
      BY DEF NoImport, ImportState
    <3>. QED
      BY <1>2, <2>1, <3>1 DEF EnqueueImported, ImportInv
  <2>2. CASE import[i].todo # {}
    <3>1. PICK s \in import[i].todo :
             import' = [import EXCEPT ![i] = [import[i] EXCEPT !.todo = import[i].todo \ {s}]]
      BY <1>2, <2>2 DEF EnqueueImported, ImportInv
    <3>2. import[i] = [pc |-> "enqueueing", doc |-> import[i].doc, todo |-> import[i].todo]
          /\ import[i].doc \in Document \cup {None} /\ import[i].todo \subseteq Source
      BY <1>2 DEF EnqueueImported, ImportInv, ImportState
    <3>3. [import[i] EXCEPT !.todo = import[i].todo \ {s}]
             = [pc |-> "enqueueing", doc |-> import[i].doc, todo |-> import[i].todo \ {s}]
      BY <3>2
    <3>4. import' = [import EXCEPT ![i] = [pc |-> "enqueueing", doc |-> import[i].doc,
                                           todo |-> import[i].todo \ {s}]]
      BY <3>1, <3>3
    <3>5. import' \in [Importer -> ImportState]
          /\ \A j \in Importer : import'[j].pc = "inserting" => j # i /\ import'[j] = import[j]
      BY <3>2, <3>4 DEF ImportInv, ImportState
    <3>. QED
      BY <1>2, <3>5 DEF EnqueueImported, ImportInv
  <2>. QED
    BY <2>1, <2>2
<1>3. ASSUME NEW i \in Importer, ImportCrashes(i) PROVE ImportInv'
  <2>1. NoImport \in ImportState /\ NoImport.pc = "idle"
    BY DEF NoImport, ImportState
  <2>. QED
    BY <1>3, <2>1 DEF ImportCrashes, ImportInv
<1>4. ASSUME NEW f \in Folder, CreateFolder(f) \/ SelectEmptyFolder(f) \/ DeleteFolder(f)
      PROVE  UNCHANGED importVars
  BY <1>4 DEF CreateFolder, SelectEmptyFolder, DeleteFolder
<1>5. ASSUME NEW s \in Source,
             (\E f \in Folder \cup {Root} : CheckFolder(s, f)) \/ EnterFolder(s)
             \/ RemoveSource(s)
      PROVE  UNCHANGED importVars
  BY <1>5 DEF CheckFolder, EnterFolder, RemoveSource
<1>6. CASE UNCHANGED folderVars
  BY <1>1, <1>6 DEF folderVars, importVars
<1>. QED
  BY <1>1, <1>2, <1>3, <1>4, <1>5, <1>6, Claiming, Committing DEF FoldersNext

\* A document is imported once, however many requests bring it, at once or again
\* (OpmlImportService.insertTree).
THEOREM DocumentsAreImportedOnce == FoldersSpec => []ImportedOnce
<1>1. ImportInv => ImportedOnce
  BY DEF ImportInv, ImportedOnce
<1>. QED
  BY <1>1, ImportsInitially, ImportStep, PTL DEF FoldersSpec

HIDE FoldersAssumption

------------------------------------------------------------------------------
(* The host gate *)

\* The interactive requests between their INCR and their DECR.
Waiting == {c \in Interactive : call[c].pc \in Registered}

Counter == [there : BOOLEAN, n : Int, ttl : Nat]

GateShapes ==
    /\ waiters \in Counter
    /\ call \in [Caller -> Call]
    /\ ahead \in [Caller -> SUBSET Interactive]
    /\ abandoned \in Nat /\ lost \in Nat
    /\ \A c \in Caller : call[c].pc \in Registered => c \in Interactive

\* The counter is what waits, and what was left in it, less what it lost.
CounterIsExact == waiters.n = Cardinality(Waiting) + abandoned - lost

\* The counter does not expire under a request that waits.
OutlivesWaiters ==
    \A c \in Caller : At(c, "waiting")
                      => waiters.ttl = 0 \/ waiters.ttl + call[c].waited >= CounterTtl

\* Nobody is in front of anybody, as long as the counter lacks no increment.
AheadIsWaiting ==
    /\ \A c \in Caller : ahead[c] \subseteq Waiting
    /\ lost = 0 => \A c \in Caller : ahead[c] = {}

GateInv == GateShapes /\ CounterIsExact /\ OutlivesWaiters /\ AheadIsWaiting

USE GateAssumption

LEMMA WaitingIsFinite == IsFiniteSet(Waiting) /\ Cardinality(Waiting) \in Nat
<1>1. Waiting \subseteq Caller
  BY DEF Waiting
<1>. QED
  BY <1>1, FS_Subset, FS_CardinalityType

LEMMA GateInitially == GateInit => GateInv
<1>. SUFFICES ASSUME GateInit PROVE GateInv
  OBVIOUS
<1>1. NoCall \in Call /\ NoCall.pc = "idle"
  BY DEF NoCall, Call, Place
<1>2. Waiting = {}
  BY <1>1 DEF GateInit, Waiting, Registered
<1>3. Cardinality(Waiting) = 0
  BY <1>2, FS_EmptySet
<1>4. GateShapes
  <2>1. waiters \in Counter
    BY DEF GateInit, NoCounter, Counter
  <2>2. call \in [Caller -> Call] /\ \A c \in Caller : call[c].pc \notin Registered
    BY <1>1 DEF GateInit, Registered
  <2>. QED
    BY <2>1, <2>2 DEF GateInit, GateShapes
<1>5. waiters.n = 0
  BY DEF GateInit, NoCounter
<1>. QED
  BY <1>1, <1>3, <1>4, <1>5
  DEF GateInit, GateInv, CounterIsExact, OutlivesWaiters, AheadIsWaiting, At

\* What a request can become.
LEMMA PlacesOfCalls ==
    ASSUME GateInv, NEW c \in Caller, NEW stage \in Place, CallTo(c, stage)
    PROVE  /\ call' \in [Caller -> Call]
           /\ call'[c].pc = stage /\ call'[c].waited = call[c].waited
           /\ \A d \in Caller \ {c} : call'[d] = call[d]
           /\ call[c].waited \in 0 .. Patience
BY DEF GateInv, GateShapes, CallTo, Call

\* A step of a request that neither joins nor leaves those who wait, and leaves
\* the counter alone.
LEMMA SameWaiters ==
    ASSUME GateInv, NEW c \in Caller,
           call' \in [Caller -> Call],
           \A d \in Caller \ {c} : call'[d] = call[d],
           call'[c].pc \in Registered <=> call[c].pc \in Registered,
           call'[c].pc # "waiting",
           UNCHANGED <<waiters, abandoned, lost>>,
           ahead' \in [Caller -> SUBSET Interactive],
           \A d \in Caller : ahead'[d] \subseteq Waiting,
           lost = 0 => \A d \in Caller : ahead'[d] = {}
    PROVE  GateInv'
<1>1. Waiting' = Waiting
  BY DEF Waiting
<1>2. GateShapes'
  BY DEF GateInv, GateShapes
<1>. QED
  BY <1>1, <1>2 DEF GateInv, CounterIsExact, OutlivesWaiters, AheadIsWaiting, At

\* A request that was not among those who wait ends.
LEMMA CallEnds ==
    ASSUME GateInv, NEW c \in Caller,
           call' \in [Caller -> Call],
           \A d \in Caller \ {c} : call'[d] = call[d],
           call'[c].pc = "idle", call[c].pc \notin Registered,
           UNCHANGED <<waiters, abandoned, lost>>,
           \/ ahead' = [ahead EXCEPT ![c] = {}]
           \/ ahead' = [GoneFrom(c) EXCEPT ![c] = {}]
    PROVE  GateInv'
<1>1. call'[c].pc \notin Registered
  BY DEF Registered
<1>2. ahead' \in [Caller -> SUBSET Interactive]
      /\ \A d \in Caller : ahead'[d] \subseteq ahead[d]
  <2>1. ahead \in [Caller -> SUBSET Interactive]
    BY DEF GateInv, GateShapes
  <2>2. CASE ahead' = [ahead EXCEPT ![c] = {}]
    BY <2>1, <2>2
  <2>3. CASE ahead' = [GoneFrom(c) EXCEPT ![c] = {}]
    <3>1. \A d \in Caller : ahead'[d] = IF d = c THEN {} ELSE ahead[d] \ {c}
      BY <2>3 DEF GoneFrom
    <3>2. ahead' \in [Caller -> SUBSET Interactive]
      BY <2>1, <2>3 DEF GoneFrom
    <3>. QED
      BY <3>1, <3>2
  <2>. QED
    BY <2>2, <2>3
<1>3. \A d \in Caller : ahead'[d] \subseteq Waiting
  BY <1>2 DEF GateInv, AheadIsWaiting
<1>4. lost = 0 => \A d \in Caller : ahead'[d] = {}
  BY <1>2 DEF GateInv, AheadIsWaiting
<1>. QED
  BY <1>1, <1>2, <1>3, <1>4, SameWaiters

\* A request that was among those who wait, and is not.
LEMMA NoLongerWaiting ==
    ASSUME GateInv, NEW c \in Caller,
           call' \in [Caller -> Call],
           \A d \in Caller \ {c} : call'[d] = call[d],
           call[c].pc \in Registered, call'[c].pc \in {"idle", "sent"}
    PROVE  /\ Waiting' = Waiting \ {c}
           /\ Cardinality(Waiting') = Cardinality(Waiting) - 1
<1>1. Waiting' = Waiting \ {c} /\ c \in Waiting
  BY DEF Waiting, Registered, GateInv, GateShapes
<1>. QED
  BY <1>1, WaitingIsFinite, FS_RemoveElement

\* INCR.
LEMMA Joins ==
    ASSUME GateInv, NEW c \in Caller, Register(c)
    PROVE  GateInv'
<1>1. /\ call' \in [Caller -> Call]
      /\ call'[c].pc = "expiring"
      /\ \A d \in Caller \ {c} : call'[d] = call[d]
  BY PlacesOfCalls DEF Register, Place
<1>2. Waiting' = Waiting \cup {c} /\ c \notin Waiting
  BY <1>1 DEF Register, Waiting, Registered, At
<1>3. Cardinality(Waiting') = Cardinality(Waiting) + 1 /\ Cardinality(Waiting) \in Nat
  BY <1>2, WaitingIsFinite, FS_AddElement
<1>4. waiters' \in Counter /\ waiters'.n = waiters.n + 1 /\ waiters'.ttl = waiters.ttl
  <2>1. waiters = [there |-> waiters.there, n |-> waiters.n, ttl |-> waiters.ttl]
        /\ waiters.n \in Int /\ waiters.ttl \in Nat
    BY DEF GateInv, GateShapes, Counter
  <2>2. waiters' = [there |-> TRUE, n |-> waiters.n + 1, ttl |-> waiters.ttl]
    BY <2>1 DEF Register
  <2>. QED
    BY <2>1, <2>2 DEF Counter
<1>5. GateShapes'
  BY <1>1, <1>4 DEF Register, GateInv, GateShapes
<1>6. CounterIsExact'
  BY <1>3, <1>4 DEF Register, GateInv, GateShapes, Counter, CounterIsExact
<1>7. OutlivesWaiters'
  BY <1>1, <1>4 DEF GateInv, OutlivesWaiters, At
<1>8. AheadIsWaiting'
  BY <1>2 DEF Register, GateInv, AheadIsWaiting
<1>. QED
  BY <1>5, <1>6, <1>7, <1>8 DEF GateInv

\* DECR, of what was counted or of what was not.
LEMMA Leaves ==
    ASSUME GateInv, NEW c \in Caller, Unregister(c)
    PROVE  GateInv'
<1>1. /\ call' \in [Caller -> Call]
      /\ call'[c].pc \in {"sent", "idle"}
      /\ \A d \in Caller \ {c} : call'[d] = call[d]
  <2>1. NoCall \in Call /\ [NoCall EXCEPT !.pc = "sent"] \in Call
    BY DEF NoCall, Call, Place
  <2>2. NoCall.pc = "idle" /\ [NoCall EXCEPT !.pc = "sent"].pc = "sent"
    BY DEF NoCall
  <2>. QED
    BY <2>1, <2>2 DEF Unregister, GateInv, GateShapes
<1>2. waiters' \in Counter /\ waiters'.n = waiters.n - 1 /\ waiters'.ttl = waiters.ttl
  <2>1. waiters = [there |-> waiters.there, n |-> waiters.n, ttl |-> waiters.ttl]
        /\ waiters.n \in Int /\ waiters.ttl \in Nat
    BY DEF GateInv, GateShapes, Counter
  <2>2. waiters' = [there |-> TRUE, n |-> waiters.n - 1, ttl |-> waiters.ttl]
    BY <2>1 DEF Unregister
  <2>. QED
    BY <2>1, <2>2 DEF Counter
<1>3. /\ Waiting' = Waiting \ {c}
      /\ \/ /\ Cardinality(Waiting') = Cardinality(Waiting) - 1 /\ lost' = lost
         \/ Cardinality(Waiting') = Cardinality(Waiting) /\ lost' = lost + 1
  <2>1. CASE At(c, "undoing")
    <3>1. Waiting' = Waiting /\ c \notin Waiting
      BY <1>1, <2>1 DEF Waiting, Registered, At
    <3>. QED
      BY <2>1, <3>1 DEF Unregister
  <2>2. CASE ~At(c, "undoing")
    <3>1. call[c].pc \in Registered
      BY <2>2 DEF Unregister, Registered, At
    <3>. QED
      BY <1>1, <2>2, <3>1, NoLongerWaiting DEF Unregister
  <2>. QED
    BY <2>1, <2>2
<1>4. lost \in Nat /\ abandoned \in Nat /\ abandoned' = abandoned /\ waiters.n \in Int
      /\ Cardinality(Waiting) \in Nat
  BY WaitingIsFinite DEF Unregister, GateInv, GateShapes, Counter
<1>5. ahead' \in [Caller -> SUBSET Interactive] /\ \A d \in Caller : ahead'[d] = ahead[d] \ {c}
  BY DEF Unregister, GateInv, GateShapes, GoneFrom
<1>6. GateShapes'
  BY <1>1, <1>2, <1>3, <1>4, <1>5 DEF GateInv, GateShapes, Registered
<1>7. CounterIsExact'
  BY <1>2, <1>3, <1>4 DEF GateInv, CounterIsExact
<1>8. OutlivesWaiters'
  BY <1>1, <1>2 DEF GateInv, OutlivesWaiters, At
<1>9. AheadIsWaiting'
  <2>1. \A d \in Caller : ahead'[d] \subseteq Waiting'
    BY <1>3, <1>5 DEF GateInv, AheadIsWaiting
  <2>2. lost' = 0 => lost = 0
    BY <1>3, <1>4
  <2>. QED
    BY <1>5, <2>1, <2>2 DEF GateInv, AheadIsWaiting
<1>. QED
  BY <1>6, <1>7, <1>8, <1>9 DEF GateInv

\* A process that dies while its request waits.
LEMMA Dies ==
    ASSUME GateInv, NEW c \in Caller, CallerDies(c)
    PROVE  GateInv'
<1>1. NoCall \in Call /\ NoCall.pc = "idle"
  BY DEF NoCall, Call, Place
<1>2. /\ call' \in [Caller -> Call]
      /\ call'[c].pc = "idle"
      /\ \A d \in Caller \ {c} : call'[d] = call[d]
      /\ UNCHANGED <<waiters, lost>>
  BY <1>1 DEF CallerDies, GateInv, GateShapes
<1>3. CASE call[c].pc \notin Registered
  BY <1>2, <1>3, CallEnds DEF CallerDies
<1>4. CASE call[c].pc \in Registered
  <2>1. /\ Waiting' = Waiting \ {c}
        /\ Cardinality(Waiting') = Cardinality(Waiting) - 1
    BY <1>2, <1>4, NoLongerWaiting
  <2>2. lost \in Nat /\ abandoned \in Nat /\ abandoned' = abandoned + 1 /\ waiters.n \in Int
        /\ Cardinality(Waiting) \in Nat
    BY <1>4, WaitingIsFinite DEF CallerDies, GateInv, GateShapes, Counter
  <2>3. /\ ahead' \in [Caller -> SUBSET Interactive]
        /\ \A d \in Caller : ahead'[d] \subseteq ahead[d] \ {c}
    BY DEF CallerDies, GateInv, GateShapes, GoneFrom
  <2>4. GateShapes'
    BY <1>2, <2>2, <2>3 DEF GateInv, GateShapes, Registered
  <2>5. CounterIsExact'
    BY <1>2, <2>1, <2>2 DEF GateInv, CounterIsExact
  <2>6. OutlivesWaiters'
    BY <1>2 DEF GateInv, OutlivesWaiters, At
  <2>7. AheadIsWaiting'
    BY <1>2, <2>1, <2>3 DEF GateInv, AheadIsWaiting
  <2>. QED
    BY <2>4, <2>5, <2>6, <2>7 DEF GateInv
<1>. QED
  BY <1>3, <1>4

\* EXPIRE.
LEMMA Expires ==
    ASSUME GateInv, NEW c \in Caller, SetExpiry(c)
    PROVE  GateInv'
<1>1. /\ call' \in [Caller -> Call]
      /\ call'[c].pc = "waiting" /\ call'[c].waited \in Nat
      /\ \A d \in Caller \ {c} : call'[d] = call[d]
  BY PlacesOfCalls DEF SetExpiry, Place
<1>2. Waiting' = Waiting
  BY <1>1 DEF SetExpiry, Waiting, Registered, At
<1>3. /\ waiters'.n = waiters.n
      /\ waiters'.ttl = 0 \/ waiters'.ttl = CounterTtl
      /\ waiters' \in Counter
  BY DEF SetExpiry, GateInv, GateShapes, Counter
<1>4. GateShapes'
  <2>1. c \in Interactive
    BY DEF SetExpiry, GateInv, GateShapes, At, Registered
  <2>. QED
    BY <1>1, <1>3, <2>1 DEF SetExpiry, GateInv, GateShapes
<1>5. OutlivesWaiters'
  <2>1. \A d \in Caller : call'[d].waited \in Nat
    BY <1>1 DEF Call
  <2>. QED
    BY <1>3, <2>1 DEF OutlivesWaiters
<1>. QED
  BY <1>2, <1>3, <1>4, <1>5
  DEF SetExpiry, GateInv, CounterIsExact, AheadIsWaiting

\* A background request reads the counter.
LEMMA Reads ==
    ASSUME GateInv, NEW c \in Caller, ReadWaiters(c)
    PROVE  GateInv'
<1>1. Counted \subseteq Waiting /\ Counted \in SUBSET Interactive
  BY DEF Counted, Waiting, Registered
<1>2. lost = 0 /\ ~(waiters.n > 0) => Counted = {}
  <2>. SUFFICES ASSUME lost = 0, ~(waiters.n > 0) PROVE Waiting = {}
    BY <1>1
  <2>1. Cardinality(Waiting) = 0
    BY WaitingIsFinite DEF GateInv, GateShapes, Counter, CounterIsExact
  <2>. QED
    BY <2>1, WaitingIsFinite, FS_EmptySet
<1>3. /\ call' \in [Caller -> Call]
      /\ call'[c].pc \in {"idle", "reserving"}
      /\ \A d \in Caller \ {c} : call'[d] = call[d]
  BY PlacesOfCalls DEF ReadWaiters, Place
<1>4. /\ ahead' \in [Caller -> SUBSET Interactive]
      /\ \A d \in Caller : ahead'[d] \subseteq Waiting
      /\ lost = 0 => \A d \in Caller : ahead'[d] = {}
  BY <1>1, <1>2 DEF ReadWaiters, GateInv, GateShapes, AheadIsWaiting
<1>5. call[c].pc = "reading"
  BY DEF ReadWaiters, At
<1>. QED
  BY <1>3, <1>4, <1>5, SameWaiters DEF ReadWaiters, Registered

\* Time passes.  Where the counter expires, no request waits that has set its
\* expiry; what it loses are the increments of those who have not.
LEMMA Ticks ==
    ASSUME GateInv, GateTick
    PROVE  GateInv'
<1>1. ASSUME NEW c \in Caller
      PROVE  /\ call[c].pc \in Place /\ call[c].waited \in Nat
             /\ call[c].waited + 1 <= Patience
             /\ call[c] = [pc |-> call[c].pc, waited |-> call[c].waited]
  <2>1. call[c] \in [pc : Place, waited : 0 .. Patience]
    BY DEF GateInv, GateShapes, Call
  <2>2. call[c].pc \in Place /\ call[c].waited \in 0 .. Patience
        /\ call[c] = [pc |-> call[c].pc, waited |-> call[c].waited]
    BY <2>1
  <2>3. call[c].waited < Patience
    BY DEF GateTick
  <2>. QED
    BY <2>2, <2>3
<1>2. ASSUME NEW c \in Caller
      PROVE  /\ call'[c] \in Call /\ call'[c].pc = call[c].pc
             /\ At(c, "waiting") /\ c \in Interactive =>
                   call'[c].waited = call[c].waited + 1
  <2>1. CASE c \in Counted
    <3>1. call'[c] = [call[c] EXCEPT !.waited = @ + 1]
      BY <2>1 DEF GateTick
    <3>2. call'[c] = [pc |-> call[c].pc, waited |-> call[c].waited + 1]
      <4>1. PICK pc \in Place, w \in Nat : call[c] = [pc |-> pc, waited |-> w]
        BY <1>1
      <4>. QED
        BY <3>1, <4>1
    <3>3. call[c].waited + 1 \in 0 .. Patience
      <4>1. call[c].waited \in Nat /\ call[c].waited + 1 <= Patience
        BY <1>1
      <4>. QED
        BY <4>1
    <3>4. call[c].pc \in Place
      BY <1>1
    <3>5. call'[c] \in [pc : Place, waited : 0 .. Patience]
      BY <3>2, <3>3, <3>4
    <3>6. call'[c].pc = call[c].pc /\ call'[c].waited = call[c].waited + 1
      BY <3>2
    <3>. QED
      BY <3>5, <3>6 DEF Call
  <2>2. CASE c \notin Counted
    <3>1. call'[c] = call[c]
      BY <2>2 DEF GateTick
    <3>. QED
      BY <2>2, <3>1 DEF Counted, At, GateInv, GateShapes
  <2>. QED
    BY <2>1, <2>2
<1>3. Waiting' = Waiting
  BY <1>2 DEF Waiting
<1>4. /\ waiters' \in Counter
      /\ waiters.ttl # 1 => waiters'.n = waiters.n /\ waiters'.ttl = Passes(waiters.ttl)
      /\ waiters.ttl = 1 => waiters'.n = 0 /\ waiters'.ttl = 0
  <2>0. waiters = [there |-> waiters.there, n |-> waiters.n, ttl |-> waiters.ttl]
        /\ waiters.n \in Int /\ waiters.ttl \in Nat /\ waiters.there \in BOOLEAN
    BY DEF GateInv, GateShapes, Counter
  <2>1. CASE waiters.ttl = 1
    BY <2>1 DEF GateTick, NoCounter, Counter
  <2>2. CASE waiters.ttl # 1
    <3>1. waiters' = [there |-> waiters.there, n |-> waiters.n, ttl |-> Passes(waiters.ttl)]
      BY <2>0, <2>2 DEF GateTick
    <3>2. Passes(waiters.ttl) \in Nat
      BY <2>0 DEF Passes
    <3>. QED
      BY <2>0, <2>2, <3>1, <3>2 DEF Counter
  <2>. QED
    BY <2>1, <2>2
<1>5. waiters.ttl = 1 => {c \in Caller : At(c, "expiring")} = Waiting
  <2>. SUFFICES ASSUME waiters.ttl = 1 PROVE {c \in Caller : At(c, "expiring")} = Waiting
    OBVIOUS
  <2>1. ASSUME NEW c \in Waiting PROVE At(c, "expiring")
    <3>1. c \in Caller /\ call[c].pc \in {"waiting", "expiring"}
      BY DEF Waiting, Registered, GateTick
    <3>2. CASE At(c, "waiting")
      <4>1. 1 + call[c].waited >= CounterTtl
        <5>1. waiters.ttl = 1
          OBVIOUS
        <5>2. waiters.ttl = 0 \/ waiters.ttl + call[c].waited >= CounterTtl
          BY <3>1, <3>2 DEF GateInv, OutlivesWaiters
        <5>. QED
          BY <5>1, <5>2
      <4>2. call[c].waited \in Nat /\ call[c].waited + 1 <= Patience
        BY <1>1, <3>1
      <4>. QED
        BY <4>1, <4>2
    <3>. QED
      BY <3>1, <3>2 DEF At
  <2>2. ASSUME NEW c \in Caller, At(c, "expiring") PROVE c \in Waiting
    BY <2>2 DEF At, Waiting, Registered, GateInv, GateShapes
  <2>3. Waiting \subseteq Caller
    BY DEF Waiting
  <2>. QED
    BY <2>1, <2>2, <2>3
<1>6. /\ waiters.ttl = 1 => lost' = Cardinality(Waiting) /\ abandoned' = 0
      /\ waiters.ttl # 1 => UNCHANGED <<lost, abandoned>>
      /\ ahead' = ahead
      /\ Cardinality(Waiting) \in Nat
  BY <1>5, WaitingIsFinite DEF GateTick
<1>7. GateShapes'
  <2>1. call' \in [Caller -> Call]
    BY <1>2 DEF GateTick
  <2>2. abandoned' \in Nat /\ lost' \in Nat
    BY <1>6 DEF GateInv, GateShapes
  <2>. QED
    BY <1>2, <1>4, <1>6, <2>1, <2>2 DEF GateInv, GateShapes
<1>8. CounterIsExact'
  BY <1>3, <1>4, <1>6 DEF GateInv, CounterIsExact
<1>9. OutlivesWaiters'
  <2>. SUFFICES ASSUME NEW c \in Caller, At(c, "waiting")', waiters'.ttl # 0
               PROVE  waiters'.ttl + call'[c].waited >= CounterTtl
    BY DEF OutlivesWaiters
  <2>1. At(c, "waiting") /\ c \in Interactive
    BY <1>2 DEF At, GateInv, GateShapes, Registered
  <2>2. waiters'.ttl + 1 = waiters.ttl /\ waiters'.ttl \in Nat /\ waiters.ttl \in Nat
    BY <1>4 DEF Passes, GateInv, GateShapes, Counter
  <2>3. waiters.ttl + call[c].waited >= CounterTtl
    BY <2>1, <2>2 DEF GateInv, OutlivesWaiters
  <2>4. call'[c].waited = call[c].waited + 1 /\ call[c].waited \in Nat
    BY <1>1, <1>2, <2>1
  <2>. QED
    BY <2>2, <2>3, <2>4
<1>10. AheadIsWaiting'
  <2>1. \A c \in Caller : ahead'[c] \subseteq Waiting'
    BY <1>3, <1>6 DEF GateInv, AheadIsWaiting
  <2>2. CASE waiters.ttl # 1
    BY <1>6, <2>1, <2>2 DEF GateInv, AheadIsWaiting
  <2>3. CASE waiters.ttl = 1
    <3>1. lost' = 0 => Waiting' = {}
      BY <1>3, <1>6, <2>3, WaitingIsFinite, FS_EmptySet
    <3>. QED
      BY <2>1, <3>1 DEF AheadIsWaiting
  <2>. QED
    BY <2>2, <2>3
<1>. QED
  BY <1>7, <1>8, <1>9, <1>10 DEF GateInv

\* The steps that neither touch the counter nor change who waits for it.
LEMMA Moves ==
    ASSUME GateInv, NEW c \in Caller,
           CheckBlock(c) \/ TakeSlot(c) \/ BackgroundDeferred(c) \/ GiveUp(c)
           \/ RegisterFails(c) \/ WaitFails(c)
    PROVE  GateInv'
<1>1. PICK stage \in Place :
         /\ CallTo(c, stage)
         /\ stage # "waiting"
         /\ stage \in Registered <=> call[c].pc \in Registered
  BY DEF CheckBlock, TakeSlot, BackgroundDeferred, GiveUp, RegisterFails, WaitFails,
         Place, Registered, At
<1>2. ahead' \in [Caller -> SUBSET Interactive] /\ \A d \in Caller : ahead'[d] \subseteq ahead[d]
  BY DEF CheckBlock, TakeSlot, BackgroundDeferred, GiveUp, RegisterFails, WaitFails,
         GateInv, GateShapes
<1>3. /\ \A d \in Caller : ahead'[d] \subseteq Waiting
      /\ lost = 0 => \A d \in Caller : ahead'[d] = {}
  BY <1>2 DEF GateInv, AheadIsWaiting
<1>4. UNCHANGED <<waiters, abandoned, lost>>
  BY DEF CheckBlock, TakeSlot, BackgroundDeferred, GiveUp, RegisterFails, WaitFails
<1>. QED
  BY <1>1, <1>2, <1>3, <1>4, PlacesOfCalls, SameWaiters

\* Every step keeps the invariant.
LEMMA GateStep == GateInv /\ [GateNext]_gateVars => GateInv'
<1>. SUFFICES ASSUME GateInv, [GateNext]_gateVars PROVE GateInv'
  OBVIOUS
<1>1. CASE UNCHANGED gateVars
  BY <1>1 DEF gateVars, GateInv, GateShapes, CounterIsExact, OutlivesWaiters,
              AheadIsWaiting, Waiting, At
<1>2. ASSUME NEW c \in Caller, HostAnswers(c) PROVE GateInv'
  <2>1. NoCall \in Call /\ NoCall.pc = "idle"
    BY DEF NoCall, Call, Place
  <2>2. /\ call' \in [Caller -> Call]
        /\ call'[c].pc = "idle"
        /\ \A d \in Caller \ {c} : call'[d] = call[d]
        /\ call[c].pc \notin Registered
    BY <1>2, <2>1 DEF HostAnswers, GateInv, GateShapes, At, Registered
  <2>. QED
    BY <1>2, <2>2, CallEnds DEF HostAnswers
<1>. QED
  BY <1>1, <1>2, Joins, Leaves, Dies, Expires, Reads, Ticks, Moves DEF GateNext

\* A background request that was let through had nobody ahead of it, unless the
\* counter lacks the increment of a request that waits; and it was held back only
\* for one that waits, or for what a dead process left (HttpClient.reserve).
THEOREM InteractiveGoesFirst == GateSpec => []PriorityKept
<1>1. GateInv => PriorityKept
  <2>. SUFFICES ASSUME GateInv PROVE PriorityKept
    OBVIOUS
  <2>1. lost = 0 => \A c \in Caller \ Interactive : ahead[c] \cap Counted = {}
    BY DEF GateInv, AheadIsWaiting
  <2>2. ASSUME waiters.n > 0, ~(\E c \in Caller : call[c].pc \in Registered)
        PROVE  abandoned > 0
    <3>1. Waiting = {}
      BY <2>2 DEF Waiting
    <3>2. Cardinality(Waiting) = 0
      BY <3>1, FS_EmptySet
    <3>. QED
      BY <2>2, <3>2 DEF GateInv, GateShapes, Counter, CounterIsExact
  <2>. QED
    BY <2>1, <2>2 DEF PriorityKept
<1>. QED
  BY <1>1, GateInitially, GateStep, PTL DEF GateSpec

HIDE GateAssumption

------------------------------------------------------------------------------
(* The redirect map *)

\* Every set of naturals has a least member.
LEMMA LeastMember ==
    ASSUME NEW T \in SUBSET Nat, T # {}
    PROVE  \E x \in T : \A y \in T : x <= y
<1>1. \E x \in T : \A y \in T : ~(<<y, x>> \in OpToRel(<, Nat))
  BY NatLessThanWellFounded, WFMin
<1>2. PICK x \in T : \A y \in T : ~(<<y, x>> \in OpToRel(<, Nat))
  BY <1>1
<1>3. \A y \in T : ~(y < x)
  BY <1>2 DEF OpToRel
<1>. QED
  BY <1>3

USE RedirectsAssumption

\* One redirect further.
NextHop(h, x) == IF h[x] = Here THEN x ELSE h[x].to

LEMMA Following ==
    ASSUME NEW h \in [Url -> Hop], NEW x \in Url
    PROVE  NextHop(h, x) \in Url
BY DEF NextHop, Hop

Walks(h, u, n) == {w \in [0 .. n -> Url] :
                     \A i \in 0 .. n : w[i] = IF i = 0 THEN u ELSE NextHop(h, w[i - 1])}

LEMMA WalksExist ==
    ASSUME NEW h \in [Url -> Hop], NEW u \in Url
    PROVE  \A n \in Nat : Walks(h, u, n) # {}
<1>. DEFINE Bad == {n \in Nat : Walks(h, u, n) = {}}
<1>. SUFFICES ASSUME Bad # {} PROVE FALSE
  OBVIOUS
<1>1. PICK n \in Bad : \A m \in Bad : n <= m
  <2>1. Bad \in SUBSET Nat
    OBVIOUS
  <2>. QED
    BY <2>1, LeastMember
<1>2. n # 0
  <2>1. [i \in 0 .. 0 |-> u] \in Walks(h, u, 0)
    BY DEF Walks
  <2>. QED
    BY <2>1
<1>3. PICK w \in Walks(h, u, n - 1) : TRUE
  BY <1>1, <1>2
<1>. DEFINE longer == [i \in 0 .. n |-> IF i = n THEN NextHop(h, w[n - 1]) ELSE w[i]]
<1>4. w[n - 1] \in Url
  BY <1>2, <1>3 DEF Walks
<1>5. longer \in Walks(h, u, n)
  BY <1>2, <1>3, <1>4, Following DEF Walks
<1>. QED
  BY <1>5

LEMMA ChainUnfolds ==
    ASSUME NEW h \in [Url -> Hop], NEW u \in Url
    PROVE  Chain(h, u) = [n \in 0 .. MaxHops + 1 |->
                            IF n = 0 THEN u ELSE NextHop(h, Chain(h, u)[n - 1])]
<1>1. PICK w \in Walks(h, u, MaxHops + 1) : TRUE
  BY WalksExist
<1>2. w = [n \in 0 .. MaxHops + 1 |-> IF n = 0 THEN u ELSE NextHop(h, w[n - 1])]
  BY <1>1 DEF Walks
<1>3. \E f : f = [n \in 0 .. MaxHops + 1 |-> IF n = 0 THEN u ELSE NextHop(h, f[n - 1])]
  BY <1>2
<1>4. Chain(h, u) = CHOOSE f : f = [n \in 0 .. MaxHops + 1 |->
                                     IF n = 0 THEN u ELSE NextHop(h, f[n - 1])]
  BY DEF Chain, NextHop
<1>. QED
  BY <1>3, <1>4

\* A chain stays among the URLs, and stays where nothing redirects.
LEMMA ChainTyped ==
    ASSUME NEW h \in [Url -> Hop], NEW u \in Url
    PROVE  \A n \in 0 .. MaxHops + 1 : Chain(h, u)[n] \in Url
<1>. DEFINE Bad == {n \in 0 .. MaxHops + 1 : Chain(h, u)[n] \notin Url}
<1>. SUFFICES ASSUME Bad # {} PROVE FALSE
  OBVIOUS
<1>1. PICK n \in Bad : \A m \in Bad : n <= m
  <2>1. Bad \in SUBSET Nat
    OBVIOUS
  <2>. QED
    BY <2>1, LeastMember
<1>2. Chain(h, u)[n] = IF n = 0 THEN u ELSE NextHop(h, Chain(h, u)[n - 1])
  BY ChainUnfolds
<1>3. n # 0 => Chain(h, u)[n - 1] \in Url
  BY <1>1
<1>. QED
  BY <1>2, <1>3, Following

LEMMA ChainStays ==
    ASSUME NEW h \in [Url -> Hop], NEW u \in Url, h[u] = Here
    PROVE  \A n \in 0 .. MaxHops + 1 : Chain(h, u)[n] = u
<1>. DEFINE Bad == {n \in 0 .. MaxHops + 1 : Chain(h, u)[n] # u}
<1>. SUFFICES ASSUME Bad # {} PROVE FALSE
  OBVIOUS
<1>1. PICK n \in Bad : \A m \in Bad : n <= m
  <2>1. Bad \in SUBSET Nat
    OBVIOUS
  <2>. QED
    BY <2>1, LeastMember
<1>2. Chain(h, u)[n] = IF n = 0 THEN u ELSE NextHop(h, Chain(h, u)[n - 1])
  BY ChainUnfolds
<1>3. n # 0 => Chain(h, u)[n - 1] = u
  BY <1>1
<1>. QED
  BY <1>2, <1>3 DEF NextHop

\* Where a chain ends, nothing redirects any further.
LEMMA EndsAreFinal ==
    ASSUME NEW h \in [Url -> Hop], NEW u \in Url
    PROVE  /\ Final(h, u) \in Url
           /\ Ends(h, u) => h[Final(h, u)] = Here
           /\ h[u] = Here => Final(h, u) = u
<1>1. MaxHops \in 0 .. MaxHops + 1
  OBVIOUS
<1>. QED
  BY <1>1, ChainTyped, ChainStays DEF Final, Ends

\* An entry is where a fetch of its URL ends; or was written since the origin's
\* last change, or from one that was.
EntryIsDying(u) ==
    /\ map[u] # NoEntry
    /\ ~(Ends(hops, u) /\ map[u].to = Final(hops, u))
    => \/ map[u].ttl + calm <= Ttl
       \/ hops[map[u].to] = Here /\ map[u].ttl + calm <= 2 * Ttl

FetchState ==
    [pc : {"fetching"}, original : Url, fetched : Url] \cup
    [pc : {"first", "second"}, original : Url, fetched : Url, final : Url, permanent : BOOLEAN,
     seen : [Url -> Hop]]

\* A response that is kept is what its URL answers, unless the origin has just
\* changed.
ResponsesAreTrue == \A u \in Cacheable : Outdated(u) => calm = 0

\* What a fetch has learnt holds unless the origin has changed since; it asks for
\* something else than its URL only while the map may be stale.
FetchIsTrue ==
    /\ fetch # NoFetch =>
          \/ fetch.fetched = fetch.original
          \/ hops[fetch.fetched] = Here
          \/ calm < Ttl
    /\ fetch # NoFetch /\ fetch.pc # "fetching" =>
          \/ calm = 0
          \/ /\ Ends(hops, fetch.fetched) /\ fetch.final = Final(hops, fetch.fetched)
             /\ fetch.fetched # fetch.final

RedirectsInv ==
    /\ hops \in [Url -> Hop]
    /\ map \in [Url -> [to : Url, ttl : 1 .. Ttl] \cup {NoEntry}]
    /\ fetch \in FetchState \cup {NoFetch}
    /\ calm \in 0 .. MaxCalm
    /\ kept \in [Cacheable -> [to : Url, fresh : BOOLEAN] \cup {NoResponse}]
    /\ \A u \in Url : EntryIsDying(u)
    /\ ResponsesAreTrue
    /\ FetchIsTrue

LEMMA RedirectsInitially == RedirectsInit => RedirectsInv
BY DEF RedirectsInit, RedirectsInv, EntryIsDying, FetchIsTrue, MaxCalm, ResponsesAreTrue, Outdated

LEMMA Pcs ==
    /\ \A f \in FetchState : f # NoFetch
    /\ \A f \in FetchState : f.pc \in {"fetching", "first", "second"}
BY DEF FetchState, NoFetch

\* Where a fetch of the map's target can begin.
LEMMA StartingIsTrue ==
    ASSUME RedirectsInv, NEW u \in Url, StartFetch(u)
    PROVE  RedirectsInv'
<1>1. /\ fetch' \in FetchState /\ fetch'.pc = "fetching"
      /\ UNCHANGED <<hops, sources, map, kept, calm>>
  BY DEF StartFetch, RedirectsInv, FetchState
<1>2. fetch'.original = u /\ fetch'.fetched = IF map[u] = NoEntry THEN u ELSE map[u].to
  BY DEF StartFetch
<1>3. map[u] # NoEntry => map[u].to \in Url /\ map[u].ttl \in 1 .. Ttl
  BY DEF RedirectsInv, NoEntry
<1>4. map[u] # NoEntry => hops[map[u].to] = Here \/ calm < Ttl
  BY <1>3, EndsAreFinal DEF RedirectsInv, EntryIsDying
<1>5. FetchIsTrue'
  BY <1>1, <1>2, <1>4 DEF FetchIsTrue
<1>6. \A v \in Url : EntryIsDying(v)'
  BY <1>1 DEF RedirectsInv, EntryIsDying
<1>. QED
  BY <1>1, <1>5, <1>6 DEF RedirectsInv, ResponsesAreTrue, Outdated

\* Where a fetch that has learnt the truth stands.
LEMMA LearningIsTrue ==
    ASSUME RedirectsInv, fetch.pc = "fetching", NEW final \in Url, NEW permanent \in BOOLEAN,
           Learn(final, permanent),
           calm = 0 \/ (Ends(hops, fetch.fetched) /\ final = Final(hops, fetch.fetched)),
           UNCHANGED <<hops, calm>>
    PROVE  fetch' \in FetchState \cup {NoFetch} /\ FetchIsTrue'
<1>1. CASE fetch' = NoFetch
  BY <1>1 DEF FetchIsTrue
<1>2. CASE fetch' # NoFetch
  <2>1. /\ final # fetch.fetched
        /\ fetch' = [pc |-> "first", original |-> fetch.original, fetched |-> fetch.fetched,
                     final |-> final, permanent |-> permanent, seen |-> hops]
    BY <1>2 DEF Learn
  <2>2. fetch.original \in Url /\ fetch.fetched \in Url
    BY DEF RedirectsInv, FetchState, NoFetch
  <2>3. fetch' \in FetchState
    BY <2>1, <2>2 DEF FetchState, RedirectsInv
  <2>4. FetchIsTrue'
    BY <1>2, <2>1 DEF FetchIsTrue, RedirectsInv, NoFetch
  <2>. QED
    BY <2>3, <2>4
<1>. QED
  BY <1>1, <1>2

\* What is kept is what was learnt just now, or what was kept before.
LEMMA KeepingIsTrue ==
    ASSUME RedirectsInv, fetch.pc = "fetching",
           NEW r \in [to : Url, fresh : BOOLEAN] \cup {NoResponse},
           Keep(r), UNCHANGED <<hops, calm>>,
           \/ r = NoResponse \/ calm = 0
           \/ Ends(hops, fetch.fetched) /\ r.to = Final(hops, fetch.fetched)
    PROVE  /\ kept' \in [Cacheable -> [to : Url, fresh : BOOLEAN] \cup {NoResponse}]
           /\ ResponsesAreTrue'
<1>1. \A u \in Cacheable : kept'[u] = IF u = fetch.fetched THEN r ELSE kept[u]
  BY DEF Keep
<1>2. kept' \in [Cacheable -> [to : Url, fresh : BOOLEAN] \cup {NoResponse}]
  BY DEF Keep, RedirectsInv
<1>3. ASSUME NEW u \in Cacheable, Outdated(u)' PROVE calm' = 0
  <2>1. CASE u = fetch.fetched
    BY <1>1, <1>3, <2>1 DEF Outdated
  <2>2. CASE u # fetch.fetched
    BY <1>1, <1>3, <2>2 DEF Outdated, RedirectsInv, ResponsesAreTrue
  <2>. QED
    BY <2>1, <2>2
<1>. QED
  BY <1>2, <1>3 DEF ResponsesAreTrue

\* The response known for the URL is true, if the origin has been calm.
LEMMA KnownIsTrue ==
    ASSUME RedirectsInv, fetch.pc = "fetching", Known # NoResponse
    PROVE  /\ Known \in [to : Url, fresh : BOOLEAN] /\ Known.to \in Url
           /\ \/ calm = 0
              \/ Ends(hops, fetch.fetched) /\ Known.to = Final(hops, fetch.fetched)
<1>1. fetch.fetched \in Cacheable /\ Known = kept[fetch.fetched]
  BY DEF Known
<1>2. Known \in [to : Url, fresh : BOOLEAN]
  BY <1>1 DEF RedirectsInv
<1>. QED
  BY <1>1, <1>2 DEF RedirectsInv, ResponsesAreTrue, Outdated

LEMMA FetchingIsTrue ==
    ASSUME RedirectsInv, Fetched \/ Hit \/ NotModified
    PROVE  RedirectsInv'
<1>0. fetch.pc = "fetching" /\ UNCHANGED <<hops, sources, map, calm>>
  BY DEF Fetched, Hit, NotModified
<1>1. \A v \in Url : EntryIsDying(v)'
  BY <1>0 DEF RedirectsInv, EntryIsDying
<1>2. fetch.fetched \in Url
  BY <1>0 DEF RedirectsInv, FetchState, NoFetch
<1>3. CASE Fetched
  <2>. DEFINE final == Final(hops, fetch.fetched)
  <2>1. PICK r \in [to : {final}, fresh : BOOLEAN] \cup {NoResponse} : Keep(r)
    BY <1>3 DEF Fetched
  <2>2. /\ Ends(hops, fetch.fetched) /\ final \in Url /\ Permanent(hops, fetch.fetched) \in BOOLEAN
        /\ Learn(final, Permanent(hops, fetch.fetched))
    BY <1>2, <1>3, EndsAreFinal DEF Fetched, Permanent, RedirectsInv
  <2>3. /\ r \in [to : Url, fresh : BOOLEAN] \cup {NoResponse}
        /\ r = NoResponse \/ r.to = final
    BY <2>2
  <2>. HIDE DEF final
  <2>4. final = Final(hops, fetch.fetched)
    BY DEF final
  <2>5. fetch' \in FetchState \cup {NoFetch} /\ FetchIsTrue'
    BY <1>0, <2>2, <2>4, LearningIsTrue
  <2>6. /\ kept' \in [Cacheable -> [to : Url, fresh : BOOLEAN] \cup {NoResponse}]
        /\ ResponsesAreTrue'
    BY <1>0, <2>1, <2>2, <2>3, <2>4, KeepingIsTrue
  <2>. QED
    BY <1>0, <1>1, <2>5, <2>6 DEF RedirectsInv
<1>4. CASE Hit
  <2>1. Known # NoResponse /\ Learn(Known.to, FALSE) /\ kept' = kept
    BY <1>4 DEF Hit
  <2>2. fetch' \in FetchState \cup {NoFetch} /\ FetchIsTrue'
    BY <1>0, <2>1, KnownIsTrue, LearningIsTrue
  <2>. QED
    BY <1>0, <1>1, <2>1, <2>2 DEF RedirectsInv, ResponsesAreTrue, Outdated
<1>5. CASE NotModified
  <2>1. Known # NoResponse /\ Learn(Known.to, FALSE)
    BY <1>5 DEF NotModified
  <2>2. PICK r \in [to : {Known.to}, fresh : BOOLEAN] \cup {NoResponse} : Keep(r)
    BY <1>5 DEF NotModified
  <2>3. /\ r \in [to : Url, fresh : BOOLEAN] \cup {NoResponse}
        /\ r = NoResponse \/ r.to = Known.to
    BY <1>0, <2>1, KnownIsTrue
  <2>4. fetch' \in FetchState \cup {NoFetch} /\ FetchIsTrue'
    BY <1>0, <2>1, KnownIsTrue, LearningIsTrue
  <2>5. /\ kept' \in [Cacheable -> [to : Url, fresh : BOOLEAN] \cup {NoResponse}]
        /\ ResponsesAreTrue'
    BY <1>0, <2>1, <2>2, <2>3, KnownIsTrue, KeepingIsTrue
  <2>. QED
    BY <1>0, <1>1, <2>4, <2>5 DEF RedirectsInv
<1>. QED
  BY <1>3, <1>4, <1>5

\* What Remember writes is where the URL ends, or dies in time.
LEMMA RememberingIsTrue ==
    ASSUME RedirectsInv, RememberFetched \/ RememberOriginal
    PROVE  RedirectsInv'
<1>0. fetch \in FetchState /\ fetch.pc \in {"first", "second"} /\ UNCHANGED <<hops, kept, calm>>
  BY DEF RedirectsInv, RememberFetched, RememberOriginal, NoFetch
<1>1. fetch.original \in Url /\ fetch.fetched \in Url /\ fetch.final \in Url
  BY <1>0 DEF FetchState
<1>2. PICK from \in Url : /\ Remember(from)
                          /\ from = fetch.fetched \/ (from = fetch.original /\ fetch.pc = "second")
  BY <1>1 DEF RememberFetched, RememberOriginal
<1>3. fetch' \in FetchState \cup {NoFetch} /\ FetchIsTrue'
  <2>1. CASE fetch' = NoFetch
    BY <2>1 DEF FetchIsTrue
  <2>2. CASE fetch' = [fetch EXCEPT !.pc = "second"]
    <3>1. /\ fetch' \in FetchState
          /\ fetch'.original = fetch.original /\ fetch'.fetched = fetch.fetched
          /\ fetch'.final = fetch.final
      BY <1>0, <2>2 DEF FetchState
    <3>. QED
      BY <1>0, <3>1, Pcs DEF RedirectsInv, FetchIsTrue
  <2>. QED
    BY <2>1, <2>2 DEF RememberFetched, RememberOriginal
<1>. ResponsesAreTrue'
  BY <1>0 DEF RedirectsInv, ResponsesAreTrue, Outdated
<1>4. CASE UNCHANGED map
  BY <1>0, <1>3, <1>4 DEF RedirectsInv, EntryIsDying
<1>5. CASE map' = [map EXCEPT ![from] = [to |-> fetch.final, ttl |-> Ttl]]
  <2>. DEFINE written == [to |-> fetch.final, ttl |-> Ttl]
  <2>1. written.to = fetch.final /\ written.ttl = Ttl /\ written \in [to : Url, ttl : 1 .. Ttl]
    BY <1>1
  <2>2. map' = [map EXCEPT ![from] = written]
    BY <1>5
  <2>. HIDE DEF written
  <2>3. map' \in [Url -> [to : Url, ttl : 1 .. Ttl] \cup {NoEntry}]
    BY <2>1, <2>2 DEF RedirectsInv
  <2>4. \/ Ends(hops, from) /\ fetch.final = Final(hops, from)
        \/ calm = 0
        \/ hops[fetch.final] = Here /\ calm < Ttl
    BY <1>0, <1>1, <1>2, EndsAreFinal, Pcs DEF RedirectsInv, FetchIsTrue
  <2>5. EntryIsDying(from)'
    BY <1>0, <2>1, <2>2, <2>4 DEF EntryIsDying, RedirectsInv, MaxCalm
  <2>6. \A v \in Url \ {from} : EntryIsDying(v)'
    BY <1>0, <2>2 DEF EntryIsDying, RedirectsInv
  <2>. QED
    BY <1>0, <1>3, <2>3, <2>5, <2>6 DEF RedirectsInv
<1>. QED
  BY <1>2, <1>4, <1>5 DEF Remember

LEMMA RedirectTicking ==
    ASSUME RedirectsInv, RedirectTick
    PROVE  RedirectsInv'
<1>1. fetch = NoFetch /\ fetch' = NoFetch /\ hops' = hops /\ kept' = kept
  BY DEF RedirectTick
<1>2. /\ calm' \in 0 .. MaxCalm /\ calm' <= calm + 1
      /\ (\E u \in Cacheable : Outdated(u)) => calm' = 0
  BY DEF RedirectTick, RedirectsInv, MaxCalm
<1>5. ResponsesAreTrue'
  BY <1>1, <1>2 DEF ResponsesAreTrue, Outdated
<1>3. ASSUME NEW u \in Url
      PROVE  /\ map'[u] \in [to : Url, ttl : 1 .. Ttl] \cup {NoEntry}
             /\ EntryIsDying(u)'
  <2>1. CASE map'[u] = NoEntry
    BY <2>1 DEF EntryIsDying
  <2>2. CASE map'[u] # NoEntry
    <3>1. map[u].ttl > 1 /\ map[u] \in [to : Url, ttl : 1 .. Ttl]
      BY <2>2 DEF RedirectTick, RedirectsInv, NoEntry
    <3>2. map'[u] = [map[u] EXCEPT !.ttl = @ - 1]
      BY <3>1 DEF RedirectTick
    <3>3. map'[u] \in [to : Url, ttl : 1 .. Ttl] /\ map'[u].to = map[u].to
          /\ map'[u].ttl = map[u].ttl - 1
      BY <3>1, <3>2
    <3>4. map[u] # NoEntry
      BY <3>1 DEF NoEntry
    <3>. QED
      BY <1>1, <1>2, <3>1, <3>3, <3>4 DEF RedirectsInv, EntryIsDying, MaxCalm
  <2>. QED
    BY <2>1, <2>2
<1>4. map' \in [Url -> [to : Url, ttl : 1 .. Ttl] \cup {NoEntry}]
  BY <1>3 DEF RedirectTick
<1>. QED
  BY <1>1, <1>2, <1>3, <1>4, <1>5 DEF RedirectsInv, FetchIsTrue

LEMMA OthersAreTrue ==
    ASSUME RedirectsInv,
           \/ \E u \in Url : RemoveRedirect(u) \/ OriginChanges(u)
           \/ \E u \in Cacheable : ResponseAges(u)
           \/ FetchFails \/ UNCHANGED redirectVars
    PROVE  RedirectsInv'
<1>1. ASSUME NEW u \in Url, RemoveRedirect(u) PROVE RedirectsInv'
  <2>1. hops' = hops /\ fetch' = fetch /\ kept' = kept /\ calm' = calm
    BY <1>1 DEF RemoveRedirect
  <2>. QED
    BY <1>1, <2>1 DEF RemoveRedirect, RedirectsInv, EntryIsDying, FetchIsTrue, ResponsesAreTrue,
                      Outdated
<1>2. ASSUME NEW u \in Url, OriginChanges(u) PROVE RedirectsInv'
  <2>1. hops' \in [Url -> Hop] /\ calm' = 0 /\ map' = map /\ kept' = kept /\ fetch' = fetch
    BY <1>2 DEF OriginChanges, RedirectsInv
  <2>2. \A v \in Url : map[v] # NoEntry => map[v].ttl \in 1 .. Ttl
    BY DEF RedirectsInv
  <2>. QED
    BY <2>1, <2>2 DEF RedirectsInv, EntryIsDying, FetchIsTrue, MaxCalm, ResponsesAreTrue
<1>3. CASE FetchFails
  BY <1>3 DEF FetchFails, RedirectsInv, EntryIsDying, FetchIsTrue, ResponsesAreTrue, Outdated
<1>4. CASE UNCHANGED redirectVars
  BY <1>4 DEF redirectVars, RedirectsInv, EntryIsDying, FetchIsTrue, ResponsesAreTrue, Outdated
<1>5. ASSUME NEW u \in Cacheable, ResponseAges(u) PROVE RedirectsInv'
  <2>1. hops' = hops /\ map' = map /\ fetch' = fetch /\ calm' = calm
    BY <1>5 DEF ResponseAges
  <2>2. PICK r \in {[kept[u] EXCEPT !.fresh = FALSE], NoResponse} : kept' = [kept EXCEPT ![u] = r]
    BY <1>5 DEF ResponseAges
  <2>3. kept[u] \in [to : Url, fresh : BOOLEAN]
    BY <1>5 DEF ResponseAges, RedirectsInv
  <2>4. r = NoResponse \/ (r \in [to : Url, fresh : BOOLEAN] /\ r.to = kept[u].to)
    BY <2>2, <2>3
  <2>5. kept' \in [Cacheable -> [to : Url, fresh : BOOLEAN] \cup {NoResponse}]
    BY <2>2, <2>4 DEF RedirectsInv
  <2>6. ASSUME NEW v \in Cacheable, Outdated(v)' PROVE Outdated(v)
    <3>1. CASE v = u
      <4>1. kept'[u] = r
        BY <2>2 DEF RedirectsInv
      <4>. QED
        BY <1>5, <2>1, <2>4, <2>6, <3>1, <4>1 DEF Outdated, ResponseAges
    <3>2. CASE v # u
      BY <2>1, <2>2, <2>6, <3>2 DEF Outdated, RedirectsInv
    <3>. QED
      BY <3>1, <3>2
  <2>. QED
    BY <2>1, <2>5, <2>6 DEF RedirectsInv, EntryIsDying, FetchIsTrue, ResponsesAreTrue
<1>. QED
  BY <1>1, <1>2, <1>3, <1>4, <1>5

\* Two lifetimes after the origin's last change, and after the last response from
\* before it that the cache keeps, what the map holds is where a fetch of the URL
\* itself would end (getRedirect, setRedirect, parseUrl, fromCached).
THEOREM RedirectsAreForgotten == RedirectsSpec => []StaleRedirectsExpire
<1>1. RedirectsInv /\ [RedirectsNext]_redirectVars => RedirectsInv'
  BY StartingIsTrue, FetchingIsTrue, RememberingIsTrue, RedirectTicking, OthersAreTrue
  DEF RedirectsNext
<1>2. RedirectsInv => StaleRedirectsExpire
  BY DEF RedirectsInv, EntryIsDying, StaleRedirectsExpire
<1>. QED
  BY <1>1, <1>2, RedirectsInitially, PTL DEF RedirectsSpec
==============================================================================
