------------------------------- MODULE Accounts -------------------------------
(***************************************************************************)
(* Accounts and sessions: registration (register.ts) with the first user   *)
(* as administrator (UsersDataService.createUser), activation by mail,     *)
(* login and logout, the last_seen_at that an authenticated request        *)
(* touches, and the expiry of accounts that nobody uses any more           *)
(* (cleanupOrphanedData).  A registration is a request of several          *)
(* statements and calls, any of which may be its last.  A tick is a day;   *)
(* ages stand for timestamps.                                              *)
(***************************************************************************)
EXTENDS Naturals, FiniteSets

CONSTANTS
    Person,             \* e-mail addresses
    Signup,             \* concurrent POST /api/register
    NoPerson,
    RegistrationOpen,   \* ENABLE_REGISTRATION
    MailActivation,     \* are there credentials for the mail service?
    Expiry              \* userExpiryDays

ASSUME AccountsAssumption ==
    /\ NoPerson \notin Person
    /\ RegistrationOpen \in BOOLEAN
    /\ MailActivation \in BOOLEAN
    /\ Expiry \in Nat \ {0, 1}
    /\ IsFiniteSet(Person)

VARIABLES
    users,      \* the table users, by e-mail
    sessions,   \* who has a session
    signup,     \* the registrations in flight
    mailed,     \* addresses an activation mail is on its way to
    used        \* ticks since the account's last authenticated request

accountVars == <<users, sessions, signup, mailed, used>>

Age == 0 .. Expiry + 1
NoUser == [status |-> "none", admin |-> FALSE, seen |-> 0, token |-> FALSE]
User_ == [status : {"none", "inactive", "active"}, admin : BOOLEAN, seen : Age,
          token : BOOLEAN]
NoSignup == [pc |-> "idle", email |-> NoPerson]

AccountsTypeOK ==
    /\ users \in [Person -> User_]
    /\ sessions \subseteq {p \in Person : users[p].status # "none"}
    /\ signup \in [Signup -> [pc : {"idle", "open", "new", "mailed", "insert", "lock"},
                              email : Person \cup {NoPerson}]]
    /\ mailed \subseteq Person
    /\ used \in [Person -> Age]

AccountsInit ==
    /\ users = [p \in Person |-> NoUser]
    /\ sessions = {}
    /\ signup = [s \in Signup |-> NoSignup]
    /\ mailed = {}
    /\ used = [p \in Person |-> 0]

Exists(p) == users[p] # NoUser
SomeoneExists == \E p \in Person : Exists(p)
SignupTo(s, pc) == signup' = [signup EXCEPT ![s].pc = pc]
SignupEnds(s) == signup' = [signup EXCEPT ![s] = NoSignup]

------------------------------------------------------------------------------
(* POST /api/register *)

\* The captcha and getUserCount; the policies on addresses refuse a request
\* without a trace.
SignupAllowed(s, p) ==
    /\ signup[s] = NoSignup
    /\ SomeoneExists => RegistrationOpen
    /\ signup' = [signup EXCEPT ![s] = [pc |-> "open", email |-> p]]
    /\ UNCHANGED <<users, sessions, mailed, used>>

\* findUser: an address that is taken is answered with the same success.
FindExisting(s) ==
    /\ signup[s].pc = "open"
    /\ IF Exists(signup[s].email) THEN SignupEnds(s) ELSE SignupTo(s, "new")
    /\ UNCHANGED <<users, sessions, mailed, used>>

\* The mail goes out before there is a row with its token.
SendActivation(s) ==
    /\ signup[s].pc = "new"
    /\ MailActivation
    /\ mailed' = mailed \cup {signup[s].email}
    /\ SignupTo(s, "mailed")
    /\ UNCHANGED <<users, sessions, used>>

\* createUser begins: is there any user?
SelectUsers(s) ==
    /\ signup[s].pc = IF MailActivation THEN "mailed" ELSE "new"
    /\ SignupTo(s, IF SomeoneExists THEN "insert" ELSE "lock")
    /\ UNCHANGED <<users, sessions, mailed, used>>

NewUser(admin) ==
    [status |-> IF MailActivation THEN "inactive" ELSE "active",
     admin |-> admin, seen |-> 0, token |-> MailActivation]

\* The row, unless the address has been taken meanwhile (a unique column).
InsertUser(s, admin) ==
    LET p == signup[s].email
    IN /\ IF Exists(p)
          THEN UNCHANGED <<users, used>>
          ELSE /\ users' = [users EXCEPT ![p] = NewUser(admin)]
               /\ used' = [used EXCEPT ![p] = 0]
       /\ SignupEnds(s)
       /\ UNCHANGED <<sessions, mailed>>

InsertMember(s) == signup[s].pc = "insert" /\ InsertUser(s, FALSE)

\* Faulty: no second look under the lock.
InsertFirstBlindly(s) == signup[s].pc = "lock" /\ InsertUser(s, TRUE)

\* The transaction with the table lock looks again.
InsertFirst(s) == signup[s].pc = "lock" /\ InsertUser(s, ~SomeoneExists)

\* An error, or a crash, at any point.
SignupFails(s) ==
    /\ signup[s] # NoSignup
    /\ SignupEnds(s)
    /\ UNCHANGED <<users, sessions, mailed, used>>

------------------------------------------------------------------------------
(* Activation, sessions, requests *)

\* POST /api/activate/:token, with the token of a mail.  The token is good for
\* a day, and the account's age is its last_seen_at's until it is active.
Activate(p) ==
    /\ p \in mailed
    /\ users[p].status = "inactive"
    /\ users[p].token
    /\ users[p].seen <= 1
    /\ users' = [users EXCEPT ![p].status = "active", ![p].token = FALSE]
    /\ UNCHANGED <<sessions, signup, mailed, used>>

Login(p) ==
    /\ users[p].status = "active"
    /\ sessions' = sessions \cup {p}
    /\ UNCHANGED <<users, signup, mailed, used>>

Logout(p) ==
    /\ p \in sessions
    /\ sessions' = sessions \ {p}
    /\ UNCHANGED <<users, signup, mailed, used>>

\* Faulty: written every other day.
TouchRarely(p) == IF users[p].seen > 2 THEN 0 ELSE users[p].seen

\* touchLastSeen: the write is throttled to one per day.
Touch(p) == IF users[p].seen > 1 THEN 0 ELSE users[p].seen

\* createAuthPlugin: userFor and touchLastSeen.
AuthedRequest(p) ==
    /\ p \in sessions
    /\ users[p].status = "active"
    /\ users' = [users EXCEPT ![p].seen = Touch(p)]
    /\ used' = [used EXCEPT ![p] = 0]
    /\ UNCHANGED <<sessions, signup, mailed>>

Expired_(p) == Exists(p) /\ users[p].seen > Expiry

\* Faulty: their sessions stay.
ExpireUsersOnly ==
    /\ \E p \in Person : Expired_(p)
    /\ users' = [p \in Person |-> IF Expired_(p) THEN NoUser ELSE users[p]]
    /\ UNCHANGED <<sessions, signup, mailed, used>>

\* cleanupOrphanedData: users unseen for longer than userExpiryDays, with
\* their sessions.
ExpireUsers ==
    /\ \E p \in Person : Expired_(p)
    /\ users' = [p \in Person |-> IF Expired_(p) THEN NoUser ELSE users[p]]
    /\ sessions' = {p \in sessions : ~Expired_(p)}
    /\ UNCHANGED <<signup, mailed, used>>

Older_(n) == IF n > Expiry THEN n ELSE n + 1
DayPasses ==
    /\ users' = [p \in Person |-> IF Exists(p)
                                  THEN [users[p] EXCEPT !.seen = Older_(@)]
                                  ELSE users[p]]
    /\ used' = [p \in Person |-> IF Exists(p) THEN Older_(used[p]) ELSE used[p]]
    /\ UNCHANGED <<sessions, signup, mailed>>

------------------------------------------------------------------------------
AccountsNext ==
    \/ \E s \in Signup :
          \/ \E p \in Person : SignupAllowed(s, p)
          \/ FindExisting(s) \/ SendActivation(s) \/ SelectUsers(s)
          \/ InsertMember(s) \/ InsertFirst(s) \/ SignupFails(s)
    \/ \E p \in Person : Activate(p) \/ Login(p) \/ Logout(p) \/ AuthedRequest(p)
    \/ ExpireUsers \/ DayPasses

AccountsSpec == AccountsInit /\ [][AccountsNext]_accountVars

------------------------------------------------------------------------------
(* Properties *)

\* However registrations overlap with each other and with the expiry of
\* accounts, there is at most one administrator.
OneAdmin == Cardinality({p \in Person : users[p].admin}) <= 1

\* An account is not deleted while its owner uses it: the throttled write
\* costs it a day at most.
ActiveIsKept ==
    \A p \in Person : Expired_(p) => used[p] > Expiry - 1
==============================================================================
