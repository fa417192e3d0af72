------------------------------- MODULE MailRelay -------------------------------
(***************************************************************************)
(* Newsletters: the email worker hands a message to POST /api/mail and     *)
(* throws unless it is answered with success (cloudflare/email-worker.ts), *)
(* so the sending server tries again; processEmail stores the message as   *)
(* an article of the source that its recipient names (email-handler.ts).   *)
(* A retry may come while the first attempt, given up by the worker, is    *)
(* still at work.  The source may go with its last subscription.           *)
(***************************************************************************)
EXTENDS Naturals, FiniteSets

CONSTANTS
    Message,    \* messages: Message-IDs
    Handler,    \* requests that are being handled
    Spoilt      \* messages that are refused: too large, or no sender

ASSUME MailAssumption ==
    /\ IsFiniteSet(Message)
    /\ Spoilt \subseteq Message

VARIABLES
    known,      \* does the recipient's source exist?
    rows,       \* the source's articles, as a count for each guid
    counted,    \* the articles in the subscriber's unread count
    handler,    \* each request: its message, where it is, and whether the
                \* worker still waits for its answer
    delivered   \* messages that the worker has accepted

mailVars == <<known, rows, counted, handler, delivered>>

NoMail == [pc |-> "idle"]
Handling == [pc : {"parsing", "finding", "storing", "counting", "succeeding", "answering"},
             message : Message, waited : BOOLEAN]

MailTypeOK ==
    /\ known \in BOOLEAN
    /\ rows \in [Message -> Nat]
    /\ counted \subseteq Message
    /\ handler \in [Handler -> Handling \cup {NoMail}]
    /\ delivered \subseteq Message

MailInit ==
    /\ known = TRUE
    /\ rows = [m \in Message |-> 0]
    /\ counted = {}
    /\ handler = [h \in Handler |-> NoMail]
    /\ delivered = {}

MailAt(h, pc) == handler[h].pc = pc
MailTo(h, pc) == handler' = [handler EXCEPT ![h].pc = pc]

\* The worker posts a message it has not been able to deliver yet.
Post(h, m) ==
    /\ handler[h] = NoMail
    /\ m \notin delivered
    /\ \A g \in Handler : handler[g] # NoMail => handler[g].message # m \/ ~handler[g].waited
    /\ handler' = [handler EXCEPT ![h] = [pc |-> "parsing", message |-> m, waited |-> TRUE]]
    /\ UNCHANGED <<known, rows, counted, delivered>>

\* The route and validateParsedMail refuse it (404, 401, 413, 500).
Refuse(h) ==
    /\ MailAt(h, "parsing")
    /\ handler[h].message \in Spoilt
    /\ handler' = [handler EXCEPT ![h] = NoMail]
    /\ UNCHANGED <<known, rows, counted, delivered>>

Parse(h) ==
    /\ MailAt(h, "parsing")
    /\ handler[h].message \notin Spoilt
    /\ MailTo(h, "finding")
    /\ UNCHANGED <<known, rows, counted, delivered>>

\* findSourceByUrl: "No recipients known" is a 500.
FindRecipient(h) ==
    /\ MailAt(h, "finding")
    /\ IF known THEN MailTo(h, "storing") ELSE handler' = [handler EXCEPT ![h] = NoMail]
    /\ UNCHANGED <<known, rows, counted, delivered>>

\* Faulty: the guid is new for every attempt.
StoreMailAgain(h) ==
    /\ MailAt(h, "storing")
    /\ IF known THEN /\ rows' = [rows EXCEPT ![handler[h].message] = @ + 1]
                     /\ MailTo(h, "counting")
       ELSE handler' = [handler EXCEPT ![h] = NoMail] /\ UNCHANGED rows
    /\ UNCHANGED <<known, counted, delivered>>

\* batchUpsertArticles, keyed by emailGuid; the foreign key needs the source.
StoreMail(h) ==
    /\ MailAt(h, "storing")
    /\ IF known THEN /\ rows' = [rows EXCEPT ![handler[h].message] = 1]
                     /\ MailTo(h, "counting")
       ELSE handler' = [handler EXCEPT ![h] = NoMail] /\ UNCHANGED rows
    /\ UNCHANGED <<known, counted, delivered>>

\* recomputeUnreadCounts
CountMail(h) ==
    /\ MailAt(h, "counting")
    /\ counted' = {m \in Message : rows[m] > 0}
    /\ MailTo(h, "succeeding")
    /\ UNCHANGED <<known, rows, delivered>>

\* successSource
MailSucceeds(h) ==
    /\ MailAt(h, "succeeding")
    /\ MailTo(h, "answering")
    /\ UNCHANGED <<known, rows, counted, delivered>>

\* The answer; one that the worker no longer waits for reaches nobody.
AnswerMail(h) ==
    /\ MailAt(h, "answering")
    /\ delivered' = IF handler[h].waited THEN delivered \cup {handler[h].message}
                    ELSE delivered
    /\ handler' = [handler EXCEPT ![h] = NoMail]
    /\ UNCHANGED <<known, rows, counted>>

\* An error, or the server stops: the request is not answered with success.
MailFails(h) ==
    /\ handler[h] # NoMail
    /\ handler' = [handler EXCEPT ![h] = NoMail]
    /\ UNCHANGED <<known, rows, counted, delivered>>

\* The worker gives up a request that goes on.
AbandonMail(h) ==
    /\ handler[h] # NoMail /\ handler[h].waited
    /\ handler' = [handler EXCEPT ![h].waited = FALSE]
    /\ UNCHANGED <<known, rows, counted, delivered>>

\* The source goes with its last subscription, and its articles with it.
LoseSource ==
    /\ known
    /\ known' = FALSE
    /\ rows' = [m \in Message |-> 0]
    /\ counted' = {} /\ delivered' = {}
    /\ UNCHANGED handler

MailNext ==
    \/ \E h \in Handler :
          \/ \E m \in Message : Post(h, m)
          \/ Refuse(h) \/ Parse(h) \/ FindRecipient(h) \/ StoreMail(h) \/ CountMail(h)
          \/ MailSucceeds(h) \/ AnswerMail(h) \/ MailFails(h) \/ AbandonMail(h)
    \/ LoseSource

MailSpec == MailInit /\ [][MailNext]_mailVars

------------------------------------------------------------------------------
(* Properties *)

\* However often a message is posted, it is one article, and once the sending
\* server is told that it was delivered it is stored and counted as unread,
\* while its source lasts.
DeliveredOnce ==
    /\ \A m \in Message : rows[m] <= 1
    /\ known => delivered \subseteq {m \in counted : rows[m] = 1}
==============================================================================
