----------------------------- MODULE ContextMenus ------------------------------
(***************************************************************************)
(* The extension's menu of the feeds of the page in front.  The content    *)
(* script of each page finds its feeds and tells the worker, half a second *)
(* after the page came to the front, or at once that it was hidden         *)
(* (content-script.ts).  The worker debounces what it is told and rewrites *)
(* the menu, whose operations are asynchronous, so that a list or a loss   *)
(* of visibility may arrive in the middle (background-event.ts).  An       *)
(* operation takes effect in the browser when it is issued, in order; its  *)
(* callback is a later step.                                               *)
(***************************************************************************)
EXTENDS Naturals, Sequences, FiniteSets

CONSTANTS
    Page,       \* open pages
    Address,    \* addresses that a page may come to
    FeedsAt(_), \* the feeds that a scan finds at an address
    Parents,    \* the two items above the list
    NoList,     \* no list
    Lost,       \* the message that a page was hidden
    MaxMail,    \* bound: messages of a page that are under way
    MaxMoves    \* bound: navigations and scans of each page

AnyFeed == UNION {FeedsAt(a) : a \in Address}
FeedList == SUBSET AnyFeed

ASSUME MenuAssumption ==
    /\ NoList # Lost
    /\ \A feeds \in FeedList : feeds # NoList /\ feeds # Lost
    /\ MaxMail \in Nat /\ MaxMoves \in Nat

VARIABLES
    page,       \* each page: its address, the feeds its script knows, its two
                \* timers, and how often it moved
    front,      \* the page in front
    mail,       \* messages of each page to the worker
    listTimer,  \* menuUpdateTimer: the list it will show
    update,     \* isMenuUpdateInProgress: where it is and what it lists
    clearing,   \* clearMenusRequested
    later,      \* pendingFeedsData
    menu,       \* the items in the browser's menu
    heard,      \* what the worker was told last
    broken      \* has an operation of the last update failed?

menuVars == <<page, front, mail, listTimer, update, clearing, later, menu, heard, broken>>

MenuIdle == [pc |-> "idle", feeds |-> {}]
MaybeList == FeedList \cup {NoList}

MenusTypeOK ==
    /\ page \in [Page -> [at : Address, feeds : FeedList, scanDue : BOOLEAN,
                          listDue : BOOLEAN, moves : 0 .. MaxMoves]]
    /\ front \in Page
    /\ \A p \in Page : Len(mail[p]) <= MaxMail
    /\ listTimer \in MaybeList /\ later \in MaybeList
    /\ update.pc \in {"idle", "removing", "parents", "dropping", "children", "ending"}
    /\ update.feeds \in FeedList
    /\ clearing \in BOOLEAN /\ broken \in BOOLEAN
    /\ menu \subseteq AnyFeed \cup {Parents}
    /\ heard \in FeedList \cup {Lost}

MenusInit ==
    /\ \E a \in [Page -> Address] :
          page = [p \in Page |-> [at |-> a[p], feeds |-> {}, scanDue |-> TRUE,
                                  listDue |-> FALSE, moves |-> 0]]
    /\ front \in Page
    /\ mail = [p \in Page |-> <<>>]
    /\ listTimer = NoList /\ later = NoList
    /\ update = MenuIdle
    /\ clearing = FALSE /\ broken = FALSE
    /\ menu = {}
    /\ heard = Lost

------------------------------------------------------------------------------
(* The content script *)

scriptVars == <<page, front, mail>>
workerVars == <<listTimer, update, clearing, later, menu, heard, broken>>

\* updateAvailableSourcesList of a page: the timer is set anew, or, if the page
\* is hidden, cancelled and the loss reported.
SourcesListed(p, record, hidden) ==
    /\ hidden => Len(mail[p]) < MaxMail
    /\ page' = [page EXCEPT ![p] = [record EXCEPT !.listDue = ~hidden]]
    /\ mail' = IF hidden THEN [mail EXCEPT ![p] = Append(@, Lost)] ELSE mail

\* scanPage: at once when the page is loaded, or when its timer rings.
ScanPage(p) ==
    /\ page[p].scanDue
    /\ SourcesListed(p, [page[p] EXCEPT !.scanDue = FALSE, !.feeds = FeedsAt(page[p].at)],
                     p # front)
    /\ UNCHANGED <<front, workerVars>>

\* The page goes to another address: rescanIfHrefChanged, which forgets the feeds
\* and sets the scan timer anew.  That it notices only with the next mutation of
\* the page is abstracted.
Navigate(p) ==
    /\ page[p].moves < MaxMoves
    /\ \E a \in Address \ {page[p].at} :
          SourcesListed(p, [page[p] EXCEPT !.at = a, !.feeds = {}, !.scanDue = TRUE,
                                           !.moves = @ + 1], p # front)
    /\ UNCHANGED <<front, workerVars>>

\* Another page comes to the front: each of the two hears visibilitychange.
Switch(p) ==
    /\ p # front
    /\ page[p].moves < MaxMoves
    /\ Len(mail[front]) < MaxMail
    /\ front' = p
    /\ page' = [page EXCEPT ![p].listDue = TRUE, ![p].moves = @ + 1,
                            ![front].listDue = FALSE]
    /\ mail' = [mail EXCEPT ![front] = Append(@, Lost)]
    /\ UNCHANGED workerVars

\* The visibility timer rings.
SendList(p) ==
    /\ page[p].listDue
    /\ Len(mail[p]) < MaxMail
    /\ page' = [page EXCEPT ![p].listDue = FALSE]
    /\ mail' = [mail EXCEPT ![p] = Append(@, page[p].feeds)]
    /\ UNCHANGED <<front, workerVars>>

------------------------------------------------------------------------------
(* The worker *)

Receive(p) == mail' = [mail EXCEPT ![p] = Tail(@)]

\* messageHandler, list-feeds.
ListFeeds(p) ==
    /\ mail[p] # <<>> /\ Head(mail[p]) # Lost
    /\ Receive(p)
    /\ listTimer' = Head(mail[p])
    /\ heard' = Head(mail[p])
    /\ UNCHANGED <<page, front, update, clearing, later, menu, broken>>

\* Faulty: a list that waits for the end of the update is kept.
VisibilityLostKeepsLater(p) ==
    /\ mail[p] # <<>> /\ Head(mail[p]) = Lost
    /\ Receive(p)
    /\ listTimer' = NoList
    /\ heard' = Lost
    /\ IF update = MenuIdle
       THEN menu' = {} /\ UNCHANGED clearing
       ELSE clearing' = TRUE /\ UNCHANGED menu
    /\ UNCHANGED <<page, front, update, later, broken>>

\* messageHandler, visibility-lost.
VisibilityLost(p) ==
    /\ mail[p] # <<>> /\ Head(mail[p]) = Lost
    /\ Receive(p)
    /\ listTimer' = NoList
    /\ heard' = Lost
    /\ IF update = MenuIdle
       THEN menu' = {} /\ UNCHANGED <<clearing, later>>
       ELSE clearing' = TRUE /\ later' = NoList /\ UNCHANGED menu
    /\ UNCHANGED <<page, front, update, broken>>

\* updateContextMenus: one update at a time; the first command is issued.
StartUpdate(feeds) ==
    /\ update' = [pc |-> "removing", feeds |-> feeds]
    /\ menu' = {}
    /\ broken' = FALSE

\* The debounce timer rings.
MenuTimer ==
    /\ listTimer # NoList
    /\ listTimer' = NoList
    /\ IF update = MenuIdle
       THEN StartUpdate(listTimer) /\ UNCHANGED later
       ELSE later' = listTimer /\ UNCHANGED <<update, menu, broken>>
    /\ UNCHANGED <<scriptVars, clearing, heard>>

\* finally: an update that is to be cleared removes everything first.
Ending == IF clearing THEN update' = [update EXCEPT !.pc = "ending"] /\ menu' = {}
                           /\ UNCHANGED <<later, broken>>
          ELSE IF later = NoList THEN update' = MenuIdle /\ UNCHANGED <<menu, later, broken>>
          ELSE StartUpdate(later) /\ later' = NoList

\* The old items are gone: the parents are created, unless a clear has come.
Removed ==
    /\ update.pc = "removing"
    /\ clearing' = FALSE
    /\ IF ~clearing
       THEN /\ update' = [update EXCEPT !.pc = "parents"]
            /\ menu' = {Parents}
            /\ UNCHANGED <<later, broken>>
       ELSE \/ later = NoList /\ update' = MenuIdle /\ UNCHANGED <<menu, later, broken>>
            \/ later # NoList /\ StartUpdate(later) /\ later' = NoList
    /\ UNCHANGED <<scriptVars, listTimer, heard>>

\* The parents are there: the children are created.
ParentsCreated ==
    /\ update.pc = "parents"
    /\ IF clearing
       THEN update' = [update EXCEPT !.pc = "dropping"] /\ menu' = {}
       ELSE update' = [update EXCEPT !.pc = "children"] /\ menu' = menu \cup update.feeds
    /\ UNCHANGED <<scriptVars, listTimer, clearing, later, heard, broken>>

\* The removal after the parents is done; the flag is reset.
Dropped ==
    /\ update.pc = "dropping"
    /\ clearing' = FALSE
    /\ IF later = NoList THEN update' = MenuIdle /\ UNCHANGED <<menu, later, broken>>
       ELSE StartUpdate(later) /\ later' = NoList
    /\ UNCHANGED <<scriptVars, listTimer, heard>>

ChildrenCreated ==
    /\ update.pc = "children"
    /\ Ending
    /\ UNCHANGED <<scriptVars, listTimer, clearing, heard>>

\* The last removal is done, and what waits is begun.
Ended ==
    /\ update.pc = "ending"
    /\ clearing' = FALSE
    /\ IF later = NoList THEN update' = MenuIdle /\ UNCHANGED <<menu, later, broken>>
       ELSE StartUpdate(later) /\ later' = NoList
    /\ UNCHANGED <<scriptVars, listTimer, heard>>

\* A creation is rejected: the rest is skipped, silently.
CreateFails ==
    /\ update.pc \in {"parents", "children"}
    /\ IF clearing \/ later = NoList
       THEN broken' = TRUE /\ update' = (IF clearing THEN [update EXCEPT !.pc = "ending"]
                                         ELSE MenuIdle)
            /\ UNCHANGED later
            /\ \E left \in SUBSET menu : menu' = IF clearing THEN {} ELSE left
       ELSE StartUpdate(later) /\ later' = NoList
    /\ UNCHANGED <<scriptVars, listTimer, clearing, heard>>

MenusNext ==
    \/ \E p \in Page :
          \/ ScanPage(p) \/ Navigate(p) \/ Switch(p) \/ SendList(p)
          \/ ListFeeds(p) \/ VisibilityLost(p)
    \/ MenuTimer \/ Removed \/ ParentsCreated \/ Dropped \/ ChildrenCreated \/ Ended
    \/ CreateFails

MenusSpec == MenusInit /\ [][MenusNext]_menuVars

------------------------------------------------------------------------------
(* Properties *)

\* However lists and losses of visibility fall into the steps of an update,
\* once the worker is at rest the menu shows what it was told last, all of it
\* and nothing else, unless the browser refused to create an item.
MenusSettle ==
    (update = MenuIdle /\ listTimer = NoList) =>
        /\ later = NoList /\ ~clearing
        /\ ~broken => menu = IF heard = Lost THEN {} ELSE heard \cup {Parents}
==============================================================================
