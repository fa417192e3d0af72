----------------------------- MODULE PartsProofs ------------------------------
(***************************************************************************)
(* What the smaller parts do side by side: each behaviour of the composed  *)
(* specification is a behaviour of every part, and every part keeps the    *)
(* types of its variables.                                                 *)
(***************************************************************************)
EXTENDS MCParts, ServerProofs, BrowserProofs, TLAPS

------------------------------------------------------------------------------
(* Accounts *)

\* Sessions are of accounts that exist, and mails go to addresses.
SessionsOK ==
    /\ sessions \subseteq {p \in Person : users[p].status # "none"}
    /\ mailed \subseteq Person

\* No step makes a session or a mail of somebody without an account.
LEMMA SessionsKept ==
    ASSUME AccountsInv, SessionsOK, [AccountsNext]_accountVars
    PROVE  SessionsOK'
<1>. USE AccountsAssumption
<1>0. /\ users \in [Person -> User_]
      /\ \A s \in Signup : signup[s] # NoSignup => signup[s].email \in Person
  BY DEF AccountsInv, AccountShapes
<1>1. CASE UNCHANGED <<users, sessions, mailed>>
  BY <1>1 DEF SessionsOK
<1>2. ASSUME NEW s \in Signup, SendActivation(s) PROVE SessionsOK'
  <2>1. signup[s].pc = "new"
    BY <1>2 DEF SendActivation
  <2>2. signup[s] # NoSignup
    BY <2>1 DEF NoSignup
  <2>. QED
    BY <1>0, <1>2, <2>2 DEF SendActivation, SessionsOK
<1>3. ASSUME NEW s \in Signup, NEW admin \in BOOLEAN, InsertUser(s, admin) PROVE SessionsOK'
  <2>1. NewUser(admin).status # "none" /\ UNCHANGED <<sessions, mailed>>
    BY <1>3 DEF InsertUser, NewUser
  <2>2. ASSUME NEW p \in Person, users[p].status # "none" PROVE users'[p].status # "none"
    BY <1>0, <1>3, <2>1, <2>2 DEF InsertUser
  <2>. QED
    BY <2>1, <2>2 DEF SessionsOK
<1>4. ASSUME NEW p \in Person, Activate(p) \/ Login(p) \/ Logout(p) \/ AuthedRequest(p)
      PROVE  SessionsOK'
  <2>1. CASE Login(p) \/ Logout(p)
    BY <2>1 DEF Login, Logout, SessionsOK
  <2>2. CASE Activate(p)
    <3>1. users' = [users EXCEPT ![p] = [[users[p] EXCEPT !.status = "active"]
                                            EXCEPT !.token = FALSE]]
      BY <1>0, <2>2 DEF Activate
    <3>2. \A q \in Person : users[q].status # "none" => users'[q].status # "none"
      BY <1>0, <3>1 DEF User_
    <3>. QED
      BY <2>2, <3>2 DEF Activate, SessionsOK
  <2>3. CASE AuthedRequest(p)
    <3>1. \A q \in Person : users'[q].status = users[q].status
      BY <1>0, <2>3 DEF AuthedRequest, User_
    <3>. QED
      BY <2>3, <3>1 DEF AuthedRequest, SessionsOK
  <2>. QED
    BY <1>4, <2>1, <2>2, <2>3
<1>5. CASE ExpireUsers
  BY <1>0, <1>5 DEF ExpireUsers, SessionsOK
<1>6. CASE DayPasses
  <2>1. \A q \in Person : users'[q].status = users[q].status
    BY <1>0, <1>6 DEF DayPasses, User_
  <2>. QED
    BY <1>6, <2>1 DEF DayPasses, SessionsOK
<1>7. ASSUME NEW s \in Signup, InsertMember(s) \/ InsertFirst(s) PROVE SessionsOK'
  BY <1>3, <1>7 DEF InsertMember, InsertFirst
<1>8. ASSUME NEW s \in Signup,
             (\E p \in Person : SignupAllowed(s, p)) \/ FindExisting(s) \/ SelectUsers(s)
             \/ SignupFails(s)
      PROVE  UNCHANGED <<users, sessions, mailed>>
  BY <1>8 DEF SignupAllowed, FindExisting, SelectUsers, SignupFails
<1>. QED
  BY <1>1, <1>2, <1>4, <1>5, <1>6, <1>7, <1>8 DEF AccountsNext, accountVars

\* The tables of accounts keep their types.
LEMMA AccountsAreTyped == AccountsSpec => []AccountsTypeOK
<1>1. AccountsInit => SessionsOK
  BY DEF AccountsInit, SessionsOK
<1>2. AccountsInv /\ SessionsOK => AccountsTypeOK
  BY DEF AccountsInv, AccountShapes, SessionsOK, AccountsTypeOK
<1>. QED
  BY <1>1, <1>2, AccountsInitially, AccountsStep, SessionsKept, PTL DEF AccountsSpec

------------------------------------------------------------------------------
(* Mail *)

\* Messages, their attempts and the rows keep their types.
LEMMA MailIsTyped == MailSpec => []MailTypeOK
<1>1. MailInv => MailTypeOK
  BY DEF MailInv, MailShapes, CountedIsStored, MailTypeOK
<1>. QED
  BY <1>1, MailInitially, MailStep, PTL DEF MailSpec

------------------------------------------------------------------------------
(* Folders and imports *)

\* Subscriptions are in folders that exist.
PlacesOK ==
    /\ folders \subseteq Folder
    /\ place \in [Source -> folders \cup {Root, None}]
    /\ queued \subseteq Source
    /\ crashes \in 0 .. MaxCrashes

\* No step leaves a subscription in a folder that is not there.
LEMMA PlacesKept ==
    ASSUME FolderInv, ImportInv, PlacesOK, [FoldersNext]_folderVars
    PROVE  PlacesOK'
<1>. USE FoldersAssumption
<1>1. CASE UNCHANGED <<folders, place, queued, crashes>>
  BY <1>1 DEF PlacesOK
<1>2. ASSUME NEW f \in Folder, CreateFolder(f) PROVE PlacesOK'
  BY <1>2 DEF CreateFolder, importVars, PlacesOK
<1>3. ASSUME NEW f \in Folder, DeleteFolder(f) PROVE PlacesOK'
  BY <1>3 DEF DeleteFolder, importVars, PlacesOK
<1>4. ASSUME NEW f \in Folder, NEW i \in Importer, CommitImport(i, f) PROVE PlacesOK'
  BY <1>4 DEF CommitImport, PlacesOK
<1>5. ASSUME NEW s \in Source, EnterFolder(s) \/ RemoveSource(s) PROVE PlacesOK'
  BY <1>5 DEF EnterFolder, RemoveSource, importVars, PlacesOK
<1>6. ASSUME NEW i \in Importer, EnqueueImported(i) PROVE PlacesOK'
  <2>1. import[i].todo \subseteq Source
    BY DEF ImportInv, ImportState
  <2>. QED
    BY <1>6, <2>1 DEF EnqueueImported, PlacesOK
<1>7. ASSUME NEW i \in Importer, ImportCrashes(i) PROVE PlacesOK'
  BY <1>7 DEF ImportCrashes, PlacesOK
<1>8. ASSUME \/ \E f \in Folder : SelectEmptyFolder(f)
             \/ \E s \in Source, f \in Folder \cup {Root} : CheckFolder(s, f)
             \/ \E i \in Importer, d \in Document : ClaimDocument(i, d)
             \/ UNCHANGED folderVars
      PROVE  UNCHANGED <<folders, place, queued, crashes>>
  BY <1>8 DEF SelectEmptyFolder, CheckFolder, ClaimDocument, folderVars, importVars
<1>. QED
  BY <1>1, <1>2, <1>3, <1>4, <1>5, <1>6, <1>7, <1>8 DEF FoldersNext

\* Folders, subscriptions and imports keep their types.
LEMMA FoldersAreTyped == FoldersSpec => []FoldersTypeOK
<1>1. FoldersInit => PlacesOK
  BY FoldersAssumption DEF FoldersInit, PlacesOK
<1>2. FolderInv /\ ImportInv /\ PlacesOK => FoldersTypeOK
  BY DEF FolderInv, ImportInv, PlacesOK, FoldersTypeOK
<1>. QED
  BY <1>1, <1>2, FoldersInitially, FolderStep, ImportsInitially, ImportStep, PlacesKept,
     FoldersAssumption, PTL DEF FoldersSpec

------------------------------------------------------------------------------
(* The redirect map *)

\* The origin answers what it may, and a source moves to a URL.
AnswersOK ==
    /\ \A u \in Url : hops[u] \in HopsOf(u)
    /\ sources \subseteq Url

\* The origin's answers stay among those the redirects allow, and sources are URLs.
LEMMA AnswersKept ==
    ASSUME RedirectsInv, AnswersOK, [RedirectsNext]_redirectVars
    PROVE  AnswersOK'
<1>. USE RedirectsAssumption
<1>1. CASE UNCHANGED <<hops, sources>>
  BY <1>1 DEF AnswersOK
<1>2. ASSUME NEW u \in Url, OriginChanges(u) PROVE AnswersOK'
  BY <1>2 DEF OriginChanges, AnswersOK, RedirectsInv
<1>3. ASSUME fetch.pc \in {"first", "second"}, fetch # NoFetch, NEW from \in Url,
             Remember(from), hops' = hops
      PROVE  AnswersOK'
  <2>1. fetch.final \in Url
    BY <1>3 DEF RedirectsInv, FetchState
  <2>. QED
    BY <1>3, <2>1 DEF Remember, AnswersOK
<1>4. fetch.pc \in {"first", "second"} =>
         fetch # NoFetch /\ fetch.fetched \in Url /\ fetch.original \in Url
  BY DEF RedirectsInv, FetchState, NoFetch
<1>5. CASE RememberFetched
  BY <1>3, <1>4, <1>5 DEF RememberFetched
<1>6. CASE RememberOriginal
  BY <1>3, <1>4, <1>6 DEF RememberOriginal
<1>7. ASSUME (\E u \in Url : StartFetch(u) \/ RemoveRedirect(u)) \/ Fetched \/ Hit \/ NotModified
             \/ (\E u \in Cacheable : ResponseAges(u)) \/ FetchFails \/ RedirectTick
             \/ UNCHANGED redirectVars
      PROVE  UNCHANGED <<hops, sources>>
  BY <1>7 DEF StartFetch, RemoveRedirect, Fetched, Hit, NotModified, ResponseAges, FetchFails,
              RedirectTick, redirectVars
<1>. QED
  BY <1>1, <1>2, <1>5, <1>6, <1>7 DEF RedirectsNext

\* The redirect map and its fetch keep their types.
LEMMA RedirectsAreTyped == RedirectsSpec => []RedirectsTypeOK
<1>1. RedirectsInit => AnswersOK
  BY RedirectsAssumption DEF RedirectsInit, AnswersOK
<1>2. RedirectsInv /\ AnswersOK => RedirectsTypeOK
  BY Pcs DEF RedirectsInv, AnswersOK, RedirectsTypeOK
<1>3. RedirectsInv /\ [RedirectsNext]_redirectVars => RedirectsInv'
  BY RedirectsAssumption, StartingIsTrue, FetchingIsTrue, RememberingIsTrue,
     RedirectTicking, OthersAreTrue
  DEF RedirectsNext
<1>. QED
  BY <1>1, <1>2, <1>3, RedirectsInitially, AnswersKept, RedirectsAssumption, PTL
  DEF RedirectsSpec

------------------------------------------------------------------------------
(* The form that finds and previews feeds *)

\* Requests, submissions and previews stay within their bounds; only the closing of
\* the form passes the last number.
NumbersOK ==
    /\ loading \in BOOLEAN /\ editing \in BOOLEAN /\ open \in BOOLEAN
    /\ latest <= MaxRequests + 1 /\ (open => latest <= MaxRequests)
    /\ \A r \in requests : r.n \in 1 .. MaxRequests
    /\ submits \subseteq Submit
    /\ cache \in [Feed -> 0 .. CacheTtl]

\* The form opens with numbers within the bounds.
LEMMA NumbersInitially == DiscoveryInit => NumbersOK
<1>. SUFFICES ASSUME DiscoveryInit PROVE NumbersOK
  OBVIOUS
<1>. USE DiscoveryAssumption
<1>1. PICK f \in MaybeFeed :
         /\ editing \in (IF f = NoFeed THEN {FALSE} ELSE BOOLEAN)
         /\ loading = (f # NoFeed /\ ~editing)
         /\ \/ latest = 1
               /\ requests = {[n |-> 1, kind |-> "preview", feed |-> f, state |-> "asked"]}
            \/ latest = 0 /\ requests = {}
  BY Zenon DEF DiscoveryInit
<1>2. \A r \in requests : r.n = 1
  BY <1>1
<1>3. open = TRUE /\ submits = {} /\ cache \in [Feed -> 0 .. CacheTtl]
  BY DEF DiscoveryInit
<1>4. editing \in BOOLEAN /\ loading \in BOOLEAN /\ latest \in {0, 1}
  BY <1>1
<1>. QED
  BY <1>2, <1>3, <1>4 DEF NumbersOK

\* A submission that is answered, or a new one, is one.
LEMMA SubmissionsKept ==
    ASSUME NumbersOK, NEW n \in 1 .. MaxSubmits, NEW f \in MaybeFeed, NEW seeded \in BOOLEAN,
           NEW state \in {"asked", "answered", "failed"}
    PROVE  submits \cup {[n |-> n, feed |-> f, seeded |-> seeded, state |-> state]}
              \subseteq Submit
BY DEF NumbersOK, Submit

\* No step of the form passes the bounds of its numbers, but for closing it.
LEMMA NumbersKept ==
    ASSUME DiscoveryInv, NumbersOK, [DiscoveryNext]_discoveryVars
    PROVE  NumbersOK'
<1>. USE DiscoveryAssumption
<1>0. latest \in Nat /\ form.feed \in MaybeFeed
      /\ \A r \in requests : r.n \in Nat /\ r.feed \in MaybeFeed
  BY DEF DiscoveryInv
<1>1. CASE UNCHANGED <<loading, latest, requests, submits, cache, editing, open>>
  BY <1>1 DEF NumbersOK
<1>2. ASSUME NEW kind, NEW f, AskLatest(kind, f), UNCHANGED <<submits, cache, editing, open>>
      PROVE  NumbersOK'
  <2>1. /\ latest' = latest + 1 /\ latest < MaxRequests /\ loading' = TRUE
        /\ requests' = requests \cup {[n |-> latest + 1, kind |-> kind, feed |-> f,
                                       state |-> "asked"]}
    BY <1>2 DEF AskLatest
  <2>2. \A r \in requests' : r \in requests \/ r.n = latest + 1
    BY <2>1
  <2>. QED
    BY <1>0, <1>2, <2>1, <2>2 DEF NumbersOK
<1>3. CASE FindFeeds \/ \E f \in MaybeFeed : Preview(f)
  BY <1>2, <1>3 DEF FindFeeds, Preview
<1>4. CASE SubmitForm
  <2>1. PICK n \in 1 .. MaxSubmits :
           submits' = submits \cup {[n |-> n, feed |-> form.feed, seeded |-> FALSE,
                                     state |-> "asked"]}
    BY <1>4 DEF SubmitForm
  <2>2. submits' \subseteq Submit
    BY <1>0, <2>1, SubmissionsKept
  <2>. QED
    BY <1>4, <2>2 DEF SubmitForm, NumbersOK
<1>5. CASE CloseForm
  <2>1. latest <= MaxRequests /\ latest' = latest + 1 /\ open' = FALSE
    BY <1>5 DEF CloseForm, NumbersOK
  <2>2. latest' <= MaxRequests + 1
    BY <1>0, <2>1
  <2>3. UNCHANGED <<loading, requests, submits, cache, editing>>
    BY <1>5 DEF CloseForm
  <2>. QED
    BY <2>1, <2>2, <2>3 DEF NumbersOK
<1>6. ASSUME NEW r \in requests, FoundArrives(r) \/ PreviewArrives(r) PROVE NumbersOK'
  <2>1. Finished(r)
    BY <1>6 DEF FoundArrives, PreviewArrives
  <2>2. loading' \in BOOLEAN /\ requests' \subseteq requests
        /\ UNCHANGED <<latest, submits, cache, editing, open>>
    BY <2>1 DEF Finished, NumbersOK
  <2>. QED
    BY <2>2 DEF NumbersOK
<1>7. ASSUME NEW r \in requests, ServeFind(r) \/ ServePreview(r) PROVE NumbersOK'
  <2>1. PICK state : ServedAs(r, state)
    BY <1>7 DEF ServeFind, ServePreview
  <2>2. ASSUME NEW q \in requests' PROVE q.n \in 1 .. MaxRequests
    <3>1. r = [n |-> r.n, kind |-> r.kind, feed |-> r.feed, state |-> r.state]
      BY DEF DiscoveryInv
    <3>2. [r EXCEPT !.state = state].n = r.n
      BY <3>1
    <3>3. q \in requests \/ q = [r EXCEPT !.state = state]
      BY <2>1, <2>2 DEF ServedAs
    <3>. QED
      BY <3>2, <3>3 DEF NumbersOK
  <2>3. cache' \in [Feed -> 0 .. CacheTtl]
    BY <1>7 DEF ServeFind, ServePreview, NumbersOK
  <2>4. UNCHANGED <<loading, latest, editing, open, submits>>
    BY <1>7 DEF ServeFind, ServePreview, ClientAlone
  <2>. QED
    BY <2>2, <2>3, <2>4 DEF NumbersOK
<1>8. ASSUME NEW s \in submits, SubmitArrives(s) PROVE NumbersOK'
  <2>1. /\ loading' = FALSE /\ submits' \subseteq submits
        /\ UNCHANGED <<requests, cache, editing>>
    BY <1>8 DEF SubmitArrives
  <2>2. /\ open' \in BOOLEAN /\ (open' => open)
        /\ latest' = IF open /\ ~open' THEN latest + 1 ELSE latest
    BY <1>8 DEF SubmitArrives, NumbersOK
  <2>3. latest' <= MaxRequests + 1 /\ (open' => latest' <= MaxRequests)
    BY <1>0, <2>2 DEF NumbersOK
  <2>4. \A r \in requests' : r.n \in 1 .. MaxRequests
    BY <2>1 DEF NumbersOK
  <2>5. submits' \subseteq Submit
    BY <2>1 DEF NumbersOK
  <2>. QED
    BY <2>1, <2>2, <2>3, <2>4, <2>5 DEF NumbersOK
<1>9. ASSUME NEW s \in submits, ServeSubmit(s) PROVE NumbersOK'
  <2>1. PICK state \in {"answered", "failed"}, seeded \in BOOLEAN :
           submits' = (submits \ {s}) \cup {[s EXCEPT !.state = state, !.seeded = seeded]}
    BY <1>9 DEF ServeSubmit
  <2>2. PICK n \in 1 .. MaxSubmits, f \in MaybeFeed, old \in BOOLEAN,
             was \in {"asked", "answered", "failed"} :
           s = [n |-> n, feed |-> f, seeded |-> old, state |-> was]
    BY DEF NumbersOK, Submit
  <2>3. [s EXCEPT !.state = state, !.seeded = seeded]
           = [n |-> n, feed |-> f, seeded |-> seeded, state |-> state]
    <3>1. [[n |-> n, feed |-> f, seeded |-> old, state |-> was] EXCEPT !.state = state]
             = [n |-> n, feed |-> f, seeded |-> old, state |-> state]
      OBVIOUS
    <3>2. [[n |-> n, feed |-> f, seeded |-> old, state |-> state] EXCEPT !.seeded = seeded]
             = [n |-> n, feed |-> f, seeded |-> seeded, state |-> state]
      OBVIOUS
    <3>. QED
      BY <2>2, <3>1, <3>2, Zenon
  <2>4. submits' \subseteq Submit
    BY <2>1, <2>3, SubmissionsKept
  <2>. QED
    BY <1>9, <2>4 DEF ServeSubmit, ClientAlone, NumbersOK
<1>10. CASE CacheTick
  BY <1>10 DEF CacheTick, ClientAlone, NumbersOK
<1>11. CASE Type \/ FoldersLoad \/ UNCHANGED discoveryVars
  BY <1>1, <1>11 DEF Type, FoldersLoad, FormAlone, discoveryVars
<1>. QED
  BY <1>3, <1>4, <1>5, <1>6, <1>7, <1>8, <1>9, <1>10, <1>11 DEF DiscoveryNext

\* The form and its requests keep their types.
LEMMA DiscoveryIsTyped == DiscoverySpec => []DiscoveryTypeOK
<1>. USE DiscoveryAssumption
<1>1. DiscoveryInv /\ NumbersOK => DiscoveryTypeOK
  <2>. SUFFICES ASSUME DiscoveryInv, NumbersOK PROVE DiscoveryTypeOK
    OBVIOUS
  <2>1. requests \subseteq Request
    BY DEF DiscoveryInv, NumbersOK, Request
  <2>2. latest \in 0 .. MaxRequests + 1
    BY DEF DiscoveryInv, NumbersOK
  <2>. QED
    BY <2>1, <2>2 DEF DiscoveryInv, NumbersOK, DiscoveryTypeOK
<1>. QED
  BY <1>1, DiscoveryInitially, DiscoveryStep, NumbersInitially, NumbersKept, PTL
  DEF DiscoverySpec

------------------------------------------------------------------------------
(* The extension's menu *)

\* Messages and navigations stay within their bounds, and lists are lists.
ListsOK ==
    /\ \A p \in Page : page[p].moves <= MaxMoves /\ Len(mail[p]) <= MaxMail
    /\ listTimer \in MaybeList /\ later \in MaybeList
    /\ update.feeds \in FeedList
    /\ menu \subseteq AnyFeed \cup {Parents}
    /\ heard \in FeedList \cup {Lost}

\* At first no page has moved or said anything, and there is no list.
LEMMA ListsInitially == MenusInit => ListsOK
<1>. SUFFICES ASSUME MenusInit PROVE ListsOK
  OBVIOUS
<1>. USE MenuAssumption
<1>1. \A p \in Page : page[p].moves = 0 /\ Len(mail[p]) = 0
  BY DEF MenusInit
<1>2. {} \in FeedList /\ MenuIdle.feeds = {}
  BY DEF FeedList, MenuIdle
<1>. QED
  BY <1>1, <1>2 DEF MenusInit, ListsOK, MaybeList

\* The pages: each message fits.
LEMMA MailFits ==
    ASSUME ScriptInv, ListsOK, NEW p \in Page, NEW message \in FeedList \cup {Lost},
           Len(mail[p]) < MaxMail, mail' = [mail EXCEPT ![p] = Append(@, message)]
    PROVE  \A q \in Page : Len(mail'[q]) <= MaxMail
<1>1. Len(Append(mail[p], message)) = Len(mail[p]) + 1 /\ Len(mail[p]) \in Nat
  BY AppendProperties, LenProperties DEF ScriptInv
<1>2. \A q \in Page : mail'[q] = IF q = p THEN Append(mail[p], message) ELSE mail[q]
  BY DEF ScriptInv
<1>. QED
  BY <1>1, <1>2, MenuAssumption DEF ListsOK

\* What a page does keeps its moves, its mail and every list within the bounds.
LEMMA PagesKept ==
    ASSUME ScriptInv, ListsOK, NEW p \in Page,
           ScanPage(p) \/ Navigate(p) \/ Switch(p) \/ SendList(p)
    PROVE  ListsOK'
<1>. USE MenuAssumption
<1>0. /\ page \in [Page -> PageState] /\ front \in Page
      /\ \A q \in Page : page[q].moves \in Nat /\ page[q].feeds \in FeedList
  BY DEF ScriptInv, PageState
<1>1. UNCHANGED workerVars
  BY Scripts
<1>2. \A q \in Page : Len(mail'[q]) <= MaxMail
  <2>1. ASSUME NEW record, NEW hidden, SourcesListed(p, record, hidden)
        PROVE  \A q \in Page : Len(mail'[q]) <= MaxMail
    <3>1. CASE hidden
      BY <2>1, <3>1, MailFits DEF SourcesListed
    <3>2. CASE ~hidden
      BY <2>1, <3>2 DEF SourcesListed, ListsOK
    <3>. QED
      BY <3>1, <3>2
  <2>2. CASE ScanPage(p) \/ Navigate(p)
    BY <2>1, <2>2 DEF ScanPage, Navigate
  <2>3. CASE Switch(p)
    BY <1>0, <2>3, MailFits DEF Switch
  <2>4. CASE SendList(p)
    BY <1>0, <2>4, MailFits DEF SendList
  <2>. QED
    BY <2>2, <2>3, <2>4
<1>3. \A q \in Page : page'[q].moves <= MaxMoves
  <2>0. page[p] = [at |-> page[p].at, feeds |-> page[p].feeds, scanDue |-> page[p].scanDue,
                   listDue |-> page[p].listDue, moves |-> page[p].moves]
    BY <1>0 DEF PageState
  <2>1. CASE ScanPage(p)
    <3>. DEFINE record == [page[p] EXCEPT !.scanDue = FALSE, !.feeds = FeedsAt(page[p].at)]
    <3>1. [record EXCEPT !.listDue = ~(p # front)].moves = page[p].moves
      BY <2>0
    <3>2. page' = [page EXCEPT ![p] = [record EXCEPT !.listDue = ~(p # front)]]
      BY <2>1 DEF ScanPage, SourcesListed
    <3>. QED
      BY <1>0, <3>1, <3>2 DEF ListsOK
  <2>2. CASE Navigate(p)
    <3>1. PICK a \in Address :
             SourcesListed(p, [page[p] EXCEPT !.at = a, !.feeds = {}, !.scanDue = TRUE,
                                              !.moves = @ + 1], p # front)
      BY <2>2 DEF Navigate
    <3>. DEFINE record == [page[p] EXCEPT !.at = a, !.feeds = {}, !.scanDue = TRUE,
                                          !.moves = @ + 1]
    <3>2. [record EXCEPT !.listDue = ~(p # front)].moves = page[p].moves + 1
      BY <2>0
    <3>3. page' = [page EXCEPT ![p] = [record EXCEPT !.listDue = ~(p # front)]]
      BY <3>1 DEF SourcesListed
    <3>4. page[p].moves < MaxMoves
      BY <2>2 DEF Navigate
    <3>. QED
      BY <1>0, <3>2, <3>3, <3>4 DEF ListsOK
  <2>3. CASE Switch(p)
    <3>1. \A q \in Page : page'[q].moves = IF q = p THEN page[p].moves + 1 ELSE page[q].moves
      BY <1>0, <2>3 DEF Switch, PageState
    <3>. QED
      BY <1>0, <2>3, <3>1 DEF Switch, ListsOK
  <2>4. CASE SendList(p)
    <3>1. \A q \in Page : page'[q].moves = page[q].moves
      BY <1>0, <2>4 DEF SendList, PageState
    <3>. QED
      BY <3>1 DEF ListsOK
  <2>. QED
    BY <2>1, <2>2, <2>3, <2>4
<1>. QED
  BY <1>1, <1>2, <1>3 DEF workerVars, ListsOK

\* What the worker hears, keeps for its timer or puts off is a list or a loss of visibility.
LEMMA WorkerKept ==
    ASSUME MenuInv, ListsOK, NEW p \in Page, ListFeeds(p) \/ VisibilityLost(p)
    PROVE  ListsOK'
<1>. USE MenuAssumption
<1>1. /\ mail[p] # <<>> /\ Receive(p) /\ UNCHANGED <<page, update>>
      /\ heard' = Head(mail[p])
      /\ \/ listTimer' = Head(mail[p]) /\ Head(mail[p]) # Lost
         \/ listTimer' = NoList
      /\ later' \in {later, NoList}
      /\ menu' \in {menu, {}}
  BY DEF ListFeeds, VisibilityLost
<1>2. Head(mail[p]) \in FeedList \cup {Lost}
  BY <1>1, MailTaken DEF MenuInv
<1>3. \A q \in Page : Len(mail'[q]) <= Len(mail[q]) /\ Len(mail'[q]) \in Nat
                      /\ Len(mail[q]) \in Nat
  <2>1. Len(Tail(mail[p])) = Len(mail[p]) - 1 /\ Len(mail[p]) \in Nat /\ mail[p] # <<>>
        /\ Tail(mail[p]) \in Seq(FeedList \cup {Lost})
    BY <1>1, HeadTailProperties, LenProperties DEF MenuInv, ScriptInv
  <2>2. \A q \in Page : mail'[q] = IF q = p THEN Tail(mail[p]) ELSE mail[q]
    BY <1>1 DEF Receive, MenuInv, ScriptInv
  <2>3. \A q \in Page : Len(mail[q]) \in Nat
    BY LenProperties DEF MenuInv, ScriptInv
  <2>4. Len(Tail(mail[p])) \in Nat
    BY <2>1, LenProperties
  <2>5. ASSUME NEW q \in Page
        PROVE  Len(mail'[q]) \in Nat /\ Len(mail[q]) \in Nat /\ Len(mail'[q]) <= Len(mail[q])
    <3>1. CASE q = p
      <4>1. mail'[q] = Tail(mail[p])
        BY <2>2, <3>1
      <4>. QED
        BY <2>1, <2>4, <3>1, <4>1
    <3>2. CASE q # p
      <4>1. mail'[q] = mail[q]
        BY <2>2, <3>2
      <4>. QED
        BY <2>3, <4>1
    <3>. QED
      BY <3>1, <3>2
  <2>. QED
    BY <2>5
<1>4. \A q \in Page : Len(mail'[q]) <= MaxMail
  BY <1>3 DEF ListsOK
<1>. QED
  BY <1>1, <1>2, <1>4 DEF ListsOK, MaybeList

\* The steps of an update.
LEMMA UpdateKept ==
    ASSUME MenuInv, ListsOK,
           \/ MenuTimer \/ Removed \/ ParentsCreated \/ Dropped \/ ChildrenCreated \/ Ended
           \/ CreateFails
    PROVE  ListsOK'
<1>. USE MenuAssumption
<1>0. /\ update = [pc |-> update.pc, feeds |-> update.feeds]
      /\ update.feeds \subseteq AnyFeed
      /\ MenuIdle.feeds = {} /\ {} \in FeedList
      /\ listTimer # NoList => listTimer \in FeedList
      /\ later # NoList => later \in FeedList
      /\ NoList \in MaybeList
  BY DEF MenuInv, WorkerInv, ListsOK, MenuIdle, FeedList, MaybeList
<1>1. UNCHANGED <<page, mail, heard>> /\ listTimer' \in {listTimer, NoList}
  BY DEF MenuTimer, Removed, ParentsCreated, Dropped, ChildrenCreated, Ended, CreateFails,
         scriptVars
<1>2. ASSUME NEW feeds \in FeedList, StartUpdate(feeds)
      PROVE  update'.feeds \in FeedList /\ menu' = {}
  BY <1>2 DEF StartUpdate
<1>3. ASSUME NEW pc, update' = [update EXCEPT !.pc = pc] PROVE update'.feeds = update.feeds
  BY <1>0, <1>3
<1>4. /\ update'.feeds \in FeedList
      /\ menu' \subseteq menu \cup update.feeds \cup {Parents}
      /\ later' \in {later, NoList, listTimer}
  <2>0. /\ update' = MenuIdle => update'.feeds \in FeedList
        /\ update' = update => update'.feeds \in FeedList
        /\ \A pc : update' = [update EXCEPT !.pc = pc] => update'.feeds \in FeedList
    BY <1>0, <1>3 DEF ListsOK
  <2>1. CASE MenuTimer
    BY <1>0, <1>2, <2>0, <2>1 DEF MenuTimer
  <2>2. CASE Removed
    BY <1>0, <1>2, <2>0, <2>2 DEF Removed
  <2>3. CASE ParentsCreated
    BY <2>0, <2>3 DEF ParentsCreated
  <2>4. CASE Dropped \/ Ended
    BY <1>0, <1>2, <2>0, <2>4 DEF Dropped, Ended
  <2>5. CASE ChildrenCreated
    BY <1>0, <1>2, <2>0, <2>5 DEF ChildrenCreated, Ending
  <2>6. CASE CreateFails
    BY <1>0, <1>2, <2>0, <2>6 DEF CreateFails
  <2>. QED
    BY <2>1, <2>2, <2>3, <2>4, <2>5, <2>6
<1>. QED
  BY <1>0, <1>1, <1>4 DEF ListsOK

\* Pages, messages and the menu keep their types.
LEMMA MenusAreTyped == MenusSpec => []MenusTypeOK
<1>. USE MenuAssumption
<1>1. MenuInv /\ ListsOK => MenusTypeOK
  <2>. SUFFICES ASSUME MenuInv, ListsOK PROVE MenusTypeOK
    OBVIOUS
  <2>1. page \in [Page -> [at : Address, feeds : FeedList, scanDue : BOOLEAN,
                           listDue : BOOLEAN, moves : 0 .. MaxMoves]]
    BY DEF MenuInv, ScriptInv, PageState, ListsOK
  <2>. QED
    BY <2>1 DEF MenuInv, ScriptInv, WorkerInv, ListsOK, MenusTypeOK
<1>2. MenuInv /\ ListsOK /\ [MenusNext]_menuVars => ListsOK'
  <2>1. UNCHANGED menuVars /\ ListsOK => ListsOK'
    BY DEF menuVars, ListsOK
  <2>. QED
    BY <2>1, PagesKept, WorkerKept, UpdateKept DEF MenusNext, MenuInv
<1>. QED
  BY <1>1, <1>2, MenusInitially, MenusStep, ListsInitially, PTL DEF MenusSpec

------------------------------------------------------------------------------
(* Reader mode *)

\* A request stays within the page's timer and the limits of its fetch.
WithinLimits(a) ==
    a.age <= PageTimeout /\ a.redirects <= MaxRedirects /\ a.chunks <= MaxChunks

LimitsOK ==
    /\ installed \in BOOLEAN /\ disposed \in BOOLEAN
    /\ instance \in {"none", "this", "other"}
    /\ \A r \in Reading : WithinLimits(ask[r])

\* A request that has not been made has used none of its limits.
LEMMA LimitsAtHome == WithinLimits(NotAsked)
BY BridgeAssumption DEF WithinLimits, NotAsked

\* A step of one request, within its limits, leaves the others within theirs.
LEMMA OneAskKept ==
    ASSUME LimitsOK, NEW r \in Reading, UNCHANGED <<installed, instance>>,
           disposed' \in BOOLEAN, \A q \in Reading \ {r} : ask'[q] = ask[q],
           WithinLimits(ask'[r])
    PROVE  LimitsOK'
BY DEF LimitsOK, WithinLimits

\* A request that goes on or is answered.
LEMMA AnswersWithin ==
    ASSUME BridgeInv, LimitsOK, NEW r \in Reading, Elsewhere,
           \/ \E answer : AnswerWith(r, answer)
           \/ \E pc : ask' = [ask EXCEPT ![r].pc = pc]
           \/ ask[r].redirects < MaxRedirects /\ ask' = [ask EXCEPT ![r].redirects = @ + 1]
           \/ ask[r].chunks < MaxChunks /\ ask' = [ask EXCEPT ![r].chunks = @ + 1]
    PROVE  LimitsOK'
<1>. USE BridgeAssumption
<1>1. /\ ask \in [Reading -> AskState] /\ WithinLimits(ask[r])
      /\ ask[r].redirects \in Nat /\ ask[r].chunks \in Nat
  BY DEF BridgeInv, LimitsOK, AskState
<1>2. \A q \in Reading \ {r} : ask'[q] = ask[q]
  BY <1>1 DEF AnswerWith
<1>3. ask'[r].age = ask[r].age
      /\ ask'[r].redirects <= MaxRedirects /\ ask'[r].chunks <= MaxChunks
  <2>1. ASSUME NEW answer, AnswerWith(r, answer)
        PROVE  /\ ask'[r].age = ask[r].age
               /\ ask'[r].redirects = ask[r].redirects /\ ask'[r].chunks = ask[r].chunks
    <3>1. PICK pc, old, age, lag, took, redirects, chunks :
             ask[r] = [pc |-> pc, answer |-> old, age |-> age, lag |-> lag, took |-> took,
                       redirects |-> redirects, chunks |-> chunks]
      BY <1>1 DEF AskState
    <3>2. ask'[r] = [[ask[r] EXCEPT !.pc = "answered"] EXCEPT !.answer = answer]
      BY <1>1, <2>1 DEF AnswerWith
    <3>. QED
      BY <3>1, <3>2
  <2>2. ASSUME NEW pc, ask' = [ask EXCEPT ![r].pc = pc]
        PROVE  /\ ask'[r].age = ask[r].age
               /\ ask'[r].redirects = ask[r].redirects /\ ask'[r].chunks = ask[r].chunks
    BY <1>1, <2>2 DEF AskState
  <2>3. CASE ask[r].redirects < MaxRedirects /\ ask' = [ask EXCEPT ![r].redirects = @ + 1]
    BY <1>1, <2>3 DEF AskState, WithinLimits
  <2>4. CASE ask[r].chunks < MaxChunks /\ ask' = [ask EXCEPT ![r].chunks = @ + 1]
    BY <1>1, <2>4 DEF AskState, WithinLimits
  <2>. QED
    BY <1>1, <2>1, <2>2, <2>3, <2>4 DEF WithinLimits
<1>. QED
  BY <1>1, <1>2, <1>3, OneAskKept DEF Elsewhere, LimitsOK, WithinLimits

\* A tick passes no limit of a request: one whose page waits no longer does not age.
LEMMA TickWithin ==
    ASSUME BridgeInv, LimitsOK, BridgeTick
    PROVE  LimitsOK'
<1>. USE BridgeAssumption
<1>1. ASSUME NEW r \in Reading PROVE WithinLimits(ask'[r])
  <2>1. PICK pc \in AskPlace, answer \in Answer, age \in Nat, lag \in Nat, took \in Nat,
             redirects \in Nat, chunks \in Nat :
           ask[r] = [pc |-> pc, answer |-> answer, age |-> age, lag |-> lag, took |-> took,
                     redirects |-> redirects, chunks |-> chunks]
    BY DEF BridgeInv, AskState
  <2>2. PICK age2, took2, lag2 :
           /\ ask'[r] = [ask[r] EXCEPT !.age = age2, !.took = took2, !.lag = lag2]
           /\ age2 = IF promise[r] = "pending" THEN ask[r].age + 1 ELSE ask[r].age
    BY DEF BridgeTick
  <2>3. ask'[r] = [pc |-> pc, answer |-> answer, age |-> age2, lag |-> lag2, took |-> took2,
                   redirects |-> redirects, chunks |-> chunks]
    <3>1. ask'[r] = [[pc |-> pc, answer |-> answer, age |-> age, lag |-> lag, took |-> took,
                      redirects |-> redirects, chunks |-> chunks]
                        EXCEPT !.age = age2, !.took = took2, !.lag = lag2]
      BY <2>1, <2>2, Zenon
    <3>. QED
      BY <3>1, Growing, ZenonT(60)
  <2>4. promise[r] = "pending" => age < PageTimeout
    <3>1. promise[r] = "pending" => ask[r].age < PageTimeout
      BY DEF BridgeTick
    <3>. QED
      BY <2>1, <3>1
  <2>5. age <= PageTimeout /\ redirects <= MaxRedirects /\ chunks <= MaxChunks
    BY <2>1 DEF LimitsOK, WithinLimits
  <2>6. age2 <= PageTimeout
    BY <2>1, <2>2, <2>4, <2>5
  <2>. QED
    BY <2>3, <2>5, <2>6 DEF WithinLimits
<1>. QED
  BY <1>1 DEF BridgeTick, LimitsOK

\* No step of reader mode passes its limits of time, redirects and chunks.
LEMMA LimitsKept ==
    ASSUME BridgeInv, LimitsOK, [BridgeNext]_bridgeVars
    PROVE  LimitsOK'
<1>. USE BridgeAssumption
<1>1. ASSUME NEW r \in Reading,
             \/ Forward(r) \/ WorkerStops(r) \/ Authorize(r) \/ FetchDocument(r)
             \/ Follow(r) \/ Respond(r) \/ ReadChunk(r) \/ FetchBreaks(r)
      PROVE  LimitsOK'
  <2>1. Elsewhere
    BY <1>1 DEF Forward, WorkerStops, Authorize, FetchDocument, Follow, Respond, ReadChunk,
               FetchBreaks
  <2>2. \/ \E answer : AnswerWith(r, answer)
        \/ \E pc : ask' = [ask EXCEPT ![r].pc = pc]
        \/ ask[r].redirects < MaxRedirects /\ ask' = [ask EXCEPT ![r].redirects = @ + 1]
        \/ ask[r].chunks < MaxChunks /\ ask' = [ask EXCEPT ![r].chunks = @ + 1]
    <3>1. CASE Forward(r) \/ WorkerStops(r)
      BY <3>1 DEF Forward, WorkerStops
    <3>2. CASE Authorize(r) \/ FetchDocument(r)
      BY <3>2 DEF Authorize, FetchDocument
    <3>3. CASE Follow(r)
      BY <3>3 DEF Follow
    <3>4. CASE Respond(r)
      BY <3>4 DEF Respond
    <3>5. CASE ReadChunk(r)
      BY <3>5 DEF ReadChunk
    <3>6. CASE FetchBreaks(r)
      BY <3>6 DEF FetchBreaks
    <3>. QED
      BY <1>1, <3>1, <3>2, <3>3, <3>4, <3>5, <3>6
  <2>. QED
    BY <2>1, <2>2, AnswersWithin
<1>2. ASSUME NEW r \in Reading, SendRequest(r) PROVE LimitsOK'
  <2>1. CASE installed
    <3>1. ask' = [ask EXCEPT ![r].pc = "script"]
      BY <1>2, <2>1 DEF SendRequest
    <3>2. /\ \A q \in Reading \ {r} : ask'[q] = ask[q]
          /\ ask'[r].age = ask[r].age
          /\ ask'[r].redirects = ask[r].redirects /\ ask'[r].chunks = ask[r].chunks
      BY <3>1 DEF BridgeInv, AskState
    <3>. QED
      BY <1>2, <3>2 DEF SendRequest, LimitsOK, WithinLimits
  <2>2. CASE ~installed
    BY <1>2, <2>2 DEF SendRequest, LimitsOK
  <2>. QED
    BY <2>1, <2>2
<1>3. ASSUME NEW r \in Reading, ReceiveAnswer(r) PROVE LimitsOK'
  <2>1. ask'[r] = NotAsked /\ \A q \in Reading \ {r} : ask'[q] = ask[q]
    BY <1>3 DEF ReceiveAnswer, BridgeInv
  <2>. QED
    BY <1>3, <2>1, LimitsAtHome, OneAskKept DEF ReceiveAnswer, LimitsOK
<1>4. ASSUME Dispose \/ (\E r \in Reading : PageTimerRings(r) \/ Extract(r))
      PROVE  LimitsOK'
  BY <1>4 DEF Dispose, PageTimerRings, Extract, LimitsOK
<1>5. CASE UNCHANGED bridgeVars
  BY <1>5 DEF bridgeVars, LimitsOK
<1>. QED
  BY <1>1, <1>2, <1>3, <1>4, <1>5, TickWithin DEF BridgeNext

\* Requests of reader mode and their promises keep their types.
LEMMA BridgeIsTyped == BridgeSpec => []BridgeTypeOK
<1>. USE BridgeAssumption
<1>1. BridgeInit => LimitsOK
  BY LimitsAtHome DEF BridgeInit, LimitsOK
<1>2. BridgeInv /\ LimitsOK => BridgeTypeOK
  <2>. SUFFICES ASSUME BridgeInv, LimitsOK PROVE BridgeTypeOK
    OBVIOUS
  <2>1. ASSUME NEW r \in Reading
        PROVE  ask[r] \in [pc : AskPlace, answer : Answer, age : 0 .. PageTimeout,
                           lag : 0 .. MaxLag, took : 0 .. AbortAfter,
                           redirects : 0 .. MaxRedirects, chunks : 0 .. MaxChunks]
    <3>1. PICK pc \in AskPlace, answer \in Answer, age \in Nat, lag \in Nat, took \in Nat,
               redirects \in Nat, chunks \in Nat :
             ask[r] = [pc |-> pc, answer |-> answer, age |-> age, lag |-> lag, took |-> took,
                       redirects |-> redirects, chunks |-> chunks]
      BY DEF BridgeInv, AskState
    <3>2. /\ ask[r].age <= PageTimeout /\ ask[r].redirects <= MaxRedirects
          /\ ask[r].chunks <= MaxChunks /\ ask[r].took <= AbortAfter /\ ask[r].lag <= MaxLag
      BY DEF LimitsOK, WithinLimits, BridgeInv, OnItsWay
    <3>3. /\ age \in 0 .. PageTimeout /\ redirects \in 0 .. MaxRedirects
          /\ chunks \in 0 .. MaxChunks /\ took \in 0 .. AbortAfter /\ lag \in 0 .. MaxLag
      BY <3>1, <3>2
    <3>. QED
      BY <3>1, <3>3
  <2>. QED
    BY <2>1 DEF BridgeInv, LimitsOK, BridgeTypeOK
<1>. QED
  BY <1>1, <1>2, BridgeInitially, BridgeStep, LimitsKept, PTL DEF BridgeSpec

------------------------------------------------------------------------------
(* The host gate *)

\* The keys of the host and what is added up of the counter are in range.
KeysOK ==
    /\ slot \in 0 .. Interval
    /\ waiters.ttl <= CounterTtl
    /\ block \in {0} \cup UNION {0 .. b : b \in BlockTime}
    /\ abandoned \in 0 .. MaxAbandoned
    /\ lost \in 0 .. Cardinality(Caller) + MaxLost

\* Those who wait are callers.
LEMMA Crowds ==
    /\ Cardinality(Waiting) \in Nat /\ Cardinality(Caller) \in Nat
    /\ Cardinality(Waiting) <= Cardinality(Caller)
<1>1. Waiting \subseteq Caller /\ IsFiniteSet(Caller)
  BY GateAssumption DEF Waiting
<1>. QED
  BY <1>1, FS_Subset, FS_CardinalityType

LEMMA KeysInitially == GateInit => KeysOK
<1>. SUFFICES ASSUME GateInit PROVE KeysOK
  OBVIOUS
<1>1. waiters.ttl = 0
  BY DEF GateInit, NoCounter
<1>. QED
  BY <1>1, GateAssumption, Crowds DEF GateInit, KeysOK

\* Time that passes expires keys.
LEMMA KeysTick ==
    ASSUME GateInv, KeysOK, GateTick
    PROVE  KeysOK'
<1>. USE GateAssumption
<1>1. /\ waiters = [there |-> waiters.there, n |-> waiters.n, ttl |-> waiters.ttl]
      /\ waiters.n \in Int /\ waiters.ttl \in Nat
  BY DEF GateInv, GateShapes, Counter
<1>2. waiters'.ttl <= CounterTtl
  <2>1. CASE waiters.ttl = 1
    BY <2>1 DEF GateTick, NoCounter
  <2>2. CASE waiters.ttl # 1
    <3>1. waiters' = [there |-> waiters.there, n |-> waiters.n, ttl |-> Passes(waiters.ttl)]
      BY <1>1, <2>2 DEF GateTick
    <3>2. Passes(waiters.ttl) <= waiters.ttl /\ Passes(waiters.ttl) \in Nat
      BY <1>1 DEF Passes
    <3>. QED
      BY <1>1, <3>1, <3>2 DEF KeysOK
  <2>. QED
    BY <2>1, <2>2
<1>3. abandoned' \in 0 .. MaxAbandoned
  BY DEF GateTick, KeysOK
<1>4. lost' \in 0 .. Cardinality(Caller) + MaxLost
  <2>1. {c \in Caller : At(c, "expiring")} \subseteq Caller
    OBVIOUS
  <2>2. /\ Cardinality({c \in Caller : At(c, "expiring")}) \in Nat
        /\ Cardinality({c \in Caller : At(c, "expiring")}) <= Cardinality(Caller)
        /\ Cardinality(Caller) \in Nat
    BY <2>1, FS_Subset, FS_CardinalityType
  <2>. QED
    BY <2>2 DEF GateTick, KeysOK
<1>5. slot' \in 0 .. Interval
  BY DEF GateTick, Passes, KeysOK
<1>6. block' \in {0} \cup UNION {0 .. b : b \in BlockTime}
  <2>1. CASE block = 0
    BY <2>1 DEF GateTick, Passes
  <2>2. CASE block # 0
    <3>1. PICK b \in BlockTime : block \in 0 .. b
      BY <2>2 DEF KeysOK
    <3>2. block' = block - 1 /\ block' \in 0 .. b
      BY <2>2, <3>1 DEF GateTick, Passes
    <3>. QED
      BY <3>2
  <2>. QED
    BY <2>1, <2>2
<1>. QED
  BY <1>2, <1>3, <1>4, <1>5, <1>6 DEF KeysOK

LEMMA KeysKept ==
    ASSUME GateInv, KeysOK, [GateNext]_gateVars
    PROVE  KeysOK'
<1>. USE GateAssumption
<1>1. CASE UNCHANGED gateVars
  BY <1>1 DEF gateVars, KeysOK
<1>2. ASSUME NEW c \in Caller,
             \/ CheckBlock(c) \/ ReadWaiters(c) \/ TakeSlot(c) \/ BackgroundDeferred(c)
             \/ GiveUp(c) \/ RegisterFails(c) \/ WaitFails(c)
      PROVE  KeysOK'
  <2>1. UNCHANGED <<waiters, block, abandoned, lost>> /\ slot' \in {slot, Interval}
    BY <1>2 DEF CheckBlock, ReadWaiters, TakeSlot, BackgroundDeferred, GiveUp,
                RegisterFails, WaitFails
  <2>. QED
    BY <2>1 DEF KeysOK
<1>3. ASSUME NEW c \in Caller, Register(c) \/ Unregister(c) PROVE KeysOK'
  <2>1. waiters'.ttl = waiters.ttl /\ UNCHANGED <<slot, block, abandoned>>
    BY <1>3 DEF Register, Unregister, GateInv, GateShapes, Counter
  <2>2. lost' \in 0 .. Cardinality(Caller) + MaxLost
    BY <1>3, Crowds DEF Register, Unregister, KeysOK
  <2>. QED
    BY <2>1, <2>2 DEF KeysOK
<1>4. ASSUME NEW c \in Caller, SetExpiry(c) PROVE KeysOK'
  <2>1. waiters'.ttl \in {0, CounterTtl} /\ UNCHANGED <<slot, block, abandoned, lost>>
    BY <1>4 DEF SetExpiry, GateInv, GateShapes, Counter
  <2>. QED
    BY <2>1 DEF KeysOK
<1>5. ASSUME NEW c \in Caller, HostAnswers(c) PROVE KeysOK'
  <2>1. UNCHANGED <<slot, waiters, abandoned, lost>> /\ block' \in {block} \cup BlockTime
    BY <1>5 DEF HostAnswers
  <2>2. block' \in {0} \cup UNION {0 .. b : b \in BlockTime}
    <3>1. ASSUME block' \in BlockTime PROVE block' \in 0 .. block'
      BY <3>1
    <3>. QED
      BY <2>1, <3>1 DEF KeysOK
  <2>. QED
    BY <2>1, <2>2 DEF KeysOK
<1>6. ASSUME NEW c \in Caller, CallerDies(c) PROVE KeysOK'
  <2>1. UNCHANGED <<slot, waiters, block, lost>> /\ abandoned' \in 0 .. MaxAbandoned
    BY <1>6 DEF CallerDies, KeysOK
  <2>. QED
    BY <2>1 DEF KeysOK
<1>. QED
  BY <1>1, <1>2, <1>3, <1>4, <1>5, <1>6, KeysTick DEF GateNext

\* The host's keys and the requests keep their types: the counter is never lower than
\* the increments it lost, nor higher than the callers and the increments that dead
\* processes left.
LEMMA GateIsTyped == GateSpec => []GateTypeOK
<1>. USE GateAssumption
<1>1. GateInv /\ KeysOK => GateTypeOK
  <2>. SUFFICES ASSUME GateInv, KeysOK PROVE GateTypeOK
    OBVIOUS
  <2>1. PICK there \in BOOLEAN, n \in Int, ttl \in Nat :
           waiters = [there |-> there, n |-> n, ttl |-> ttl]
    BY DEF GateInv, GateShapes, Counter
  <2>2. /\ n \in -(Cardinality(Caller) + MaxLost) .. Cardinality(Caller) + MaxAbandoned
        /\ ttl \in 0 .. CounterTtl
    BY <2>1, Crowds DEF KeysOK, GateInv, CounterIsExact
  <2>. QED
    BY <2>1, <2>2 DEF GateInv, GateShapes, KeysOK, GateTypeOK
<1>2. GateInit => GateInv
  BY GateInitially
<1>3. GateInv /\ [GateNext]_gateVars => GateInv'
  BY GateStep
<1>. QED
  BY <1>1, <1>2, <1>3, KeysInitially, KeysKept, PTL DEF GateSpec

------------------------------------------------------------------------------
(* The parts side by side *)

\* Initially every part is in an initial state of its own.
LEMMA PartsStart ==
    PartsInit => /\ GateInit /\ AccountsInit /\ FoldersInit /\ MigratorInit /\ RedirectsInit
                 /\ MailInit /\ QueueInit /\ MenusInit /\ BridgeInit /\ DiscoveryInit
                 /\ WorkerCacheInit
BY DEF PartsInit

\* A step of the whole is a step of every part, or leaves it alone.
LEMMA PartsMove ==
    ASSUME [PartsNext]_partsVars
    PROVE  /\ [GateNext]_gateVars /\ [AccountsNext]_accountVars
           /\ [FoldersNext]_folderVars /\ [MigratorNext]_migratorVars
           /\ [RedirectsNext]_redirectVars /\ [MailNext]_mailVars
           /\ [QueueNext]_queueVars /\ [MenusNext]_menuVars
           /\ [BridgeNext]_bridgeVars /\ [DiscoveryNext]_discoveryVars
           /\ [WorkerCacheNext]_workerCacheVars
BY DEF PartsNext, partsVars

\* No part can do anything beside the others that it could not do alone.
THEOREM PartsAreThemselves ==
    PartsSpec => /\ GateSpec /\ AccountsSpec /\ FoldersSpec /\ MigratorSpec
                 /\ RedirectsSpec /\ MailSpec /\ QueueSpec /\ MenusSpec
                 /\ BridgeSpec /\ DiscoverySpec /\ WorkerCacheSpec
BY PartsStart, PartsMove, PTL
DEF PartsSpec, GateSpec, AccountsSpec, FoldersSpec, MigratorSpec, RedirectsSpec, MailSpec,
    QueueSpec, MenusSpec, BridgeSpec, DiscoverySpec, WorkerCacheSpec

------------------------------------------------------------------------------
(* The parts that keep their types by their invariants *)

\* Migrators, indexes and the journal keep their types.
LEMMA MigratorIsTyped == MigratorSpec => []MigratorTypeOK
BY MigratorAssumption, MigratorInitially, MigratorStep, PTL DEF MigratorSpec, MigratorInv

\* The queue of deletions and its replays keep their types.
LEMMA QueueIsTyped == QueueSpec => []QueueTypeOK
BY QueueInitially, QueueStep, PTL DEF QueueSpec, QueueInv

\* The cache of the service worker and its requests keep their types.
LEMMA CacheIsTyped == WorkerCacheSpec => []WorkerCacheTypeOK
BY WorkerCacheAssumption, CacheInitially, CacheStep, PTL DEF WorkerCacheSpec, CacheInv

\* The variables of all eleven parts keep their types, whichever part moves.
THEOREM PartsAreTyped == PartsSpec => []PartsTypeOK
<1>1. /\ GateTypeOK /\ AccountsTypeOK /\ FoldersTypeOK /\ MigratorTypeOK
      /\ RedirectsTypeOK /\ MailTypeOK /\ QueueTypeOK
      /\ MenusTypeOK /\ BridgeTypeOK /\ DiscoveryTypeOK /\ WorkerCacheTypeOK
      => PartsTypeOK
  BY DEF PartsTypeOK
<1>. QED
  BY <1>1, PartsAreThemselves, GateIsTyped, AccountsAreTyped, FoldersAreTyped,
     MigratorIsTyped, RedirectsAreTyped, MailIsTyped, QueueIsTyped, MenusAreTyped,
     BridgeIsTyped, DiscoveryIsTyped, CacheIsTyped, PTL
==============================================================================
