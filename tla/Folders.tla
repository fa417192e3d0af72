------------------------------- MODULE Folders --------------------------------
(***************************************************************************)
(* One user's folders and the subscriptions in them: creating and deleting *)
(* folders, subscribing into a folder, moving and removing subscriptions,  *)
(* and OPML imports (folder-data-service.ts, user-source-data-service.ts,  *)
(* opml-import-service.ts).                                                *)
(*                                                                         *)
(* A DELETE under READ COMMITTED selects its rows on the snapshot of its   *)
(* start and deletes later.  A subscription that enters the folder between *)
(* the two only locks the folder's row and does not change it, so the      *)
(* condition is not evaluated again, and the foreign key's ON DELETE       *)
(* CASCADE takes the subscription along.                                   *)
(***************************************************************************)
EXTENDS Naturals, FiniteSets

CONSTANTS
    Folder,     \* ids of folders, each used once
    Source,     \* feeds
    Root,       \* no folder
    Document,   \* OPML files: content hashes
    Importer,   \* concurrent imports
    MaxCrashes  \* bound: imports that crash

None == "none"          \* not subscribed
Nowhere == "nowhere"    \* no request

ASSUME FoldersAssumption ==
    /\ Root \notin Folder
    /\ None \notin Folder \cup {Root}
    /\ IsFiniteSet(Folder)
    /\ MaxCrashes \in Nat

VARIABLES
    folders,    \* the table user_folders
    place,      \* the folder of each subscription, or no subscription
    asked,      \* the folder a request has checked for each feed
    deletion,   \* deletions that have selected their folder
    entered,    \* feeds that came into such a folder since
    imports,    \* the table opml_imports
    import,     \* each import in flight
    copies,     \* how often each document has been imported
    queued,     \* feeds whose fetch the imports have requested
    crashes

folderVars == <<folders, place, asked, deletion, entered, imports, import, copies,
                queued, crashes>>

NoImport == [pc |-> "idle", doc |-> None, todo |-> {}]
ImportState == [pc : {"idle", "inserting", "enqueueing"},
                doc : Document \cup {None}, todo : SUBSET Source]

FoldersTypeOK ==
    /\ folders \subseteq Folder
    /\ place \in [Source -> folders \cup {Root, None}]
    /\ asked \in [Source -> Folder \cup {Root, Nowhere}]
    /\ deletion \subseteq Folder
    /\ entered \in [Folder -> SUBSET Source]
    /\ imports \subseteq Document
    /\ import \in [Importer -> ImportState]
    /\ copies \in [Document -> Nat]
    /\ queued \subseteq Source
    /\ crashes \in 0 .. MaxCrashes

FoldersInit ==
    /\ folders = {}
    /\ place = [s \in Source |-> None]
    /\ asked = [s \in Source |-> Nowhere]
    /\ deletion = {}
    /\ entered = [f \in Folder |-> {}]
    /\ imports = {}
    /\ import = [i \in Importer |-> NoImport]
    /\ copies = [d \in Document |-> 0]
    /\ queued = {}
    /\ crashes = 0

importVars == <<imports, import, copies, queued, crashes>>
Inside(f) == {s \in Source : place[s] = f}

------------------------------------------------------------------------------
(* Folders and subscriptions *)

CreateFolder(f) ==
    /\ f \notin folders
    /\ folders' = folders \cup {f}
    /\ UNCHANGED <<place, asked, deletion, entered, importVars>>

\* addSourceToUser and updateUserSource look for the folder first.
CheckFolder(s, f) ==
    /\ asked[s] = Nowhere
    /\ f \in folders \cup {Root}
    /\ asked' = [asked EXCEPT ![s] = f]
    /\ UNCHANGED <<folders, place, deletion, entered, importVars>>

\* Then they write; the foreign key refuses a folder that has gone.
EnterFolder(s) ==
    /\ asked[s] # Nowhere
    /\ asked' = [asked EXCEPT ![s] = Nowhere]
    /\ IF asked[s] \in folders \cup {Root}
       THEN /\ place' = [place EXCEPT ![s] = asked[s]]
            /\ entered' = [f \in Folder |-> IF f = asked[s] /\ f \in deletion
                                            THEN entered[f] \cup {s} ELSE entered[f]]
       ELSE UNCHANGED <<place, entered>>
    /\ UNCHANGED <<folders, deletion, importVars>>

RemoveSource(s) ==
    /\ place[s] # None
    /\ place' = [place EXCEPT ![s] = None]
    /\ UNCHANGED <<folders, asked, deletion, entered, importVars>>

\* Faulty: whatever is inside.
SelectFolder(f) ==
    /\ f \in folders \ deletion
    /\ deletion' = deletion \cup {f}
    /\ entered' = [entered EXCEPT ![f] = {}]
    /\ UNCHANGED <<folders, place, asked, importVars>>

\* removeEmptyUserFolder: the snapshot of its DELETE.  A folder with something
\* inside is reported and left.
SelectEmptyFolder(f) ==
    /\ f \in folders \ deletion
    /\ Inside(f) = {}
    /\ deletion' = deletion \cup {f}
    /\ entered' = [entered EXCEPT ![f] = {}]
    /\ UNCHANGED <<folders, place, asked, importVars>>

\* The folder is deleted, and by cascade what is inside by now.
DeleteFolder(f) ==
    /\ f \in deletion
    /\ folders' = folders \ {f}
    /\ place' = [s \in Source |-> IF place[s] = f THEN None ELSE place[s]]
    /\ deletion' = deletion \ {f}
    /\ entered' = [entered EXCEPT ![f] = {}]
    /\ UNCHANGED <<asked, importVars>>

------------------------------------------------------------------------------
(* OpmlImportService.insertTree *)

Free == \A i \in Importer : import[i].pc # "inserting"

\* Faulty: what has been imported is not remembered.
ClaimAgain(i, d) ==
    /\ import[i] = NoImport
    /\ Free
    /\ import' = [import EXCEPT ![i] = [pc |-> "inserting", doc |-> d, todo |-> {}]]
    /\ UNCHANGED <<folders, place, asked, deletion, entered, imports, copies, queued,
                   crashes>>

\* The transaction has the user's advisory lock; a document that has been
\* imported is not imported again.
ClaimDocument(i, d) ==
    /\ import[i] = NoImport
    /\ Free
    /\ d \notin imports
    /\ import' = [import EXCEPT ![i] = [pc |-> "inserting", doc |-> d, todo |-> {}]]
    /\ UNCHANGED <<folders, place, asked, deletion, entered, imports, copies, queued,
                   crashes>>

\* The transaction commits: a new folder with the document's feeds, except for
\* those the user has.
CommitImport(i, f) ==
    LET new == {s \in Source : place[s] = None}
    IN /\ import[i].pc = "inserting"
       /\ f \notin folders
       /\ folders' = folders \cup {f}
       /\ place' = [s \in Source |-> IF s \in new THEN f ELSE place[s]]
       /\ imports' = imports \cup {import[i].doc}
       /\ copies' = [copies EXCEPT ![import[i].doc] = @ + 1]
       /\ import' = [import EXCEPT ![i] = [pc |-> "enqueueing", doc |-> import[i].doc,
                                            todo |-> new]]
       /\ UNCHANGED <<asked, deletion, entered, queued, crashes>>

\* Promise.all over enqueueSource, in any order.
EnqueueImported(i) ==
    /\ import[i].pc = "enqueueing"
    /\ IF import[i].todo = {}
       THEN import' = [import EXCEPT ![i] = NoImport] /\ UNCHANGED queued
       ELSE \E s \in import[i].todo :
               /\ queued' = queued \cup {s}
               /\ import' = [import EXCEPT ![i].todo = @ \ {s}]
    /\ UNCHANGED <<folders, place, asked, deletion, entered, imports, copies, crashes>>

\* A crash or an error: a transaction that has not committed leaves nothing,
\* and what was not enqueued waits for the periodic gather.
ImportCrashes(i) ==
    /\ import[i] # NoImport
    /\ crashes < MaxCrashes
    /\ crashes' = crashes + 1
    /\ import' = [import EXCEPT ![i] = NoImport]
    /\ UNCHANGED <<folders, place, asked, deletion, entered, imports, copies, queued>>

------------------------------------------------------------------------------
FoldersNext ==
    \/ \E f \in Folder :
          \/ CreateFolder(f) \/ SelectEmptyFolder(f) \/ DeleteFolder(f)
          \/ \E i \in Importer : CommitImport(i, f)
    \/ \E s \in Source :
          \/ \E f \in Folder \cup {Root} : CheckFolder(s, f)
          \/ EnterFolder(s) \/ RemoveSource(s)
    \/ \E i \in Importer :
          \/ \E d \in Document : ClaimDocument(i, d)
          \/ EnqueueImported(i) \/ ImportCrashes(i)

FoldersSpec == FoldersInit /\ [][FoldersNext]_folderVars

------------------------------------------------------------------------------
(* Properties *)

\* "protects nonempty folders" (tests/server.test.ts): no deletion of a folder
\* takes a subscription along.
DeletionKeepsFeeds ==
    [][\A f \in Folder : f \in folders \ folders' => Inside(f) = {}]_folderVars

\* What a deletion can take along is only what entered the folder between its
\* snapshot and its write.
DeletionTakesOnlyEntered ==
    [][\A f \in Folder : f \in folders \ folders' => Inside(f) \subseteq entered[f]]_folderVars

\* However often and however concurrently a document is sent, and wherever an
\* import crashes, its folders appear once.
ImportedOnce == \A d \in Document : copies[d] <= 1
==============================================================================
