------------------------------ MODULE Dashboard -------------------------------
(***************************************************************************)
(* The reading page (spa/dashboard.tsx): the tree with its unread counts,  *)
(* the list of the selected node, the selection and the opened article.    *)
(* Requests are answered in any order, and an answer that a later request  *)
(* has superseded (supersession.ts) must change nothing.  Here a request   *)
(* carries whether it is still the current one of its guard, instead of a  *)
(* number that is compared with the guard's.                               *)
(*                                                                         *)
(* A deletion is a DELETE that the server carries out at one time and the  *)
(* page hears of at another, or never.  The service worker (sw.js) answers *)
(* one that the network refuses as if it had been done, and replays it.    *)
(*                                                                         *)
(* A list is the set of its articles: list and selection are only ever     *)
(* replaced together, so an index never outlives its list.                 *)
(***************************************************************************)
EXTENDS Naturals, FiniteSets

CONSTANTS
    Feed,           \* nodes of the tree that have feeds
    EmptyFolder,    \* nodes of the tree that have none
    ArticlesOf(_),  \* the articles of a node
    NoNode,
    MaxRequests,    \* bound: requests in flight
    MaxLost         \* bound: requests that fail

Node == Feed \cup EmptyFolder
Item == UNION {ArticlesOf(n) : n \in Feed}

ASSUME DashboardAssumption ==
    /\ IsFiniteSet(Item)
    /\ \A n \in EmptyFolder : ArticlesOf(n) = {}
    /\ NoNode \notin Node /\ NoNode \notin Item
    /\ MaxRequests \in Nat /\ MaxLost \in Nat

VARIABLES
    server,     \* the server's nodes and unread articles
    tree,       \* the nodes and unread counts the page shows
    node,       \* selectedNode
    list, loading,      \* articles, articlesLoading
    chosen,     \* selectedIndexes, as articles
    opened, content, loadingArticle,    \* openedArticle, readerContent
    mode, available,    \* displayMode, readerAvailable
    lists, opens, trees, deletions,     \* requests in flight
    removal,    \* the node whose DELETE is in flight
    late,       \* deletions nobody waits for: queued, or still on their way
    onEmpty,    \* was an empty folder selected last?
    behind,     \* since the page last asked for the tree: has that failed, was it
                \* answered by a copy, or has a late deletion changed the server?
    lost

shown == <<list, chosen, opened, content, loadingArticle>>
requests == <<lists, opens, trees, deletions>>
dashboardVars == <<server, tree, node, loading, mode, available, removal, late, onEmpty,
                   behind, lost, shown, requests>>

Mode == {"feed", "reader"}
Unread(s, n) == s.unread \cap ArticlesOf(n)
TreeOf(s) == [nodes |-> s.nodes, counts |-> [n \in Feed |-> Cardinality(Unread(s, n))]]

\* Requests that read hold every state of the server that they may have read.
Server == [nodes : SUBSET Node, unread : SUBSET Item]
ListRequest == [node : Feed, reads : SUBSET Server, current : BOOLEAN]
TreeRequest == [reads : SUBSET Server, current : BOOLEAN]
OpenRequest == [item : Item, mode : Mode, stage : {"article", "page"},
                current : BOOLEAN,      \* of articleRequestGuard
                selection : BOOLEAN]    \* of selectionGuard
Deletion == [items : SUBSET Item, ids : SUBSET Item, applied : BOOLEAN]
Removal == [node : Node, applied : BOOLEAN]
NoRemoval == [node |-> NoNode, applied |-> FALSE]

\* What a DELETE takes away.
Change == [nodes : SUBSET Node, ids : SUBSET Item]
OfItems(ids) == [nodes |-> {}, ids |-> ids]
OfNode(n) == [nodes |-> {n}, ids |-> ArticlesOf(n)]
Without(s, c) == [nodes |-> s.nodes \ c.nodes, unread |-> s.unread \ c.ids]

DashboardTypeOK ==
    /\ server \in Server
    /\ tree \in [nodes : SUBSET Node, counts : [Feed -> 0 .. Cardinality(Item)]]
    /\ node \in Node \cup {NoNode} /\ onEmpty \in BOOLEAN
    /\ removal \in Removal \cup {NoRemoval} /\ late \subseteq Change
    /\ list \subseteq Item /\ chosen \subseteq list
    /\ opened \in Item \cup {NoNode}
    /\ content \in Mode \cup {NoNode}
    /\ mode \in Mode
    /\ loading \in BOOLEAN /\ loadingArticle \in BOOLEAN
    /\ available \in BOOLEAN /\ behind \in BOOLEAN
    /\ lists \subseteq ListRequest /\ trees \subseteq TreeRequest
    /\ opens \subseteq OpenRequest /\ deletions \subseteq Deletion
    /\ lost \in 0 .. MaxLost

DashboardInit ==
    /\ server = [nodes |-> Node, unread |-> Item] /\ tree = TreeOf(server)
    /\ node = NoNode /\ onEmpty = FALSE /\ removal = NoRemoval /\ late = {}
    /\ list = {} /\ loading = FALSE
    /\ chosen = {} /\ opened = NoNode /\ content = NoNode /\ loadingArticle = FALSE
    /\ mode = "feed" /\ available = TRUE
    /\ lists = {} /\ opens = {} /\ trees = {} /\ deletions = {}
    /\ behind = FALSE
    /\ lost = 0

\* guard.start(): who has asked before is superseded.
Superseded(rs) == {[r EXCEPT !.current = FALSE] : r \in rs}
NoSelection(rs) == {[r EXCEPT !.selection = FALSE] : r \in rs}
Current(rs) == {r \in rs : r.current}

Fails == lost < MaxLost /\ lost' = lost + 1

------------------------------------------------------------------------------
(* Selecting and opening *)

\* open(), after what the page had before.
Opening(a, before) ==
    /\ opens' = Superseded(before) \cup
          {[item |-> a, mode |-> mode, stage |-> "article", current |-> TRUE,
            selection |-> TRUE]}
    /\ loadingArticle' = TRUE

\* setArticleSelection, over the list l: one article is opened.
SetSelection(l, s, before) ==
    /\ list' = l
    /\ chosen' = s
    /\ opened' = NoNode /\ content' = NoNode
    /\ \/ \E a \in s : s = {a} /\ Opening(a, before)
       \/ /\ Cardinality(s) # 1
          /\ opens' = Superseded(before)
          /\ loadingArticle' = FALSE

\* select()
Select(n) ==
    /\ n \in tree.nodes
    /\ node' = n /\ onEmpty' = (n \in EmptyFolder)
    /\ IF n \in EmptyFolder
       THEN /\ SetSelection({}, {}, NoSelection(opens))
            /\ lists' = Superseded(lists)
            /\ UNCHANGED loading
       ELSE /\ loading' = TRUE
            /\ lists' = Superseded(lists) \cup
                  {[node |-> n, reads |-> {server}, current |-> TRUE]}
            /\ opens' = NoSelection(opens)
            /\ opened' = NoNode /\ content' = NoNode
            /\ UNCHANGED <<list, chosen, loadingArticle>>
    /\ UNCHANGED <<server, tree, mode, available, removal, late, behind, lost, trees,
                   deletions>>

\* Faulty: the answer to a superseded request is taken.
ListArrivesLate(r) ==
    /\ lists' = lists \ {r}
    /\ \E s \in r.reads :
          LET l == Unread(s, r.node)
          IN \E first \in SUBSET l :
                /\ Cardinality(first) = IF l = {} THEN 0 ELSE 1
                /\ SetSelection(l, first, opens)
    /\ loading' = FALSE
    /\ UNCHANGED <<server, tree, node, mode, available, removal, late, onEmpty, behind, lost,
                   trees, deletions>>

\* The list arrives; its first article is selected.
ListArrives(r) ==
    /\ lists' = lists \ {r}
    /\ IF r.current
       THEN /\ \E s \in r.reads :
                  LET l == Unread(s, r.node)
                  IN \E first \in SUBSET l :
                        /\ Cardinality(first) = IF l = {} THEN 0 ELSE 1
                        /\ SetSelection(l, first, opens)
            /\ loading' = FALSE
       ELSE UNCHANGED <<shown, loading, opens>>
    /\ UNCHANGED <<server, tree, node, mode, available, removal, late, onEmpty, behind, lost,
                   trees, deletions>>

ListFails(r) ==
    /\ Fails
    /\ lists' = lists \ {r}
    /\ loading' = IF r.current THEN FALSE ELSE loading
    /\ UNCHANGED <<server, tree, node, mode, available, removal, late, onEmpty, behind, shown,
                   opens, trees, deletions>>

\* A click, a key: the selection within the list that is shown.
Choose(s) ==
    /\ s \subseteq list
    /\ SetSelection(list, s, opens)
    /\ UNCHANGED <<server, tree, node, loading, mode, available, removal, late, onEmpty,
                   behind, lost, lists, trees, deletions>>

\* Faulty: it is enough that the article is still selected.
IsStillSelected(r) == r.selection /\ chosen = {r.item}

IsCurrent(r) == r.current /\ r.selection /\ mode = r.mode /\ chosen = {r.item}

\* Faulty: an answer that is not wanted any more leaves the skeleton to the next.
ArticleArrivesQuietly(r) ==
    /\ r.stage = "article"
    /\ IF ~IsCurrent(r)
       THEN opens' = opens \ {r} /\ UNCHANGED <<opened, loadingArticle>>
       ELSE /\ opened' = r.item
            /\ IF r.mode = "feed"
               THEN opens' = opens \ {r} /\ loadingArticle' = FALSE
               ELSE /\ opens' = (opens \ {r}) \cup {[r EXCEPT !.stage = "page"]}
                    /\ UNCHANGED loadingArticle
    /\ UNCHANGED <<server, tree, node, list, loading, chosen, content, mode, available,
                   removal, late, onEmpty, behind, lost, lists, trees, deletions>>

\* The article arrives; in a reader mode its page is asked for.
ArticleArrives(r) ==
    /\ r.stage = "article"
    /\ IF ~IsCurrent(r)
       THEN /\ opens' = opens \ {r}
            /\ loadingArticle' = (loadingArticle /\ ~r.current)
            /\ UNCHANGED <<opened>>
       ELSE /\ opened' = r.item
            /\ IF r.mode = "feed"
               THEN opens' = opens \ {r} /\ loadingArticle' = FALSE
               ELSE /\ opens' = (opens \ {r}) \cup {[r EXCEPT !.stage = "page"]}
                    /\ UNCHANGED loadingArticle
    /\ UNCHANGED <<server, tree, node, list, loading, chosen, content, mode, available,
                   removal, late, onEmpty, behind, lost, lists, trees, deletions>>

\* The page arrives and its content is extracted.
PageArrives(r) ==
    /\ r.stage = "page" /\ available
    /\ opens' = opens \ {r}
    /\ content' = IF IsCurrent(r) THEN r.mode ELSE content
    /\ loadingArticle' = (loadingArticle /\ ~r.current)
    /\ UNCHANGED <<server, tree, node, list, loading, chosen, opened, mode, available,
                   removal, late, onEmpty, behind, lost, lists, trees, deletions>>

\* disableReader
Disabled(rs) ==
    /\ opens' = Superseded(rs)
    /\ available' = FALSE /\ mode' = "feed"
    /\ content' = NoNode /\ loadingArticle' = FALSE

\* An article or a page fails: in a reader mode the page falls back to the
\* feed's text, and the reader is switched off when the extension is gone.
OpenFails(r) ==
    /\ \/ Fails
       \/ r.stage = "page" /\ ~available /\ UNCHANGED lost
    /\ IF ~IsCurrent(r)
       THEN /\ opens' = opens \ {r}
            /\ loadingArticle' = (loadingArticle /\ ~r.current)
            /\ UNCHANGED <<available, mode, content>>
       ELSE \/ /\ r.stage = "page"
               /\ Disabled(opens \ {r})
            \/ /\ opens' = opens \ {r} /\ loadingArticle' = FALSE
               /\ mode' = "feed"
               /\ content' = NoNode
               /\ UNCHANGED available
    /\ UNCHANGED <<server, tree, node, list, loading, chosen, opened, removal, late, onEmpty,
                   behind, lists, trees, deletions>>

\* probeReader: the extension answers, or it does not.
Probe(found) ==
    /\ IF ~found /\ mode # "feed"
       THEN Disabled(opens)
       ELSE available' = found /\ UNCHANGED <<opens, mode, content, loadingArticle>>
    /\ UNCHANGED <<server, tree, node, list, loading, chosen, opened, removal, late, onEmpty,
                   behind, lost, lists, trees, deletions>>

\* The select element of the display mode.
ChangeMode(m) ==
    /\ available /\ m # mode
    /\ mode' = m
    /\ IF Cardinality(chosen) = 1
       THEN /\ opened' = NoNode /\ content' = NoNode /\ loadingArticle' = TRUE
            /\ \E a \in chosen :
                  opens' = Superseded(opens) \cup
                     {[item |-> a, mode |-> m, stage |-> "article", current |-> TRUE,
                       selection |-> TRUE]}
       ELSE UNCHANGED <<opened, content, loadingArticle, opens>>
    /\ UNCHANGED <<server, tree, node, list, loading, chosen, available, removal, late, onEmpty,
                   behind, lost, lists, trees, deletions>>

------------------------------------------------------------------------------
(* The tree, and what is removed *)

\* Faulty: a tree request does not supersede the ones before it.
TreeAskedAgain(s) ==
    /\ trees' = trees \cup {[reads |-> {s}, current |-> TRUE]}
    /\ behind' = FALSE

\* loadTree() asks the server in state s.
TreeAsked(s) ==
    /\ trees' = Superseded(trees) \cup {[reads |-> {s}, current |-> TRUE]}
    /\ behind' = FALSE

\* setTree, and the selected node in it, if it is still there.
ShowTree(s) ==
    /\ tree' = TreeOf(s)
    /\ node' = IF node \in s.nodes THEN node ELSE NoNode

TreeArrives(r) ==
    /\ trees' = trees \ {r}
    /\ IF r.current
       THEN \E s \in r.reads : ShowTree(s)
       ELSE UNCHANGED <<tree, node>>
    /\ UNCHANGED <<server, loading, mode, available, removal, late, onEmpty, behind, lost,
                   shown, lists, opens, deletions>>

\* The network does not answer and the service worker has a copy of an earlier
\* tree (treeWithInlineFavicons): nothing comes back to the server here.
TreeCopied(r) ==
    /\ Fails /\ r.current
    /\ trees' = trees \ {r}
    /\ \E s \in Server :
          /\ server.nodes \subseteq s.nodes /\ server.unread \subseteq s.unread
          /\ ShowTree(s)
    /\ behind' = TRUE
    /\ UNCHANGED <<server, loading, mode, available, removal, late, onEmpty, shown,
                   lists, opens, deletions>>

\* A tree that is not loaded is reported; what is shown stays.
TreeFails(r) ==
    /\ Fails
    /\ trees' = trees \ {r}
    /\ behind' = (behind \/ r.current)
    /\ UNCHANGED <<server, tree, node, loading, mode, available, removal, late, onEmpty, shown,
                   lists, opens, deletions>>

\* A folder or a subscription has been added.
Reload ==
    /\ TreeAsked(server)
    /\ UNCHANGED <<server, tree, node, loading, mode, available, removal, late, onEmpty,
                   lost, shown, lists, opens, deletions>>

\* removeSelected: the request goes out, and the page goes on as if it had
\* been answered.
RemoveSelected ==
    /\ chosen # {}
    /\ deletions' = deletions \cup {[items |-> list, ids |-> chosen, applied |-> FALSE]}
    /\ \E next \in SUBSET (list \ chosen) :
          /\ Cardinality(next) = IF list = chosen THEN 0 ELSE 1
          /\ SetSelection(list \ chosen, next, opens)
    /\ tree' = [tree EXCEPT !.counts = [n \in Feed |->
                   LET left == @[n] - Cardinality(chosen \cap ArticlesOf(n))
                   IN IF left < 0 THEN 0 ELSE left]]
    /\ node' = IF node \in tree.nodes THEN node ELSE NoNode
    /\ UNCHANGED <<server, loading, mode, available, removal, late, onEmpty, behind, lost,
                   lists, trees>>

\* The server carries out c; whoever is reading may read that or what was before.
Becomes(c) ==
    /\ server' = Without(server, c)
    /\ lists' = {[r EXCEPT !.reads = @ \cup {server'}] : r \in lists}
    /\ trees' = {[r EXCEPT !.reads = @ \cup {server'}] : r \in trees}

ServerRemoves(d) ==
    /\ ~d.applied
    /\ deletions' = (deletions \ {d}) \cup {[d EXCEPT !.applied = TRUE]}
    /\ Becomes(OfItems(d.ids))
    /\ UNCHANGED <<tree, node, loading, mode, available, removal, late, onEmpty, behind, lost,
                   shown, opens>>

\* The page hears that d is done: the counts are reconciled.
Reconcile(d) ==
    /\ deletions' = deletions \ {d}
    /\ TreeAsked(server)
    /\ UNCHANGED <<server, tree, node, loading, mode, available, removal, onEmpty, shown,
                   lists, opens>>

DeletionSucceeds(d) ==
    /\ d.applied
    /\ Reconcile(d)
    /\ UNCHANGED <<late, lost>>

\* queueableMutation: the network fails, maybe after the server had the request.
DeletionQueued(d) ==
    /\ Fails
    /\ Reconcile(d)
    /\ late' = late \cup {OfItems(d.ids)}

\* A DELETE that fails for the page may reach the server yet.
Unheard(c, applied) ==
    \/ UNCHANGED late
    \/ ~applied /\ late' = late \cup {c}

\* It fails, or its answer is lost: the page puts back what it had.
DeletionFails(d) ==
    /\ Fails
    /\ deletions' = deletions \ {d}
    /\ Unheard(OfItems(d.ids), d.applied)
    /\ SetSelection(d.items, d.ids, opens)
    /\ TreeAsked(server)
    /\ UNCHANGED <<server, tree, node, loading, mode, available, removal, onEmpty, lists>>

\* removeSelectedNode asks; a folder that has feeds is refused.
RemoveNode ==
    /\ node # NoNode /\ removal = NoRemoval
    /\ removal' = [node |-> node, applied |-> FALSE]
    /\ UNCHANGED <<server, tree, node, loading, mode, available, late, onEmpty, behind, lost,
                   shown, requests>>

ServerRemovesNode ==
    /\ removal # NoRemoval /\ ~removal.applied
    /\ removal' = [removal EXCEPT !.applied = TRUE]
    /\ Becomes(OfNode(removal.node))
    /\ UNCHANGED <<tree, node, loading, mode, available, late, onEmpty, behind, lost, shown,
                   opens, deletions>>

\* The page hears that the node is removed, whatever has been selected meanwhile.
LeaveNode ==
    /\ removal' = NoRemoval
    /\ node' = NoNode
    /\ SetSelection({}, {}, opens)
    /\ TreeAsked(server)
    /\ UNCHANGED <<server, tree, loading, mode, available, onEmpty, lists, deletions>>

NodeRemoved ==
    /\ removal # NoRemoval /\ removal.applied
    /\ LeaveNode
    /\ UNCHANGED <<late, lost>>

NodeQueued ==
    /\ Fails
    /\ removal # NoRemoval
    /\ LeaveNode
    /\ late' = late \cup {OfNode(removal.node)}

\* It is refused, or its answer is lost: an error is shown, and no tree is asked
\* for, though the server may have removed the node.
NodeNotRemoved ==
    /\ Fails
    /\ removal # NoRemoval
    /\ removal' = NoRemoval
    /\ Unheard(OfNode(removal.node), removal.applied)
    /\ behind' = (behind \/ removal.applied)
    /\ UNCHANGED <<server, tree, node, loading, mode, available, onEmpty, shown, requests>>

\* flushQueue replays a deletion, or one arrives that the page has given up: the
\* page hears nothing of it.
LateRemoval(c) ==
    /\ late' = late \ {c}
    /\ Becomes(c)
    /\ behind' = (behind \/ server' # server)
    /\ UNCHANGED <<tree, node, loading, mode, available, removal, onEmpty, lost, shown,
                   opens, deletions>>

\* It is refused; the page is told and shows an error, or it is lost.
LateRefused(c) ==
    /\ late' = late \ {c}
    /\ UNCHANGED <<server, tree, node, loading, mode, available, removal, onEmpty, behind,
                   lost, shown, requests>>

------------------------------------------------------------------------------
InFlight == Cardinality(lists) + Cardinality(opens) + Cardinality(trees)
               + Cardinality(deletions) + (IF removal = NoRemoval THEN 0 ELSE 1)

DashboardStep ==
    \/ \E n \in Node : Select(n)
    \/ \E s \in SUBSET list : Choose(s)
    \/ \E r \in lists : ListArrives(r) \/ ListFails(r)
    \/ \E r \in opens : ArticleArrives(r) \/ PageArrives(r) \/ OpenFails(r)
    \/ \E r \in trees : TreeArrives(r) \/ TreeCopied(r) \/ TreeFails(r)
    \/ \E d \in deletions : \/ ServerRemoves(d) \/ DeletionSucceeds(d)
                           \/ DeletionQueued(d) \/ DeletionFails(d)
    \/ \E c \in late : LateRemoval(c) \/ LateRefused(c)
    \/ \E found \in BOOLEAN : Probe(found)
    \/ \E m \in Mode : ChangeMode(m)
    \/ Reload \/ RemoveSelected \/ RemoveNode
    \/ ServerRemovesNode \/ NodeRemoved \/ NodeQueued \/ NodeNotRemoved

DashboardNext == DashboardStep /\ InFlight' <= MaxRequests

DashboardSpec == DashboardInit /\ [][DashboardNext]_dashboardVars

------------------------------------------------------------------------------
(* Properties *)

\* Whatever answers arrive in whatever order, the reader shows the article
\* that alone is selected, and a reader mode's content only in that mode.
ReaderShowsSelected ==
    /\ opened # NoNode => chosen = {opened}
    /\ content # NoNode => opened # NoNode /\ content = mode

\* A skeleton stands for a request that will be answered.  The list's remains,
\* though, when an empty folder is selected while a list is loading.
SkeletonMeansRequest ==
    /\ loadingArticle => Current(opens) # {}
    /\ loading => Current(lists) # {} \/ onEmpty

\* When everything has been answered, the tree with the counts that the page
\* computed for itself is the server's, unless since it was asked for it could
\* not be loaded or was a copy, a removal's answer was lost, or a deletion that
\* nobody waited for has changed the server.
CountsReconcile ==
    deletions = {} /\ removal = NoRemoval /\ trees = {} /\ ~behind => tree = TreeOf(server)

\* A list that arrives is the selected node's: an answer never fills the list of
\* a node that has been left.  (A node that was deleted while its list was
\* loading leaves a list of no node.)
ListIsOfNode ==
    [][list' \subseteq list \/ deletions' # deletions \/ node = NoNode
       \/ list' \subseteq ArticlesOf(node)]_dashboardVars
==============================================================================
