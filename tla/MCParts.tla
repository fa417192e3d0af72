------------------------------- MODULE MCParts --------------------------------
(***************************************************************************)
(* The smaller parts side by side: each behaviour is a behaviour of one of *)
(* them, and the others keep their initial state.                          *)
(***************************************************************************)
EXTENDS HostGate, Accounts, Folders, Migrator, MCRedirects, MailRelay, OfflineQueue,
        ContextMenus, ReaderBridge, FeedDiscovery, WorkerCache

CONSTANTS q1, q2, e1, e2, o1, o2

\* The folder q2 holds the subscription q1.
QueueNeeds(m) == IF m = q2 THEN {q1} ELSE {}

\* The address o1 offers two feeds and the address o2 one of them.
OfferedFeeds(a) == IF a = o1 THEN {e1, e2} ELSE {e2}

VARIABLE part

partsVars == <<part, gateVars, accountVars, folderVars, migratorVars, redirectVars,
               mailVars, queueVars, menuVars, bridgeVars, discoveryVars,
               workerCacheVars>>

Part == {"gate", "accounts", "folders", "migrator", "redirects", "mail", "queue",
         "menus", "bridge", "discovery", "cache"}

PartsInit ==
    /\ part \in Part
    /\ GateInit /\ AccountsInit /\ FoldersInit /\ MailInit /\ QueueInit
    /\ MigratorInit /\ (part # "migrator" => ~table /\ journal = {})
    /\ RedirectsInit /\ (part # "redirects" => hops = [u \in Url |-> Here])
    /\ MenusInit /\ (part # "menus" => front = CHOOSE q \in Page : TRUE)
    /\ part # "menus" => \A p \in Page : page[p].at = CHOOSE a \in Address : TRUE
    /\ BridgeInit /\ (part # "bridge" => ~installed /\ instance = "none")
    /\ DiscoveryInit /\ WorkerCacheInit
    /\ part # "discovery" => form = EmptyForm /\ cache = [f \in Feed |-> 0]

PartsNext ==
    /\ UNCHANGED part
    /\ \/ /\ part = "gate" /\ GateNext
          /\ UNCHANGED <<accountVars, folderVars, migratorVars, redirectVars,
                         mailVars, queueVars, menuVars, bridgeVars, discoveryVars,
                         workerCacheVars>>
       \/ /\ part = "accounts" /\ AccountsNext
          /\ UNCHANGED <<gateVars, folderVars, migratorVars, redirectVars,
                         mailVars, queueVars, menuVars, bridgeVars, discoveryVars,
                         workerCacheVars>>
       \/ /\ part = "folders" /\ FoldersNext
          /\ UNCHANGED <<gateVars, accountVars, migratorVars, redirectVars,
                         mailVars, queueVars, menuVars, bridgeVars, discoveryVars,
                         workerCacheVars>>
       \/ /\ part = "migrator" /\ MigratorNext
          /\ UNCHANGED <<gateVars, accountVars, folderVars, redirectVars, mailVars,
                         queueVars, menuVars, bridgeVars, discoveryVars,
                         workerCacheVars>>
       \/ /\ part = "redirects" /\ RedirectsNext
          /\ UNCHANGED <<gateVars, accountVars, folderVars, migratorVars, mailVars,
                         queueVars, menuVars, bridgeVars, discoveryVars,
                         workerCacheVars>>
       \/ /\ part = "mail" /\ MailNext
          /\ UNCHANGED <<gateVars, accountVars, folderVars, migratorVars,
                         redirectVars, queueVars, menuVars, bridgeVars,
                         discoveryVars, workerCacheVars>>
       \/ /\ part = "queue" /\ QueueNext
          /\ UNCHANGED <<gateVars, accountVars, folderVars, migratorVars,
                         redirectVars, mailVars, menuVars, bridgeVars,
                         discoveryVars, workerCacheVars>>
       \/ /\ part = "menus" /\ MenusNext
          /\ UNCHANGED <<gateVars, accountVars, folderVars, migratorVars,
                         redirectVars, mailVars, queueVars, bridgeVars,
                         discoveryVars, workerCacheVars>>
       \/ /\ part = "bridge" /\ BridgeNext
          /\ UNCHANGED <<gateVars, accountVars, folderVars, migratorVars,
                         redirectVars, mailVars, queueVars, menuVars,
                         discoveryVars, workerCacheVars>>
       \/ /\ part = "discovery" /\ DiscoveryNext
          /\ UNCHANGED <<gateVars, accountVars, folderVars, migratorVars,
                         redirectVars, mailVars, queueVars, menuVars, bridgeVars,
                         workerCacheVars>>
       \/ /\ part = "cache" /\ WorkerCacheNext
          /\ UNCHANGED <<gateVars, accountVars, folderVars, migratorVars,
                         redirectVars, mailVars, queueVars, menuVars, bridgeVars,
                         discoveryVars>>

PartsSpec == PartsInit /\ [][PartsNext]_partsVars

\* The types of all parts.
PartsTypeOK ==
    /\ GateTypeOK /\ AccountsTypeOK /\ FoldersTypeOK /\ MigratorTypeOK
    /\ RedirectsTypeOK /\ MailTypeOK /\ QueueTypeOK
    /\ MenusTypeOK /\ BridgeTypeOK /\ DiscoveryTypeOK /\ WorkerCacheTypeOK
==============================================================================
