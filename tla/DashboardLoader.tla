--------------------------- MODULE DashboardLoader ---------------------------
(***************************************************************************)
(* loaders/dashboards: the dashboards of the ConfigMaps are brought into   *)
(* Grafana by a worker that handles the ConfigMaps one by one, and what    *)
(* nobody names any more is taken out of it, by the worker and by a sweep  *)
(* every ten minutes.  Worker and sweep exclude one another; the informer  *)
(* changes the ConfigMaps they read at any moment, Grafana's search lags   *)
(* behind its dashboards, and any of the calls to Grafana can fail.        *)
(***************************************************************************)
EXTENDS Naturals, FiniteSets, SequencesExt

CONSTANTS
    DashMaps,      \* ConfigMaps
    Uids,          \* of dashboards
    MapContents,   \* for each ConfigMap, what it can hold: see Content
    MaxMapChanges, \* bound: changes of the ConfigMaps
    MaxRetries,    \* maxDashboardRetry
    MaxDashFaults  \* bound: failed calls, dashboards made by hand, lags, restarts

General == "general"  \* Grafana's own folder: it is not created and not deleted
Folders == {General} \cup {x.folder : x \in UNION {MapContents[c] : c \in DashMaps}}

\* good: the dashboards that can be parsed; broken: those that cannot, by the
\* UID made from the name; home: the one labelled as home dashboard, if any
Content == [desired : BOOLEAN, good : SUBSET Uids, broken : SUBSET Uids, folder : Folders,
            home : SUBSET Uids]

\* Deleted, or without the label that makes it a dashboard
NoContent == [desired |-> FALSE, good |-> {}, broken |-> {}, folder |-> General, home |-> {}]

Placed == [there : BOOLEAN, folder : Folders]
Nowhere == [there |-> FALSE, folder |-> General]

Untracked == [known |-> FALSE, uids |-> {}, folder |-> General]

VARIABLES
    maps,      \* the ConfigMaps, in the informer's index
    keys,      \* the work queue
    later,     \* to be queued after a delay, or when the worker is done with it
    retries,   \* NumRequeues
    work,      \* the item the worker is at, with the ConfigMap it has read
    uidMap,    \* what the loader remembers of each ConfigMap
    lock,      \* "sweep": a sweep holds it and has listed the dashboards; "delete": it
               \* has read the ConfigMaps too and is to delete; "worker": the worker has
               \* waited for it and is next
    listed,    \* that list
    expected,  \* the dashboards those ConfigMaps named: expectedUIDs
    started,   \* the first sweep has succeeded, the worker runs
    boards,    \* Grafana's dashboards
    folders,   \* and folders
    homeBoard, \* and home dashboard
    searched,  \* what Grafana's search finds
    abandoned, \* the ConfigMaps the worker has given up, until it handles them again
               \* (for a property)
    mapChanges, dashFaults

dashVars == <<maps, keys, later, retries, work, uidMap, lock, listed, expected, started,
              boards, folders, homeBoard, searched, abandoned, mapChanges, dashFaults>>

Idle == [busy |-> FALSE, key |-> CHOOSE c \in DashMaps : TRUE, map |-> NoContent]

DashTypeOK ==
    /\ \A c \in DashMaps : maps[c] \in MapContents[c] \cup {NoContent}
    /\ keys \in BoundedSeq(DashMaps, Cardinality(DashMaps)) /\ later \subseteq DashMaps
    /\ retries \in [DashMaps -> 0..MaxRetries]
    /\ work \in [busy : BOOLEAN, key : DashMaps, map : Content]
    /\ uidMap \in [DashMaps -> [known : BOOLEAN, uids : SUBSET Uids, folder : Folders]]
    /\ {boards, searched, listed} \subseteq [Uids -> Placed]
    /\ folders \subseteq Folders \ {General} /\ homeBoard \subseteq Uids
    /\ lock \in {"free", "sweep", "delete", "worker"} /\ started \in BOOLEAN
    /\ expected \subseteq Uids /\ abandoned \subseteq DashMaps
    /\ mapChanges \in 0..MaxMapChanges /\ dashFaults \in 0..MaxDashFaults

\* isDesiredDashboardConfigmap
Desired == {c \in DashMaps : maps[c].desired}

DashInit ==
    /\ maps = [c \in DashMaps |-> NoContent]
    /\ keys = <<>> /\ later = {} /\ retries = [c \in DashMaps |-> 0] /\ work = Idle
    /\ uidMap = [c \in DashMaps |-> Untracked]
    /\ lock = "free" /\ started = FALSE
    /\ boards = [u \in Uids |-> Nowhere] /\ listed = boards /\ searched = boards
    /\ folders = {} /\ homeBoard = {} /\ expected = {} /\ abandoned = {}
    /\ mapChanges = 0 /\ dashFaults = 0

-----------------------------------------------------------------------------
(* Grafana                                                                 *)

\* A fault happens, or none
Faulty(faulty) ==
    /\ faulty => dashFaults < MaxDashFaults
    /\ dashFaults' = IF faulty THEN dashFaults + 1 ELSE dashFaults

\* The search keeps up with the dashboards, unless it lags
Searched(b, lags) == IF lags \/ searched # boards THEN searched ELSE b

\* IsEmpty asks the search
IsEmpty(search, f) == \A u \in Uids : search[u].there => search[u].folder # f

\* DeleteFolder: with the dashboards in it
DeleteFolders(b, gone) ==
    [u \in Uids |-> IF b[u].there /\ b[u].folder \in gone THEN Nowhere ELSE b[u]]

DeleteDashboards(b, gone) == [u \in Uids |-> IF u \in gone THEN Nowhere ELSE b[u]]

\* The search catches up
Index ==
    /\ searched # boards
    /\ searched' = boards
    /\ UNCHANGED <<maps, keys, later, retries, work, uidMap, lock, listed, expected, started,
                   boards, folders, homeBoard, abandoned, mapChanges, dashFaults>>

\* Someone makes a dashboard in Grafana
MadeByHand(u, f) ==
    /\ Faulty(TRUE)
    /\ ~boards[u].there /\ f \in folders \cup {General}
    /\ boards' = [boards EXCEPT ![u] = [there |-> TRUE, folder |-> f]]
    /\ searched' = Searched(boards', FALSE)
    /\ UNCHANGED <<maps, keys, later, retries, work, uidMap, lock, listed, expected, started,
                   folders, homeBoard, abandoned, mapChanges>>

-----------------------------------------------------------------------------
(* The informer and the work queue                                         *)

\* Add: an item that the worker is at waits until it is done
Add(c) ==
    IF work.busy /\ work.key = c
    THEN later' = later \cup {c} /\ UNCHANGED keys
    ELSE keys' = (IF Contains(keys, c) THEN keys ELSE Append(keys, c)) /\ UNCHANGED later

AddLater(c) ==
    /\ c \in later /\ ~(work.busy /\ work.key = c)
    /\ later' = later \ {c}
    /\ keys' = IF Contains(keys, c) THEN keys ELSE Append(keys, c)
    /\ UNCHANGED <<maps, retries, work, uidMap, lock, listed, expected, started, boards,
                   folders, homeBoard, searched, abandoned, mapChanges, dashFaults>>

\* shouldEnqueue, and every deletion
shouldEnqueue(c, new) == maps[c].desired \/ new.desired

ChangeMap(c, new) ==
    /\ mapChanges < MaxMapChanges /\ new # maps[c]
    /\ maps' = [maps EXCEPT ![c] = new]
    /\ IF shouldEnqueue(c, new) THEN Add(c) ELSE UNCHANGED <<keys, later>>
    /\ mapChanges' = mapChanges + 1
    /\ UNCHANGED <<retries, work, uidMap, lock, listed, expected, started, boards, folders,
                   homeBoard, searched, abandoned, dashFaults>>

\* The resync of the informer: an update to what it was
ResyncMap(c) ==
    /\ started /\ shouldEnqueue(c, maps[c])
    /\ Add(c)
    /\ UNCHANGED <<maps, retries, work, uidMap, lock, listed, expected, started, boards,
                   folders, homeBoard, searched, abandoned, mapChanges, dashFaults>>

-----------------------------------------------------------------------------
(* The worker                                                              *)

\* processNextItem and syncHandler, up to the lock
WorkerReads ==
    /\ started /\ ~work.busy /\ keys # <<>>
    /\ keys' = Tail(keys)
    /\ work' = [busy |-> TRUE, key |-> Head(keys), map |-> maps[Head(keys)]]
    /\ UNCHANGED <<maps, later, retries, uidMap, lock, listed, expected, started, boards,
                   folders, homeBoard, searched, abandoned, mapChanges, dashFaults>>

lockNothing == lock \in {"free", "sweep", "delete", "worker"}

\* lockReconcile
lockReconcile == lock \notin {"sweep", "delete"}

\* processNextItem: what becomes of the item
Handled(failed) ==
    LET again == failed /\ retries[work.key] < MaxRetries IN
    /\ later' = IF again THEN later \cup {work.key} ELSE later
    /\ retries' = [retries EXCEPT ![work.key] = IF again THEN @ + 1 ELSE 0]
    /\ work' = Idle
    /\ abandoned' = IF failed /\ ~again THEN abandoned \cup {work.key} ELSE abandoned \ {work.key}
    /\ UNCHANGED keys

\* cleanupFolderIfEmpty, of some folders: the ones it deletes.  A folder that is
\* not empty, or stuck because a call about it fails, is an error; one in unlisted,
\* which is not found as the list of folders fails, is taken to be gone
Emptied(search, fs) == {f \in fs : IsEmpty(search, f)}

\* deleteTrackedUIDs.  failing: the dashboards whose deletion fails
deleteTrackedUIDs(failing, unlisted, stuck, lags) ==
    LET c == work.key
        tracked == uidMap[c]
        left == DeleteDashboards(boards, tracked.uids \ failing)
        mine == IF failing = {} THEN ({tracked.folder} \cap folders) \ unlisted ELSE {}
        gone == Emptied(Searched(left, lags), mine) \ stuck
    IN  /\ failing \subseteq tracked.uids
        /\ uidMap' = [uidMap EXCEPT ![c] =
               IF failing = {} THEN Untracked ELSE [@ EXCEPT !.uids = failing]]
        /\ boards' = DeleteFolders(left, gone)
        /\ folders' = folders \ gone
        /\ searched' = Searched(boards', lags)
        /\ Handled(failing # {} \/ gone # mine)
        /\ UNCHANGED homeBoard

\* createCustomFolder fails: of a new folder nothing is left, or an empty one; one
\* that is there is not found as the list of folders fails
createCustomFolder(f) ==
    /\ f # General
    /\ folders' \in {folders, folders \cup {f}}
    /\ Handled(TRUE)
    /\ UNCHANGED <<uidMap, boards, homeBoard, searched>>

\* updateDashboard.  failing: the dashboards that are not written or not deleted
updateDashboard(failing, unlisted, stuck, lags) ==
    LET c == work.key
        new == work.map
        old == uidMap[c]
        removed == old.uids \ new.good
        all == folders \cup ({new.folder} \ {General})
        written == [u \in Uids |-> IF u \in new.good \ failing
                                   THEN [there |-> TRUE, folder |-> new.folder]
                                   ELSE boards[u]]
        left == DeleteDashboards(written, removed \ failing)
        tidy == (all \ unlisted) \cap ((IF new.good = {} THEN {new.folder} ELSE {})
                                          \cup ({old.folder} \ {new.folder}))
        gone == Emptied(Searched(left, lags), tidy) \ stuck
    IN  /\ failing \subseteq new.good \cup removed
        /\ uidMap' = [uidMap EXCEPT ![c] = [known |-> TRUE,
               uids |-> new.good \cup (removed \cap failing), folder |-> new.folder]]
        /\ boards' = DeleteFolders(left, gone)
        /\ folders' = all \ gone
        /\ searched' = Searched(boards', lags)
        /\ homeBoard' = IF new.home \cap (new.good \ failing) # {} THEN new.home ELSE homeBoard
        /\ Handled(failing # {} \/ gone # tidy)

\* The rest of syncHandler, under the lock
WorkerHandles ==
    /\ work.busy /\ lockReconcile
    /\ \/ \E failing \in SUBSET Uids, unlisted, stuck \in SUBSET (Folders \ {General}),
             lags \in BOOLEAN :
             /\ Faulty(failing # {} \/ unlisted # {} \/ stuck # {} \/ lags)
             /\ IF work.map.desired THEN updateDashboard(failing, unlisted, stuck, lags)
                                    ELSE deleteTrackedUIDs(failing, unlisted, stuck, lags)
       \/ Faulty(TRUE) /\ work.map.desired /\ createCustomFolder(work.map.folder)
    /\ lock' = "free"
    /\ UNCHANGED <<maps, listed, expected, started, mapChanges>>

\* The lock is not had within reconcileTimeout
WorkerTimesOut ==
    /\ work.busy /\ ~lockReconcile /\ Faulty(TRUE)
    /\ Handled(TRUE)
    /\ UNCHANGED <<maps, uidMap, lock, listed, expected, started, boards, folders,
                   homeBoard, searched, mapChanges>>

-----------------------------------------------------------------------------
(* The sweep                                                               *)

SweepLists ==
    /\ lock = "free"
    /\ lock' = "sweep" /\ listed' = searched
    /\ UNCHANGED <<maps, keys, later, retries, work, uidMap, expected, started, boards,
                   folders, homeBoard, searched, abandoned, mapChanges, dashFaults>>

\* resolveDashboardUID: what cannot be parsed is expected by its name
Expected == UNION {maps[c].good \cup maps[c].broken : c \in Desired}

SweptAsTracked(c) == IF maps[c].desired THEN uidMap[c] ELSE Untracked

\* The map after a sweep: the failed deletions of an unchanged ConfigMap stay
\* (uidsMatch)
Swept(c) ==
    LET now == maps[c].good \cup maps[c].broken
    IN  CASE ~maps[c].desired -> Untracked
          [] maps[c].desired /\ uidMap[c].known /\ uidMap[c].folder = maps[c].folder
               /\ now \subseteq uidMap[c].uids -> uidMap[c]
          [] OTHER -> [known |-> TRUE, uids |-> now, folder |-> maps[c].folder]

\* cleanupOrphanDashboards, up to the map: the ConfigMaps are read from the index,
\* and can change from here on
SweepScans ==
    /\ lock = "sweep"
    /\ expected' = Expected
    /\ uidMap' = [c \in DashMaps |-> Swept(c)]
    /\ lock' = "delete"
    /\ UNCHANGED <<maps, keys, later, retries, work, listed, started, boards, folders,
                   homeBoard, searched, abandoned, mapChanges, dashFaults>>

\* cleanupAllEmptyFolders: no expected dashboard was listed in it
EmptyFolders == {f \in folders : \A u \in expected : listed[u].there => listed[u].folder # f}

\* The deletions, one after the other: none of them depends on what happens
\* between them.  kept: orphans whose deletion fails; stuck: folders that are not
\* deleted, or all of them as they cannot be listed
deleteOrphans(kept, stuck) ==
    LET orphans == {u \in Uids : listed[u].there} \ expected
        gone == EmptyFolders \ stuck
    IN  /\ kept \subseteq orphans
        /\ boards' = DeleteFolders(DeleteDashboards(boards, orphans \ kept), gone)
        /\ folders' = folders \ gone

\* The end of a sweep: who waits for the lock is next
SweepEnds ==
    /\ lock' = (IF work.busy THEN "worker" ELSE "free")
    /\ listed' = [u \in Uids |-> Nowhere] /\ expected' = {}

SweepDeletes ==
    /\ lock = "delete"
    /\ \E kept \in SUBSET Uids, stuck \in SUBSET (Folders \ {General}) :
         Faulty(kept # {} \/ stuck # {}) /\ deleteOrphans(kept, stuck)
    /\ searched' = Searched(boards', FALSE)
    /\ SweepEnds /\ started' = TRUE
    /\ UNCHANGED <<maps, keys, later, retries, work, uidMap, homeBoard, abandoned, mapChanges>>

\* The dashboards cannot be listed, or the time of the sweep is up
SweepFails ==
    /\ lock = "sweep" /\ Faulty(TRUE)
    /\ SweepEnds
    /\ UNCHANGED <<maps, keys, later, retries, work, uidMap, started, boards, folders,
                   homeBoard, searched, abandoned, mapChanges>>

\* Run: the queue starts with every ConfigMap, the memory is empty
RestartLoader ==
    /\ Faulty(TRUE)
    /\ keys' \in SetToSeqs(Desired) /\ later' = {} /\ retries' = [c \in DashMaps |-> 0] /\ work' = Idle
    /\ uidMap' = [c \in DashMaps |-> Untracked]
    /\ lock' = "free" /\ listed' = [u \in Uids |-> Nowhere] /\ started' = FALSE
    /\ expected' = {} /\ abandoned' = {}
    /\ UNCHANGED <<maps, boards, folders, homeBoard, searched, mapChanges>>

-----------------------------------------------------------------------------
DashNext ==
    \/ Index \/ WorkerReads \/ WorkerHandles \/ WorkerTimesOut \/ RestartLoader
    \/ SweepLists \/ SweepScans \/ SweepDeletes \/ SweepFails
    \/ \E u \in Uids, f \in Folders : MadeByHand(u, f)
    \/ \E c \in DashMaps :
         \/ ResyncMap(c) \/ AddLater(c)
         \/ \E new \in MapContents[c] \cup {NoContent} : ChangeMap(c, new)

DashSpec == DashInit /\ [][DashNext]_dashVars

\* The sweep and the resync come every ten minutes; the queue is served in
\* order, and so are those who wait for the lock
DashFair ==
    /\ WF_dashVars(Index) /\ WF_dashVars(SweepLists) /\ WF_dashVars(SweepScans)
    /\ WF_dashVars(SweepDeletes)
    /\ WF_dashVars(WorkerReads) /\ WF_dashVars(WorkerHandles)
    /\ \A c \in DashMaps : WF_dashVars(ResyncMap(c)) /\ WF_dashVars(AddLater(c))

-----------------------------------------------------------------------------
\* What a ConfigMap says now is still to be handled
Queued(c) ==
    \/ Contains(keys, c) \/ c \in later
    \/ work.busy /\ work.key = c /\ work.map = maps[c]

\* A sweep takes a dashboard away that a ConfigMap names, as an orphan or with a
\* folder it believes empty, only if it has read that ConfigMap before the change
\* that names the dashboard, which the worker then still has to handle (and to
\* write the dashboard again), or has given up; never one whose ConfigMap has been
\* dealt with, however the worker waits for the lock, times out and retries while
\* the sweep is under way.  (Grafana's search must have listed the dashboard where
\* it is: a lag costs it until the next resync.)
SparesNamed ==
    lock = "delete" =>
        \A c \in Desired : \A u \in maps[c].good \cup maps[c].broken :
            (boards[u].there /\ listed[u] = boards[u] /\ boards'[u] # boards[u]) =>
                Queued(c) \/ c \in abandoned
SweepSparesNamed == [][SparesNamed]_dashVars

\* Once the ConfigMaps stay as they are, each dashboard they name is in Grafana,
\* in the folder asked for, and no other dashboard and no deserted folder is
\* left, although deletions fail, retries run out, the loader is restarted and
\* ConfigMaps share folders and dashboards
Named(u) == {c \in Desired : u \in maps[c].good}
DashboardsRight ==
    /\ \A u \in Uids :
         /\ Named(u) # {} => boards[u].there
                             /\ \E c \in Named(u) : boards[u].folder = maps[c].folder
         /\ boards[u].there => u \in Expected
    /\ \A f \in folders : \E c \in Desired : maps[c].folder = f /\ maps[c].good # {}
DashboardsSettle == <>[]DashboardsRight
=============================================================================
