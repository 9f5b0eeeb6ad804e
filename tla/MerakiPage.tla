------------------------------ MODULE MerakiPage ------------------------------
(***************************************************************************)
(* The Meraki page: ui/src/hooks/useMerakiTopology.ts with the handlers of *)
(* App.tsx, over the tables of SnapshotCache, which it saves to and boots  *)
(* from.                                                                   *)
(*                                                                         *)
(* A refresh is a task that awaits one fetch after the other, and draws    *)
(* what it gets.  Of a topology, only the sites are told apart that its    *)
(* devices (l2) and subnets (l3) belong to.  An abort rejects the fetch    *)
(* its refresh awaits; the refresh ends in a step of its own, whenever the *)
(* browser gets to it.                                                     *)
(***************************************************************************)
EXTENDS SnapshotCache, FiniteSets, SequencesExt

CONSTANTS Sites, All,  (* the networks, and null: all of them               *)
          MyOrg,
          Slots,       (* for the refreshes in flight at one time            *)
          Seeds,       (* what earlier pages saved                           *)
          Budgets      (* bound: how often the user and the network may act, *)
                       (* or other pages do instead                          *)

Acts == {"select", "button", "miss", "back", "save", "reload", "others"}

ASSUME PageAssumption ==
    /\ Savers # {} /\ Nothing \notin Slots
    /\ IsFiniteSet(Sites) /\ All \notin Sites
    /\ Budgets \subseteq [Acts -> Nat]

Targets == Sites \cup {All}
Order == SetToSeq(Sites)

VARIABLES cache,    (* cacheRef: an entry, or Nothing, of each target        *)
          local,    (* the copy in localStorage, or Nothing                  *)
          tasks,    (* the calls of refresh that have not returned           *)
          current,  (* abortControllerRef: the task it would abort           *)
          ui,       (* the state of the hook and of App                      *)
          boot,     (* the effect of App that fills the hook                 *)
          posts,    (* snapshots on their way to the server                  *)
          strayed,  (* a history: a refresh that nothing can abort draws, or *)
                    (* the selection has moved without a drawing             *)
          budget

pageVars == <<cache, local, tasks, current, ui, boot, posts, strayed, budget>>
allVars == <<vars, pageVars>>

\* Other pages use the tables, while this one is idle.
others == budget["others"] > 0

NoTask == [at |-> "idle", target |-> All, site |-> 1, aborted |-> FALSE,
           l2 |-> {}, l3 |-> {}, after |-> Nothing]
NoCache == [k \in Targets |-> Nothing]

\* The page as it opens with what localStorage has.
Opened(kept) ==
    LET entry == IF kept = Nothing THEN Nothing ELSE kept.cache[kept.selected]
    IN [selected |-> IF kept = Nothing THEN All ELSE kept.selected,
        known |-> kept # Nothing /\ kept.known,
        l2 |-> IF entry = Nothing THEN {} ELSE entry.l2,
        l3 |-> IF entry = Nothing THEN {} ELSE entry.l3,
        refreshing |-> FALSE, view |-> "map", timers |-> {}]

Booting(page) == [at |-> IF page.known THEN "done" ELSE "seed", selected |-> page.selected]

PageInit ==
    /\ Init
    /\ cache = NoCache /\ local = Nothing
    /\ tasks = [t \in Slots |-> NoTask] /\ current = Nothing
    /\ ui = Opened(Nothing) /\ boot = Booting(ui)
    /\ posts = {} /\ strayed = FALSE
    /\ budget \in Budgets
    /\ ~others => durable \in {Empty} \cup {Stored(s) : s \in Seeds}

Spend(e) == budget[e] > 0 /\ budget' = [budget EXCEPT ![e] = @ - 1]

Live(t) == tasks[t].at # "idle"
Drawing(all) == {t \in Slots : all[t].at # "idle" /\ ~all[t].aborted}

\* A refresh draws that abortControllerRef does not hold any more.
Astray == Drawing(tasks') \ {current'} # {}

\* The effect that persists the cache, after a change of what it depends on;
\* stamped: lastUpdated is one of it.
Persist(stamped) ==
    local' = IF /\ stamped \/ ui'.selected # ui.selected \/ ui'.known # ui.known
                /\ ui'.known \/ cache' # NoCache
               THEN [selected |-> ui'.selected, known |-> ui'.known, cache |-> cache']
               ELSE local

-----------------------------------------------------------------------------
(***************************************************************************)
(* refresh, until its first await.                                         *)
(***************************************************************************)
Abort(all) == IF current = Nothing THEN all ELSE [all EXCEPT ![current].aborted = TRUE]

\* The selection a snapshot saved after it will carry, or Nothing for none.
Begun(target, after) == [NoTask EXCEPT !.at = "l2", !.target = target, !.after = after]

\* All networks are refreshed from the list of networks; without it, refresh
\* throws before it awaits anything.
refresh(page, target, after) ==
    LET fits == target # All \/ page.known
        slot == CHOOSE t \in Slots : ~Live(t)
        cleared == [page EXCEPT !.l2 = {}, !.l3 = {}, !.refreshing = fits]
    IN /\ \E t \in Slots : ~Live(t)
       /\ tasks' = IF fits THEN [Abort(tasks) EXCEPT ![slot] = Begun(target, after)] ELSE Abort(tasks)
       /\ current' = IF fits THEN slot ELSE Nothing
       /\ ui' = cleared
       /\ strayed' = (Astray \/ ("site" \in page.timers /\ target # page.selected))
       /\ UNCHANGED cache

\* A slip: what is in flight goes on.
HydrateBeside(page, entry) ==
    /\ UNCHANGED <<tasks, current>>
    /\ ui' = [page EXCEPT !.l2 = entry.l2, !.l3 = entry.l3, !.refreshing = FALSE]
    /\ strayed' = Astray

hydrate(page, entry) ==
    /\ tasks' = Abort(tasks) /\ current' = Nothing
    /\ ui' = [page EXCEPT !.l2 = entry.l2, !.l3 = entry.l3, !.refreshing = FALSE]
    /\ strayed' = Astray

filterByNetwork(entry, n) == [l2 |-> entry.l2 \cap {n}, l3 |-> entry.l3 \cap {n}]

\* page is the state of App, with the new selection.
selectNetwork(page) ==
    LET id == page.selected
    IN \/ /\ cache[id] # Nothing
          /\ hydrate(page, cache[id]) /\ UNCHANGED cache
       \/ /\ cache[id] = Nothing /\ id # All /\ cache[All] # Nothing
          /\ cache' = [cache EXCEPT ![id] = filterByNetwork(cache[All], id)]
          /\ hydrate(page, cache'[id])
       \/ /\ cache[id] = Nothing /\ (id = All \/ cache[All] = Nothing)
          /\ refresh(page, id, Nothing)

-----------------------------------------------------------------------------
(***************************************************************************)
(* What the user does.  The map lists the sites from a cache of its own,   *)
(* before the networks are known.                                          *)
(***************************************************************************)
handleSelectSite(n) ==
    /\ ui.view = "map" /\ Spend("select")
    /\ selectNetwork([ui EXCEPT !.selected = n, !.timers = @ \cup {"site"}])
    /\ Persist(FALSE)
    /\ UNCHANGED <<vars, boot, posts>>

handleNetworkChange(id) ==
    /\ ui.known /\ Spend("select")
    /\ selectNetwork([ui EXCEPT !.selected = id, !.view = IF id = All THEN @ ELSE "site"])
    /\ Persist(FALSE)
    /\ UNCHANGED <<vars, boot, posts>>

\* 400 milliseconds to a site, 300 to the map.
ViewTimer(v) ==
    /\ v \in ui.timers
    /\ ui' = [ui EXCEPT !.view = v, !.timers = @ \ {v}]
    /\ UNCHANGED <<vars, cache, local, tasks, current, boot, posts, strayed, budget>>

handleBackToMap ==
    /\ ui.view = "site" /\ Spend("back")
    /\ ui' = [ui EXCEPT !.timers = @ \cup {"map"}]
    /\ UNCHANGED <<vars, cache, local, tasks, current, boot, posts, strayed>>

\* The button: of the map, all networks, saved afterwards by a saveSnapshot
\* that keeps the selection of this moment; of a site, the selected one.
RefreshButton ==
    /\ ~ui.refreshing /\ Spend("button")
    /\ IF ui.view = "map" THEN refresh(ui, All, ui.selected) ELSE refresh(ui, ui.selected, Nothing)
    /\ Persist(FALSE)
    /\ UNCHANGED <<vars, boot, posts>>

\* A body of saveSnapshot.
Body(selected) == [org |-> MyOrg, selected |-> selected, topology |-> cache']

Saved(selected) == IF ui.known /\ cache' # NoCache THEN posts \cup {Body(selected)} ELSE posts

SaveButton ==
    /\ Spend("save")
    /\ UNCHANGED <<vars, cache, local, tasks, current, ui, boot, strayed>>
    /\ posts' = Saved(ui.selected)

-----------------------------------------------------------------------------
(***************************************************************************)
(* refresh, from one await to the next.                                    *)
(***************************************************************************)
Site(t) == IF tasks[t].target = All THEN Order[tasks[t].site] ELSE tasks[t].target

\* The finally: of any refresh, an aborted one too.
End(t, page) ==
    /\ tasks' = [tasks EXCEPT ![t] = NoTask]
    /\ ui' = [page EXCEPT !.refreshing = FALSE]
    /\ current' = Nothing

Resolve(t) == posts' = IF tasks[t].after = Nothing THEN posts ELSE Saved(tasks[t].after)

\* The refresh goes on to its next fetch.
Await(t, task, page) ==
    /\ tasks' = [tasks EXCEPT ![t] = task] /\ ui' = page
    /\ UNCHANGED <<current, cache, posts, budget>>

\* A refresh of one site fails with its first fetch that does; of all sites
\* it goes on without what it missed.
Fails(t) ==
    /\ tasks[t].at \in {"l2", "l3"} /\ Spend("miss")
    /\ IF tasks[t].target # All
         THEN UNCHANGED cache /\ End(t, ui) /\ Resolve(t)
         ELSE /\ tasks' = [tasks EXCEPT ![t].at = IF @ = "l2" THEN "l3" ELSE "clients"]
              /\ ui' = IF tasks[t].at = "l2" THEN [ui EXCEPT !.l2 = tasks[t].l2] ELSE [ui EXCEPT !.l3 = tasks[t].l3]
              /\ UNCHANGED <<current, cache, posts>>

GotL2(t) ==
    /\ tasks[t].at = "l2"
    /\ LET l2 == tasks[t].l2 \cup {Site(t)}
       IN Await(t, [tasks[t] EXCEPT !.at = "l3", !.l2 = l2], [ui EXCEPT !.l2 = l2])

GotL3(t) ==
    /\ tasks[t].at = "l3"
    /\ LET l3 == tasks[t].l3 \cup {Site(t)}
       IN Await(t, [tasks[t] EXCEPT !.at = "clients", !.l3 = l3], [ui EXCEPT !.l3 = l3])

\* Without clients, or without an answer, nothing is drawn.
GotClients(t) ==
    /\ tasks[t].at = "clients"
    /\ \E l2 \in {tasks[t].l2, tasks[t].l2 \cup {Site(t)}}, draws \in BOOLEAN :
         /\ l2 # tasks[t].l2 => draws
         /\ Await(t, [tasks[t] EXCEPT !.at = "details", !.l2 = l2], IF draws THEN [ui EXCEPT !.l2 = l2] ELSE ui)

\* A slip: the entry is stored for the network selected by now.
KeySelected(t) == ui.selected

cacheKey(t) == Site(t)

\* With or without the details: the entry of the site, then the next one, or
\* the entry of all and the end.
GotDetails(t) ==
    LET task == tasks[t]
        got == [l2 |-> task.l2, l3 |-> task.l3]
        more == task.target = All /\ task.site < Len(Order)
        stored == [cache EXCEPT ![cacheKey(t)] = filterByNetwork(got, Site(t))]
    IN /\ task.at = "details" /\ UNCHANGED budget
       /\ cache' = IF task.target = All /\ ~more THEN [stored EXCEPT ![All] = got] ELSE stored
       /\ IF more
            THEN /\ tasks' = [tasks EXCEPT ![t].site = @ + 1, ![t].at = "l2"]
                 /\ UNCHANGED <<ui, current, posts>>
            ELSE End(t, ui) /\ Resolve(t)

\* lastUpdated is set where a refresh has got everything.
Goes(t) ==
    /\ Live(t) /\ ~tasks[t].aborted
    /\ Fails(t) \/ GotL2(t) \/ GotL3(t) \/ GotClients(t) \/ GotDetails(t)
    /\ Persist(tasks[t].at = "details" /\ tasks'[t] = NoTask)
    /\ UNCHANGED <<vars, boot, strayed>>

\* AbortError: refresh returns, and who awaits it goes on.
Aborted(t) ==
    /\ Live(t) /\ tasks[t].aborted
    /\ End(t, ui) /\ UNCHANGED cache /\ Resolve(t)
    /\ UNCHANGED <<vars, local, boot, strayed, budget>>

-----------------------------------------------------------------------------
(***************************************************************************)
(* Boot: the tables of the server, else the list of networks.              *)
(***************************************************************************)
AskSeed(l) ==
    /\ ~others /\ boot.at = "seed" /\ ReadMeta(l)
    /\ boot' = [boot EXCEPT !.at = "loading"]
    /\ UNCHANGED <<cache, local, tasks, current, ui, posts, strayed, budget>>

loadSeedFile(l) ==
    LET seen == loader[l].seen
        found == seen.meta # Nothing /\ (seen.networks # Nothing \/ seen.topology # Nothing)
        kept == IF seen.topology = Nothing THEN NoCache ELSE seen.topology.topology
        entry == kept[seen.meta.selected]
    IN /\ ~others /\ boot.at = "loading" /\ Answer(l)
       /\ boot' = [boot EXCEPT !.at = IF found THEN "done" ELSE "status"]
       /\ IF found
            THEN /\ cache' = kept
                 /\ ui' = [ui EXCEPT !.known = seen.networks # Nothing, !.selected = seen.meta.selected,
                                     !.l2 = IF entry = Nothing THEN @ ELSE entry.l2,
                                     !.l3 = IF entry = Nothing THEN @ ELSE entry.l3]
                 /\ strayed' = (\/ Drawing(tasks) # {}
                                \/ entry = Nothing /\ ui.l2 \cup ui.l3 # {})
            ELSE UNCHANGED <<cache, ui, strayed>>
       /\ Persist(found)
       /\ UNCHANGED <<tasks, current, posts, budget>>

\* The first network is selected if none was when the page opened.
fetchNetworks ==
    /\ boot.at = "status" /\ boot' = [boot EXCEPT !.at = "done"]
    /\ \/ /\ ui' = [ui EXCEPT !.known = Sites # {},
                            !.selected = IF boot.selected = All /\ Sites # {} THEN Order[1] ELSE @]
          /\ UNCHANGED budget
       \/ Spend("miss") /\ UNCHANGED ui
    /\ strayed' = (strayed \/ ui'.selected # ui.selected)
    /\ UNCHANGED <<vars, cache, tasks, current, posts>>
    /\ Persist(FALSE)

\* The user reloads the page: what was in flight is gone.
Reload ==
    /\ Spend("reload")
    /\ cache' = IF local = Nothing THEN NoCache ELSE local.cache
    /\ ui' = Opened(local) /\ boot' = Booting(ui')
    /\ tasks' = [t \in Slots |-> NoTask] /\ current' = Nothing /\ strayed' = FALSE
    /\ loader' = [l \in Loaders |-> Unread] /\ quiet' = {}
    /\ UNCHANGED <<durable, work, holder, saver, crashes, siteSaves, local, posts>>

\* A body arrives.
Post(t, s) ==
    /\ s \in posts /\ Begin(t, s) /\ posts' = posts \ {s}
    /\ UNCHANGED <<cache, local, tasks, current, ui, boot, strayed, budget>>

-----------------------------------------------------------------------------
User ==
    \/ \E n \in Sites : handleSelectSite(n)
    \/ \E id \in Targets : handleNetworkChange(id)
    \/ \E v \in {"map", "site"} : ViewTimer(v)
    \/ handleBackToMap \/ RefreshButton \/ SaveButton \/ Reload

Tables ==
    /\ \/ \E t \in Savers : SaverStep(t)
       \/ \E l \in Loaders : ReadOrg(l) \/ ReadNetworks(l) \/ ReadTopology(l)
       \/ others /\ Next
    /\ UNCHANGED pageVars

Page ==
    \/ User
    \/ \E t \in Slots : Goes(t) \/ Aborted(t)
    \/ \E l \in Loaders : AskSeed(l) \/ loadSeedFile(l)
    \/ fetchNetworks
    \/ \E s \in posts : Post(CHOOSE t \in Savers : TRUE, s)

PageNext == Tables \/ (~others /\ Page)

PageSpec == PageInit /\ [][PageNext]_allVars

-----------------------------------------------------------------------------
\* The view of a site shows what belongs to the selected network, whatever
\* refreshes were begun, aborted or replaced on the way, and however late
\* their answers are; unless two refreshes draw at once, or the selection was
\* moved by the boot.
ShowsSelected ==
    ui.view = "site" /\ ui.selected # All /\ ~strayed => ui.l2 \cup ui.l3 \subseteq {ui.selected}

OfTheirSites(entries) ==
    \A n \in Sites : entries[n] # Nothing => entries[n].l2 \cup entries[n].l3 \subseteq {n}

\* The entry of a site holds nothing of another one, in the page, in its
\* localStorage and in the tables, although the selection moves while refreshes
\* are in flight.
EntriesOfTheirSites ==
    /\ OfTheirSites(cache)
    /\ local # Nothing => OfTheirSites(local.cache)
    /\ ~others /\ durable.topology # Nothing => OfTheirSites(durable.topology.topology)

\* What earlier pages saved.
ASSUME SeedsAssumption ==
    \A s \in Seeds : /\ s.selected \in Targets
                      /\ s.topology = [k \in Targets |-> s.topology[k]] /\ OfTheirSites(s.topology)

\* The overlay is shown and the button disabled for a refresh that is at work.
OverlayMeansWork == ui.refreshing => Drawing(tasks) # {}

\* Refuted: "Cancel any previous in-flight refresh" (useMerakiTopology.ts:298).
AtMostOneRefresh == Cardinality(Drawing(tasks)) <= 1

\* Refuted: the effect "covers every mutation path" (useMerakiTopology.ts:194).
AllIsPersisted == cache # NoCache => local # Nothing /\ local.cache = cache
=============================================================================
