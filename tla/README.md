# Roamux: a TLA+ model of the browser's stateful core

Roamux is an overlay on Chromium for macOS. Most of its patches are layout, branding and build
tooling; the part with state of its own, and with order-dependent behaviour, is under
`src/roamux/browser`. This project models that part, checks it with TLC on small instances and
proves the central properties with TLAPS for every value of the constants.

## 1. Inventory

Everything below runs on the browser's UI thread unless said otherwise. A handler there is not
interrupted, so a handler is one atomic action of a model, except where it calls code that calls
back before it returns.

| Component | State | Operations | Talks to |
|---|---|---|---|
| Traversal engine (`tab_visit/tab_traversal_controller.cc`) | frozen MRU order, landability mask, cursor | begin, step back/forward, current, cancel | called by the coordinator |
| Coordinator (`tab_visit/tab_visit_traversal_coordinator.cc`) | session log of settled visits, anchor, gesture flag, debounce timer, closed-tab cache, tombstones, clear generation | step, settle, cancel, record, closed, reopened, prepare/resync of a clear, journal loaded | bridge, journal service, tab strip, injected reopen function |
| Observer bridge (`tab_visit/tab_visit_observer_bridge.cc`) | none of its own besides observed strips | tab inserted, selected, removed | coordinator, journal service |
| Journal service and factory (`tab_visit/settled_visit_journal_*.cc`, clear hook) | a `SequenceBound` store | record, tab state, reads, clear | the store, on another sequence; replies on the UI thread |
| Visits store (`tab_visit/visits_store.cc`) | two SQL tables: `visits` (capped FIFO) and `tab_state` | append, upsert, reads, clear of a time range | - |
| Gesture watcher and commands (`tab_visit/tab_visit_gesture_watcher.cc`, `tab_visit_command.cc`) | the pressed chord | back, forward, release, Escape, reopen by uid | coordinator |
| Tab uid registry and helper (`tabs/tab_uid_service.cc`, `tab_uid_tab_helper.cc`) | two inverse maps uid/tab, a uid per WebContents | mint, adopt or restamp, unregister, discard hand-over | session restore, tab strip |
| Refresh-all scheduler (`tabs/initial_url_refresh_scheduler.cc`) | cursor, running, waiting, one timer, last start | start, cancel, settle, the three timer tasks | its delegate, the run |
| Refresh-all run, settle gate, command (`tabs/initial_url_refresh_run.cc`, `navigation_settle_gate.cc`, `refresh_all_initial_urls_command.cc`) | snapshot, observed contents, pending handle, the gate; a map of runs per browser | start item, navigation started, loading stopped, finished, second press | scheduler, WebContents |
| Initial-URL helper, menu, dialog, session data (`tabs/tab_initial_url_helper.cc`, `session_tab_extra_data.cc`, `reload_initial_url_command.cc`, `ui/tabs/initial_url_menu.cc`, `edit_initial_url_dialog.cc`) | per WebContents: URL, captured, user lock, a write still owed to the session; the session file | capture at a commit, restore, discard hand-over, duplicate, user edit, reload, rebuild of the session file | session restore, tab strip, the two reload commands |
| Updates (`updates/`) | per profile: a state machine's snapshot and the skipped version; per process: the owner, Sparkle's reply blocks, pending offer, byte counts | Sparkle's callbacks, check, download, skip, relaunch; profiles and About pages coming and going | Sparkle, the About page |
| Edge importer (`importer/`) | preflight facts, requested carriers, report, one stage at a time; directories on disk | run, preflight, secrets, localStorage, IndexedDB copy in the thread pool | Edge's files, keychain, ProfileWriter, storage service |
| Shortcut registry (`tabs/shortcut_registry.cc`, `shortcut_registry_mac.mm`, `ui/webui/roamux_shortcuts_handler.cc`) | a table of commands with their features; per profile, the overridden chords | list, rebind with its conflict checks, resolution of a key event | settings page, the refresh-all, traversal, reload and strip commands |
| Tab-strip placement and pinning (`ui/views/tabs/tab_strip_pin_controller*.cc`, `tab_strip_toggle_command.cc`, `tab_strip_placement.cc`, the position menu) | pinned, armed, suppressing; two locks, key handlers, a lock count; placement and hover prefs | shortcut, Esc, interaction, pointer, focus, lock reports, setting changes, full screen, attach and detach | the region view, which calls back whenever a lock is taken or dropped |
| Proxy settings (`proxy/proxy_config_builder.cc`, `ui/webui/roamux_proxy_handler.cc`) | none: reads and writes one pref over several layers | get, set, reset, open system settings, notifications | the settings page (messages), policy, extensions |
| Bookmark sub-folder groups, group double-click, new-tab placement (`bookmarks/subfolder_tab_groups.cc`, `tabs/group_header_double_click.cc`, `tabs/new_tab_placement.cc`) | the plans behind a prompt; one gesture record per group header | open all, confirm or refuse, press, release, drag, the bulk pass | bookmark model, tab strip model and its observers |
| Profiles, scheme, sign-in policy | constants and one-shot decisions | - | upstream |
| Build, release, patch tooling | - | - | not part of the running browser |

What is hard in it:

- *Two sequences.* The coordinator posts to the store and goes on; replies come back later and in
  order, after any number of other handlers. The journal load, the sidecar read and a clear of
  browsing data all race the user.
- *Re-entrance.* Activating a tab runs the bridge, inside the coordinator's own step; loading a URL
  runs the refresh run's observers, inside its own `StartItem`; dropping a lock of the tab strip
  reports to the pin controller, inside its own unpin; toggling a group runs observers that toggle
  and close groups, inside the bulk pass.
- *Frozen views.* A gesture works on the order and the reachability it saw when it began, while
  tabs are closed, reopened and a preference is flipped.
- *One session, several owners.* Sparkle has one update session; every profile has a facade, may
  click on the same offer, and may open or close at any point of it.
- *Gestures in pieces.* A double-click is two presses and two releases, between which the first
  click has already toggled a group and anything may have happened to the others.
- *Windows of several profiles.* A key event belongs to a window, its binding to the window's profile,
  and the last active window may be one of another profile.
- *Messages under way.* The proxy page sends an edit while a policy arrives.
- *Time.* A debounce that ends a gesture whose key release was missed; a scheduler that races a
  settle against a backstop and keeps a floor between two starts.
- *Identity.* A tab survives its WebContents (discard), and session data may be restored twice.
- *Disk.* The IndexedDB copy publishes directories by renames, in the thread pool, while pages
  open stores, Edge may start, and the browser may die between two renames.
- *Restart.* The persisted journal must reproduce the order of the session.

The list of these places, line by line and with the property that covers each, is under
`hazards` in `PROJECT.json`.

## 2. Modules

| Module | Models | Notes |
|---|---|---|
| `TabTraversal` | traversal engine | operators on a controller record, no variables |
| `VisitsStore` | visits store | operators on a store record, no variables |
| `Subsequences` | the copying loops of the two above | the elements of a sequence at given positions, without recursion |
| `TabVisit` | coordinator, bridge, journal service, clear hook, gesture input | composes the two above |
| `TabUid` | registry and helper | |
| `SessionTabs` | initial-URL helper, its session data, menu, dialog and reload | composes `TabUid` |
| `RefreshScheduler` | scheduler | with an arbitrary delegate |
| `RefreshRun` | run, settle gate, command | with an arbitrary scheduler and page |
| `Shortcuts` | shortcut registry, settings handler, resolution of a key event | |
| `RefreshByShortcut` | what starts and cancels a run: keys, the tab menu, the window's end | composes `RefreshRun` and `Shortcuts` |
| `IndexedDbStage` | the copy of Edge's IndexedDB directories | one step per rename |
| `EdgeImport` | import coordinator, preflight, secret and localStorage stages | composes `IndexedDbStage` |
| `TabStripPlacement` | placement rules and the bottom layout | operators, no variables |
| `PinPeek` | what pinning promises the user | abstract; implemented by `TabStripPin` |
| `TabStripPin` | pin controller, views glue, toggle command, position menu | uses `TabStripPlacement` |
| `UpdateService` | state machine, user driver, owner and facades, About row | with Sparkle as an external session |
| `TabGroups` | sub-folder groups, new-tab placement, header double-click | in one window, the strip external |
| `ProxySettings` | proxy builder and handler | over the layers of the preference, external |
| `*_proofs` | theorems on the module they extend | |
| `MC*` | symmetry sets and named constants for TLC | no definition is replaced |

`TabVisit`. `settledLog`, `anchor`, `traversalActive`, `controller`, `debounceArmed`,
`reopenable`, `recentlyReopened`, `generation`, `reopenedUrl` are the coordinator's members.
`tabs` is the strip (uid to last committed URL; all windows are merged, as the coordinator looks
through them all). The store sequence is `queue` (posted calls), `store` and `replies`:
`StoreStep` runs the oldest call, `DeliverReply` hands the oldest reply to the handler the code
binds. A step that lands on a tab includes what the bridge does on the selection it causes. The
URL of a page is recordable (`Url`), not recordable (`Blank`) or not there yet (`Empty`), which is
all the code asks of it. The outcome of `ReopenClosedTabByUid` is an input: exact restore,
fallback navigation, failure. With `StoreMayFail` any SQL statement may fail and a database may be
razed at start. `gestureGeneration` and the `gen` of an append or a clear are history. What the store
will be when the posted calls have run is `DrainedStore`, the last of the stores `StoresAlong` the
queue, a recursive function on the positions of the queue.

`TabUid`. WebContents stand for their SessionIDs. Opening, opening with a pending restored uid,
restoring with any uid ever minted, a malformed one or one that is live, discarding (the new
contents adopts while the old one is still registered and is freed in the code's order), closing,
and the destruction of old contents at any later time.

`RefreshScheduler`. Time in units, one timer record (`task`, `due`), the posted settles as a set.
A start may take up to `MaxStartDelay`. `StartFromCursor` with its loop over skipped items is one
step; so is each timer task. `startedAt` is history.

`RefreshRun`. `StartFromCursor`'s loop is a phase in which nothing else runs, and the load call
inside it another one in which only the callbacks of the call run: the earlier load stopping, the
new navigation starting. `loading`, `ours` and `ourState` are the page side, modelled from how the
run uses it.

`Shortcuts`, `RefreshByShortcut`. `bindings` is the preference of each profile, where a stored value
may be none, a chord, or one that cannot be read; `features` is what the process was started with;
`lastActive` is the last active window. A row of the table is its position and its command. A chord is
a value: whether it has a key code and a modifier (`Plausible`) and whether upstream reserves it
(`MenuChord`) are all the registry asks. In the composition a key event in any window is resolved
first; a run of the window `RunWindow` starts only when that yields its command for that window.

`IndexedDbStage`, `EdgeImport`. `dest` says who made each directory of the profile's IndexedDB/,
a page or the import; `leftover` that a staging root is there; `copy` is where `CopyStores` is.
The coordinator's `step` is the answer it waits for; everything a handler goes on to do until the
next wait, through as many of the four steps as end at once, is in one action. What Edge's profile
holds is chosen in the preflight (`available`); what the stores accept and the keychain's answers,
one per decryptor, are inputs. Edge's files do not change in the model, but Edge may start and quit
at any time (`edge`). A crash forgets the coordinator and the copy and leaves the disk.

`SessionTabs` extends `TabUid`: the same hooks create, hand over and restore both attributes of a
tab, so each of its actions that opens, discards or closes a tab contains the one of `TabUid`. `iu`
is the helper of each WebContents, `session` what the session file holds under its tab id, `closed`
the extra data of tabs that can be restored, taken from the live tab when the user closes it and
from the file when the process dies, or edited by hand (`HandEdited`). A navigation is a record of the
facts `DidFinishNavigation` looks at. `carried` is history: contents that took over at a discard and
have not been written since. `chosen` is history, too: the URL the user last wrote for the tab, handed
on where the code hands on the value; no guard reads it, and `InitialUrlIsSticky` tells a user write
from any other step by it.

`TabStripPin`. `ctl` is the controller together with the glue: its flags, the two locks, the key
handlers and `total_keep_open_locks_`. Operators on it follow the nested calls: releasing the
keep-expanded lock reports a new count, which may unpin a second time (`MaybeUnpinNested`) before the
first release returns. `external` counts the locks of others, `exitDue` a pointer exit that has
happened and has not been delivered, `pageFocus` a focus change that was asked for and has not
happened. `TabStripPlacement` has the decoding of the preference (any integer may be stored) and the
geometry of the bottom strip. `PinPeek` is what the comment above the controller promises, in five
actions on what a user sees.

`UpdateService`. `sparkle` is the stage of Sparkle's session, `driver` the two reply blocks, the
pending offer and the lengths; `alive` the profiles' facades, `snapshot` and `skipped` their state,
`row` what an open About page was last told. An event goes to every facade in the same action, as the
owner's broadcast does. An error text is the set of the words the classifier looks for.

`TabGroups`. `win` is a strip of group identities with the active tab and the collapsed groups.
`gesture` is the `GestureState` of each header, `press` the press that is held. The bulk pass is a
phase: each `PassStep` toggles one group, and between two of them observers may toggle or close any
group. The message box is `prompt`, which keeps the plans; the bookmarks change meanwhile. Plans are a
function from groups to their number of URLs. The strip that opening them makes is characterised, not
built: a sequence of `Total` tabs in which each group has its number, in one stretch (`Strips`);
closing a group takes out the range from its first tab to its last. The specification is `GroupsSpec`,
its names kept apart from those of the strip's, as one module proves things of both.

`ProxySettings`. A host is a kind (a name, an IPv6 literal, one with credentials, a path, list
syntax or a blank, each of these four as it is or escaped), a port an integer; what the checks and the
parser of `net` make of each is an operator. A stored endpoint may have a scheme the form does not
offer (`socks4` stands for these); the handler shows it as "http". `layer` has the value of each layer of the preference,
`rules` the override rules, `inbox` the messages that are under way.

## 3. Runs

| Run | Asks | Instance |
|---|---|---|
| `gesture` | the anchor stays the tail of the log, exactly settled visits are journaled, also for tabs just reopened; a gesture walks past unreachable tabs and always has a landing | three tabs, an order of three, one URL and none-yet, every reopen outcome, pref flips |
| `clear` | the closed-tab cache and the sidecar agree, nothing passes the barrier of a clear | two tabs, one clear, three calls waiting when the user acts, so that reads, appends and rows stand before and behind it; 3 078 826 states |
| `restart` | the order Back walks is the order the next process reads | restart with a late journal load |
| `traversal_live` | every gesture ends, every session loads its journal | two tabs, failing store, a restart |
| `session_tabs` | uids are unique among live tabs, durable, and registered exactly for the strip; an initial URL, locked or not, changes only to what the user has just written, and stays within the allowlist; the session file agrees with the tabs | two tabs, three contents, three uids, twelve kinds of navigation; 151 409 states |
| `refresh` | floor, backstop, one finish per run, no start outside a run; a run ends once dialogs stop deferring it | three items, two runs, loads slower than the interval |
| `refresh_run` | the gate reports exactly the stops that end the run's own attempts; a finished run is silent; a key is resolved by the profile of its own window and what the settings page lists works; no rebind shadows a command; no press is taken by a run that has nothing left to do | two tabs, four navigations; three windows of two profiles, one of them a popup; nothing, an unreadable or a shadowing binding left behind; one flag off or none; 120 312 states |
| `import` | each requested carrier has one outcome on every path, the count is what is on disk, origins are whole unless the browser died, a page's store is never replaced or deleted, every import ends | the driver's request without secrets and its request with cookies, and both secrets by themselves; two origins with two directories each, two entries, pages opening stores, Edge starting, a crash and a second import; 1 576 036 states |
| `strip` | the core, its locks and its count agree through nested reports; no armed pin is forgotten and every suppression can end (`StripLetsGo`); the whole implements `PinPeek` | two locks of others, stored values -1, top and right, every menu choice; 17 144 states |
| `updates` | an offer's reply is live exactly while Sparkle waits and every facade sees the offer; rows follow the machine, also with a dead updater; skipped versions stay hidden; checks are answered | two profiles, two versions, three units of download; 353 322 states |
| `groups` | groups stay contiguous; the pass has the target of before the first click, reaches it if undisturbed, never toggles away from it, ends; a bulk open was consented to | three groups, single tabs added while the strip has fewer than three, a threshold of three, folders below, at and above it; 1 143 860 states |
| `proxy` | the page's view is current, every promise is answered, refusals name the owner shown, saving the shown form changes nothing but a scheme it does not have, what is stored is what was asked | one request per branch of the builder, stored endpoints with and without a scheme of the form, every owner of the effective value, one message under way; 823 680 states |

The invariants of a run are conjunctions of named parts (`RegistryInv`, `SessionInv`,
`CoordinatorInv`, `CacheAgreesWithSidecar`, `SchedulerInv`, `RunInv`, `ReportInv`, `StripInv`,
`OfferInv`, `FacadeInv`, `WindowInv`, `PassInv`, `PageInv`), the type invariant among them; each part
is stated and explained where it is defined.

*Bounds.* Three tabs are the least for which an order can be walked past an unreachable tab; two
suffice where only closing and reopening matter. The log has room for one visit more than the order
a gesture starts from, so `gesture` has `MaxLog` 4; 3 allows a return to the first tab. `MaxQueue`
bounds the calls that wait when the user acts, not the ones a handler posts. The clear run has
three: a read, a row or an append may wait when the clear is posted, and more of them are posted
behind it before it runs. In the other runs of `TabVisit` one or two do, as their properties are
about the coordinator's order of events and the theorems have no bound. One clear gives a reply of
an earlier generation; that the generation also tells apart replies across several clears is left to
`ClearBarrierHolds` and `CacheFollowsSidecar`. The requests of `import` do not combine passwords
with the storage; that all four carriers in one request are told of is `TheReportIsTrue`. `MaxItems`
3 gives a first, a middle and a last item, and two runs a settle left over from the earlier one;
`MaxStartDelay` exceeds `Interval` so that the backstop's delay goes negative. Four navigations let
two attempts and a foreign load before, between and after them happen. Two profiles, with a popup
besides the window of the run in one of them, are what makes the last active window differ from the
event's in profile, in type, or not at all. Two origins and two directories are what a count, a
half-published origin and one that is skipped need; two entries what a count of pending writes
needs. In `session_tabs` the third contents is the replacement of a discard, and two tabs are a
duplicate and its source or two restores of one entry. Two locks of others distinguish the last one
from the one before. Three groups are the least for which a clicked one, the active one and another
differ; the folders have one URL less than the threshold, as many, and one more. Two facades and two
versions give a profile that opens late and one that skipped what the other did not; three units of
download pass an announced length of two. A second message to the proxy handler would only find a
state that a first one and the environment's actions reach too. `MaxTime` ends the clock;
`RunFinishes` is judged within it.

*Deadlock* is not checked in the runs whose bounds (log, clock, contents and uids that are used up,
imports, tabs) stop the system; it is in `refresh_run`, `strip`, `updates` and `proxy`, which never
stop.

*Fairness.* Weak fairness on `LoadPersistedJournal`, `StoreStep` and `DeliverReply` says that
posted tasks run, which is what Chromium's task runners promise. Weak fairness on the debounce
says that the timer fires: each further step re-arms it, so this is a user who pauses for the
900 ms of the debounce at some time; a user who steps for ever keeps the gesture on, by design.
`RefreshScheduler` assumes that time passes and that due tasks run, and asks for the end of a run
only once dialogs stop. `EdgeImport` assumes that posted tasks run and that the cookie and storage
services answer; the code has no other way on if they do not. `UpdateService` assumes that Sparkle
answers a check it has announced, and nothing about downloads or users. `TabGroups` assumes that the
pass goes on until it ends: it is one turn of the UI thread, in which observers act only as often as
they are called. Nothing is assumed of the user, the page or the disk.

### Where comments and code disagree

These were met while modelling. The models have the behaviour of the code; no property claims what
the code does not do, and no run of the project exhibits these cases as counterexamples: each is
read off the lines it names.

Importer:

- The report calls an IndexedDB import "imported" (`edge_import_report.h:20`: "fully imported") as
  soon as one origin was, with no reason, though others were skipped or failed
  (`roamux_edge_import_coordinator.cc:266`).
- The secret stage copies the keychain flag into its result before the cookies' decryptor sets it
  (`roamux_secret_import_stage.mm:202`; the header, lines 46-47, documents the flag as the
  outcome), so an import of cookies alone is always reported as one without a keychain.
- After a crash the staging root stays in IndexedDB/ and counts as a store
  (`edge_import_preflight.cc:59-61`), so every later import of IndexedDB is blocked.
- Whether Edge runs (`roamux_indexed_db_import_stage.h:20` requires that it does not) is asked of a
  preflight older than the writes of the earlier steps.
- A legacy store is two renames; a crash between them leaves half of what the same header calls
  "truly atomic per store". `WholeOrigins` therefore speaks of the time before the first crash.

Traversal: `tab_visit_traversal_coordinator.h:123` says that `reopenable_` holds only closed tabs,
while a tab that comes back by Cmd+Shift+T keeps its row; a live uid is located before the cache is
asked, so this has no effect.

Shortcuts: `patches/0065-refresh-all-initial-urls-command.patch:48` says that `ValidateRebind` "blocks
NEW conflicting rebinds, so only a binding stored before this shipped can shadow". `ValidateRebind`
looks at enabled rows only (`shortcut_registry.cc:157`), so a chord chosen while a feature is off may be
the one of that feature's row and shadows it, or is shadowed, in a later process with the feature on. `NoNewConflicts` is therefore
stated for the life of a process, over whatever earlier ones left behind.

Proxy: a stored endpoint whose scheme is neither http, https nor socks5 is shown as "http"
(`roamux_proxy_handler.cc:191-196`), so saving the form as it is shown makes it an HTTP proxy.
`SavingTheShownFormKeepsIt` says exactly this of such an endpoint and that nothing changes otherwise.

Updates:

- `update_state_machine.h:74` says that the skipped version is "persisted by the service"; it is a
  member of the facade and ends with it. `SkippedNeverSurfaces` is stated for the life of a facade.
- `_receivedLength` is never reset: a second download of a process starts at the bytes of the first
  and its progress is clamped at 100 per cent early on.
- Skipping sends no event: the row of the profile, and of the others, goes on offering a version
  whose reply is used up. The click on it does nothing (`OfferIsLive`).
- A session dismissed during a download leaves the facades at "downloading" or "ready", where they
  ignore later offers; `OfferReachesEveryFacade` excepts exactly these. The driver keeps the reply
  block of the finished download, too.

Initial URL: a discard carries the value over but neither the write still owed nor a write under the
new tab id, so until the next write the session file knows the tab without it; `SessionAgrees`
excepts exactly these contents (`carried`). The dialog keeps a raw pointer to the contents it was
opened on: an edit committed after a discard goes to the old helper and is lost.

Every property of a passing run has a mutant in `PROJECT.json`, a definition with a plausible bug
under which TLC finds the property violated.

## 4. Proofs

| Module | Theorems | Inductive invariant |
|---|---|---|
| `RefreshScheduler_proofs` | `ParamsAreValid`, `SchedulerIsSound` (with `TypeCorrect`, `BackstopHolds`, `OneFinishPerRun`), `FloorHolds`, `NothingStartsAfterFinish` | started items are spaced and lie before the cursor; each kind of timer task is due no earlier than the floor allows; a waiting run has the interval timer armed |
| `TabVisit_proofs` | `ClearBarrierHolds` | `BInv`: a gesture's generation is the present one, stamps of posted calls are in the past, and the barrier holds in the queue |
| `TabVisit_proofs` | `CoordinatorIsSound`, `JournaledVisitsAreSettled`, `ReopenedVisitsAreJournaled` | `CInv`: the types of the log, the cache, the store, the posted calls and the replies under way; during a gesture the controller walks a frozen order whose first element is the anchor and has landed; outside one nothing of a gesture is left |
| `TabVisit_proofs` | `CacheFollowsSidecar` | `CacheInv`, beside `CInv`: no read under way is from a later generation; what the cache has, and what a current read will bring, is a row the sidecar will have, unless the tab was closed or reopened since; every row of a closed tab is cached, or a read that finds it is under way or owed |
| `TabVisit_proofs` | `MruOrderSurvives` | `MruInv`, beside the two above: open tabs and the sidecar's rows, now and as the posted calls run, are at recordable pages; the journal to be has the order of the log; reads under way have that order as far as the log leaves it open; once loaded, the log has the order of the journal |
| `RefreshRun_proofs` | `Invariance`, `GateIsSound`, `GateIsComplete`; of the composition `ShortcutImplementsRun`, `ShortcutRunIsSound`, `EveryPressActs` | inside the call the gate has buffered exactly a start of ours; after it, while the tab is observed, `started` says whether ours has started |
| `RefreshRun_proofs`, of `Shortcuts` | `ShortcutsAreSound`, `RebindsAddNoConflicts` | the types of the bindings; who gets a key event is then a fact about each state |
| `EdgeImport_proofs` | `PageStoresSurviveAlways`, `WholeUnlessCrashed` | the directories on the list of a copy are the ones it made; no copy is started or dropped while one is under way; for the second theorem, before any crash, the list is all that was published of its origin |
| `EdgeImport_proofs` | `TheReportIsTrue` | `RInv`: the two above; at each step, which carriers the report has told of so far; before any crash, the copy's count is the number of origins published whole |
| `SessionTabs_proofs`, of `TabUid` | `RegistryIsSound` (with `LiveUidsAreUnique`, `RegistryAgreesWithStrip`), `UidsAreDurable` | the two maps are inverse, agree with the strip, a WebContents is shown by one tab, and what is registered was minted |
| `SessionTabs_proofs` | `SessionImplementsTabUid`, `SessionRegistry`, `SessionUidsAreDurable`, `SessionIsSound`, `InitialUrlsAreSticky` | the registry's invariant, the types and agreement of `SessionInv`, and that contents which do not exist have no value and contents no tab shows have nothing in the file |
| `TabStrip_proofs`, of `TabStripPin` | `StripIsSound` (with one theorem per part), `TheStripLetsGo` (with `NoPinIsAbandoned`, `SuppressionsEnd`), `StripImplementsPinPeek`, and of the placement rules `BottomStripTiles`, `DockSidesExclude` | the conjunction of the run's invariants |
| `TabStrip_proofs`, of `TabGroups` | `WindowIsSound`, `PassReachesItsTarget`, `BulkOpensAreConsented`, `PassNeverUndoesItsTarget` | `GroupsIInv`: the window's types, groups in one stretch and an expanded active group; a question excludes a window, a pass a held press; what a header remembers of its group is what it was before the click; in a pass nobody disturbed, what is not at the target is still to be visited and the activation has not moved but by the last visit |
| `UpdateService_proofs` | `OffersAreLiveAndSeen`, `RowsTellTheMachines`, `SkippedVersionsStayHidden` | `UInv`: only a facade that exists has a page and its row tells its snapshot; the offer's two parts; a dead updater never opens a session |
| `ProxySettings_proofs` | `PageIsSound`, `OnlyWhatWasAskedIsStored` | `PInv`: the user's value is one the builder can have made or a value that was there; a page that was shown a state watches, and has the present one; one promise per message under way |

The properties are not inductive alone. The floor needs to know when each of the three timer tasks
may be due. The barrier needs that a clear ends the gesture, or else the visit of a gesture begun
earlier could be appended behind it. The gate's soundness needs to know, after the call has
returned, that a start seen inside it was recognised, which depends on what was buffered. The
uniqueness of uids needs both maps, as `AdoptOrRestamp` looks at one and `Unregister` at the other.
The agreement of the session file needs that new contents start with nothing, which depends on what
every way of destroying contents leaves. The parts of the strip's invariant need each other: that no
armed pin is forgotten rests on the exact count, the count on the locks matching the core, and both on
a pin having a strip.

That the cursor of a gesture rests on a landable tab needs what the frozen order is: without repetitions
and as long as its landability mask; that is a lemma about `DeriveMruOrder`, for logs of any length,
which rests on how `ElementsAt` numbers the positions it keeps. That exactly settled visits are
journaled needs the anchor at the log's tail, or else the append of `Settle` could be coalesced away
in the log and not in the journal. The report of an import needs what it has told at every wait, as the four steps have
many ways to go on; its count needs finite sets and their cardinalities, origin by origin. The row of
an About page needs that a facade that is gone has no page, and that the updater which failed to start
opens no session whose events would overwrite the error. That saving the form as shown changes nothing but a scheme the form does not have
needs that a stored endpoint passes the builder's checks again, which holds of what the builder made
and of nothing else, so the invariant has to say where the user's value came from. The facts about
shortcuts need no history but the types: resolution is proved to be a function of the window's own
profile for every binding, and `NoNewConflicts` follows from the check that precedes each write.

The pass of a double click reaches its target although it visits the active group last, since collapsing
that one moves the activation and may expand another group: so the invariant has to say how often the
activation has moved and that the groups still to be visited do not include the active one. That groups
stay in one stretch when a tab goes in behind the active one, or a group is taken out, is a fact about
positions; the lemmas about inserting, removing and about the first and last tab of a group are stated
for strips of any length.

Several properties look ahead to what the store will be once the posted calls have run, or ask for the
least or last of some positions, and so need induction. The library's theorems for it cannot be used
here, so the induction is done with sets: `LeastNumber` and `GreatestNumber`, and `RankGrows` and
`EveryRankIsTaken` for the positions a filter keeps, follow from cardinalities of finite sets of
numbers, and a claim that fails somewhere fails at a least place. The same argument shows that the
recursive function `StoresAlong` exists and what it is at each position, that posting a call runs it at
the end and that running the oldest call shifts the rest.

`CacheFollowsSidecar` assumes that SQL statements succeed (`~StoreMayFail`), as a failed statement is
not reported to the coordinator. Its difficulty is the reply of a read that is older than what happened
since: that a tab was closed with a newer page, which overrides the row, or was reopened, which
`recentlyReopened` remembers, or that a clear went out, which raises the generation. `CacheInv` says for
each read under way, before and after the store has run it, that this covers every difference.

`MruOrderSurvives` is stated for constants under which everything visited is recorded: nothing fails,
nothing is cleared, and tabs open and reopen at recordable pages (`EverythingIsRecorded`; the run
`restart` is such an instance). Without them the log has visits the journal has not, by design. The
order that `DeriveMruOrder` gives depends on the log only through one relation, which of two tabs was
visited later (`SameOrder`); dropping legacy rows, coalescing repeated visits and the merge of the
loaded rows under the session's visits keep it (`IdentifiedKeepsOrder`, `CoalescedKeepsOrder`,
`MergedOrder`). So the order at the load is right whatever the read saw, as long as what it missed was
visited in this session; that is the second part of `OrderFacts`. Clauses on pages are needed because a
visit to a page that is not recordable is settled in the log and not journaled, and a tab that comes
back has the page its row has: this is where `CacheInv` is used.

Three refinements are proved. `ShortcutSpec` implements `RefreshRun`'s `Spec` with the same variables:
every surface's start and end of a run is one of `Trigger` and `Cancel`, and the rest stutters, so the
theorems on the gate hold whatever drives it. `SessionSpec` implements `TabUid`'s `Spec` with the same variables: the
registry's theorems hold of the composition, which is what the run checks. `TabStripPin` implements
`PinPeek` with `mode <- PinMode` (the three flags of the core as one mode), `inside <- pointer`,
`held <- (focus \/ external > 0)` and `setting <- <<settings, region>>`; every action maps to one
action of the contract or to a stutter, case by case under the inductive invariant, which is needed
because the contract speaks of the real number of other holders and the code of its count.

Assumptions are those of the modules: special values are not members of the sets they extend
(`TabUidAssumption`, `TabVisitAssumption`, `RefreshRunAssumption`, `IndexedDbStageAssumption`,
`SessionTabsAssumption`, which adds that a captured URL is one of the URLs), that the stored
placements are integers and the number of other holders is finite (`TabStripPinAssumption`), that every row has a default chord and every window a profile
(`ShortcutsAssumption`), that the run's window is a normal one and what is stored or asked for is made
of rows and chords (`RefreshByShortcutAssumption`), that messages and values have the fields the
handler reads, with any integer as a port (`ProxySettingsAssumption`), that lengths of a download are natural numbers
(`UpdateServiceAssumption`), that requests are sets of carriers (`EdgeImportAssumption`), and
`0 < MinSpacing <= Interval` (`RefreshSchedulerAssumption`), which the constructor CHECKs and
`ParamsAreValid` derives from the parsing of the two feature parameters.

*Only model-checked.* Liveness (`GestureEnds`, `JournalLoads`, `RunFinishes`, `ImportEnds`,
`CheckIsAnswered`, `PassTerminates`), which needs fairness. Every invariant and every action property
of the runs, and each refinement, is stated by a theorem. Two theorems have hypotheses on constants,
the ones above; the runs of their properties satisfy them.

## 5. Not modelled

Whole components:

- *Profiles, scheme and sign-in policy.* Constants, patches of upstream and decisions made once at
  start-up; no state of theirs evolves.
- *Utility-process importer, profile readers and decryptor.* Parsing of files: their results are
  inputs of `EdgeImport`. The driver's ownership of itself is left out.
- *Build, release and patch tooling.* Not part of the running browser.

Within the modelled ones:

- Command enablement of the traversal commands and its per-window subscription; the windows
  themselves, which `TabVisit` merges.
- The visit's URL in the `visits` table (nothing reads it back), the schema and its migration.
- At the cap, the journal may lose a tab that the session log still has, as the journal does not
  coalesce repeated visits; `MruSurvivesRestart` is stated below the cap.
- `CacheAgreesWithSidecar` is checked and proved without SQL failures, which the service does not report.
- Closing a tab that was reopened by the fallback before its navigation commits writes an empty URL
  over its row, after which the fallback cannot reopen it; the model has this, no rule forbids it.
- A delegate that cancels the refresh from inside `StartItem`; the one in the tree does not. The
  predicates that make an item of a refresh ineligible are one nondeterministic choice.
- Failures to delete (the sweep and the rollback of an IndexedDB copy); a page that writes into a
  store the copy has just published and then rolls back; a page that writes localStorage between the
  usage check and the import's own writes (the code accepts overwriting a key); what Edge's files
  contain.
- The two feature checks of the toggle command (`tab_strip_toggle_command.cc:35-41`): the flags are
  fixed for a process, and with either off there is no toggle to model.
- Animations of the strip and what upstream draws; titles and colours of groups; the accelerator
  shown in the initial-URL menu, the texts of the shortcut settings and the conversions of key codes; release notes and the permission request of Sparkle.

## 6. Plan

Done, in this order: `TabTraversal`, `VisitsStore`, `TabVisit` (the core), `TabUid`,
`RefreshScheduler`, `RefreshRun`, `IndexedDbStage` and `EdgeImport`; then `TabStripPlacement`,
`PinPeek` and `TabStripPin`, `UpdateService`, `SessionTabs`, `TabGroups`, `ProxySettings`,
`Shortcuts` and `RefreshByShortcut`; and the proofs above.

Next, in order of weight:

1. An abstract specification of the journal (a log with a barrier) that `TabVisit` implements.
2. The order of the session and of the journal where some pages are not recordable: the journal then has
   the order of the recordable visits, which is a weaker relation between the two.
