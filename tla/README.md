# CypressEra: a verification project

CypressEra is a power-system study platform: a Go **api-server** that keeps users' sessions and files and runs a
closed-source **flow-solver** binary, a TypeScript **agent-server** that answers chat messages with tool calls on the
api-server and keeps a searchable knowledge base, and a **React client**. This directory holds TLA+ modules for the
parts of it whose correctness depends on the order in which things happen, the TLC runs that check them, and theorems
about them proved with TLAPS.

## 1. Inventory

| Component (code) | State | Operations | Hard because |
|---|---|---|---|
| Session registry (`services/session.go`, `study_files.go`) | `sessions` map, `userSessions` index, one mutex; directories `sessions/<user>/<id>` and `power-flow/<user>/<id>` | create with FIFO eviction, load case, load study file, allocate run paths, save results, expiry loop, per-user cleanup | maps change under the mutex, files outside it; eviction and expiry remove a session a request is working on; a restart forgets the maps and keeps the directories |
| Analysis jobs (`analysis_job.go`, `contingency_analysis.go`, `study_result.go`, `handlers/contingency.go`) | job registry, semaphore, one context per job, run files of the session, durable records | start, list, get, cancel; one goroutine per job, one tailer and one consumer goroutine per run | five kinds of goroutines; one input file name per session; cancellation races the end of a run |
| Working file (`handlers/api.go` EditElement, CalculatePowerFlow; `editor.go`, `solver.go`; SaveCase, SaveCaseAs, UpdateControlState in `session.go`) | the session's RAWX file, `results.json`, the user's case file, the session's status and file names | edit, solve with warm-start writeback, save, save as | every handler reads the file, works for seconds without a lock, and rewrites it |
| Study service, parsers (`study*.go`, `studyfile/`) | a fingerprint cache | parse, build reports | pure |
| WebSocket hub and publisher (`websocket/`, `eventPublisher.go`) | client set, topics, bounded channels, debounce buffers | register, subscribe, broadcast, coalesced publish | channels are closed by three goroutines; a timer races new contributions |
| Solver runner, tailer (`solver_runner.go`, `progress_tailer.go`) | one process, one file offset | run with deadline, tail | last poll against the exit of the process |
| Auth (`auth/*.go`; client `auth/*.ts`) | refresh token rows; tokens in the browser's local storage | login, rotate, revoke; refresh from several tabs | rotation is answered over a network to clients that share storage |
| File service (`files.go`, `parser.go`, `rawx_sanitize.go`) | user files, the knowledge index file | upload, delete, rename | rewrites a file the agent-server caches |
| Knowledge base (`agent-server/src/features/knowledge-base`) | watcher timers, metadata cache, write locks, chunk files | index, delete, retry | every `await` is an interleaving point |
| Chat and brain loop (`chat.controller.ts`, `BrainEngine.ts`, `toolExecutor.ts`, `apiClient.ts`) | the messages of one request, the session its tools use | bounded rounds of model and tool calls; calls that are retried | the loop goes on when nobody reads it; a retried call may have been carried out |
| Network table (`NetworkDataTable.tsx`, `undo-redo/`, `usePowerFlowSDK.ts`, `Xolution.js`) | pending changes by row, two stacks, the rows on display, the session in use | edit, undo, redo, save, reset; refetch; open another case | merging, a bounded history that outlives a save and a case, refetches that overtake each other |
| Web client (`useWebSocket.ts`, `WebSocketContext.tsx`, `useAIChat.ts`, diagrams, SDK) | one socket, its subscriptions, one abort controller | connect, reconnect, subscribe, refetch, stream | callbacks of older sockets, effects that run after the socket has changed |

How they interact: the client and the agent-server call the api-server over HTTP; handlers call services directly;
services run the solver as a process and read its output file; the job service calls a sink that publishes on the hub;
the hub sends to clients, whose invalidation hooks refetch; the api-server and the agent-server share the
`knowledge/<user>` directory. PROJECT.json lists every component with its status, and 40 hazards at their lines.

## 2. Plan

The modules are written in the order of what a user loses when the code is wrong: the outcome of a study, the session
with its case, the content of the case, then what the interface shows.

| # | Module | Models | Abstract specification | State |
|---|---|---|---|---|
| 1 | `AnalysisJobs` (implements `AnalysisLifecycle`) | job service, run, tailer's consumer, cancellation, study-result record | the lifecycle promised by the analysis API | checked and proved |
| 2 | `SessionStore` | session maps, per-user index, files owned by a session | the list a user sees is the map, oldest first | checked and proved |
| 3 | `WorkingFile` | edit, solve, save and save-as on the working file | none: nothing serialises these handlers, the properties say how far they agree | checked and proved |
| 4 | `IndexMetadata` | the metadata cache of a knowledge base, its write locks, `index.json` and its two writers | none: the properties say when memory and file agree | checked and proved |
| 5 | `NetworkTable`, `Assistant` over it | the table's edit, undo, redo, delete, save and reset with the refetches they start; another case that is opened; a chat turn whose tools edit and open cases | none: the properties say when the table, its history and the cases agree | checked and proved |
| 6 | `KnowledgeIndex` | watcher timers, indexing and deletion of documents and their chunk files, over the metadata of 4 taken as updates that may fail | none: once all is handled, the index follows the directory | checked and proved |
| 7 | `TokenRefresh` | rotation in the database, answers that get lost, tabs that share storage | none: the newest token of a login is the browser's | checked and proved |
| 8 | `LiveSocket` over 7 | the socket, its reconnections and subscriptions, the refetches | none: a tab at rest hears of changes and shows them | checked and proved, with the properties of 7 |

`AnalysisJobs` and `SessionStore` overlap in one place, the removal of a session while something runs in it; each has
its own `RemoveSession` or `CleanupOne`, with the part of the disk it needs. `WorkingFile` takes the removal of the
session from `SessionStore` as one step and adds what the files hold. `Assistant` extends `NetworkTable`: each of its
steps is one of the table with the assistant at rest, or one of the assistant on the table's rows and session.
`LiveSocket` extends `TokenRefresh` in the same way: its socket connects with the tab's token and joins its refresh.
`KnowledgeIndex` and `IndexMetadata` are the two sides of the metadata: the first takes an update as one step that takes
effect or fails, the second shows what such a step is made of.

Runs: one safety run per module or composition and, where the code contradicts a comment or a document, one run that
shows it; a liveness run where the code's own goroutines drive the progress (`AnalysisJobs`). Theorems: the type
invariants and the safety properties of 1, 2, 3, 4 and 6, the types and the three properties at rest of 5, the types and
the two properties of the login, of 7 by itself and under the socket of 8, and the types of 8 and its tab at rest.

Left of the plan: a module of the hub with its publisher and the tailer, which stand between `AnalysisJobs` and
`LiveSocket`: debounced publishes, the closing of a client's channel, byte offsets.

## 3. Modules

Every action is one critical section, one file-system call or one channel operation of the code: what happens between
two of them in the code may happen between two steps of the model. PROJECT.json maps each definition to its lines.
Definitions named `X_Y` that follow a comment starting with "Mutant" are not part of any specification: they are
plausible errors that the properties are tested against.

### AnalysisLifecycle

What a client of the analysis API may rely on, without goroutines, files or slots: a job is accepted for one session
when that session has no unfinished job, is queued, runs, ends in one of three outcomes, and the outcome is announced
at most once and as it is. A job that never ran can only end cancelled.

### AnalysisJobs

| Code | Model |
|---|---|
| `JobService.jobs`, `AnalysisJob.State`, `ResultPath` | `session`, `state`, `resultPath` |
| the semaphore channel `sem` | `sem`, tokens in it; `Slots` is its capacity after `NewJobService` clamps the argument |
| the job's context and its `cancel` | `ctxDone`; a `Cancel` call between its unlock and `cancel()` is in `cancelling` |
| the goroutine running `execute` and the run it calls | `pc[j]`, from the HTTP request to the exit |
| the goroutine that ranges over the tailer | `reporter[j]`, `reports[j]` |
| the session's `runs` directory, `contingency-input.json`, the output file | `runsDir`, `inputOf`, `output` |
| `study-results/<id>/meta.json` and `report.json` | `record[j]`: `"none"`, `"meta"`, `"full"`; `"deleted"` after the user has deleted it |
| the session's analysis topic | `topic[j]`, the events published for the job in their order |

`Validate` and `Submit` are two steps because the handler looks the session up before it takes the job service's mutex.
`PublishStarted` follows `Submit` at any distance: the handler announces the start after the goroutine was spawned.
`RemoveSession` is eviction or expiry, and takes the run files with it. `DeleteResult` is `StudyResultService.Delete`,
which a user may call as soon as a record is there, also while the job that wrote it is still listed. Progress figures
and the power-flow topic on which progress ticks travel are left out; progress events matter here only because the sink
turns one that carries a terminal state into an event on the analysis topic.

### SessionStore

| Code | Model |
|---|---|
| `SessionService.sessions`, `userSessions` | `sessions`, `byUser` |
| `UserSession.UserID`, the time it was created | `owner`, the sequence `created` |
| `FilePath`, `ResultsPath`, the three study-file slots, `UpdatedAt` | `filePath`, `resultsPath`, `slots`, `stale` |
| the working file under the name of `FilePath`, or under the one a save-as has given it | `"model"`, `"renamed"` in `disk[s]` |
| the loop of `CleanupExpiredSessions`, which keeps the mutex | `expired`, what it still has to remove; `Unlocked` holds when it is empty |
| `sessions/<user>/<id>`, `power-flow/<user>/<id>` | `disk[s]`, the parts of `Workspace` and `PowerFlow` that exist |
| a request in flight | `target[r]`, `at[r]` |

Requests take the mutex for their visits to the maps and not for their file operations, so eviction, expiry and clean-up
fall between any two steps. `SaveCaseAs` looks the session up, `Rename` moves its working file and `SetPath` tells the
session, the last alone under the mutex; `mixed` is history, the sessions whose saves-as overlapped. `Age` stands for
time passing since `UpdatedAt`: a session on which a request works is younger than the cutoff (24 hours in the shipped
configuration). `Restart` forgets the maps and the requests and keeps the disk. `owner`, `created` and `tidy` outlive a
removal: they are history, except that a drawn id is never drawn again. `MaxSessions` is assumed positive; with 0
`CreateSession` would index an empty slice.

### WorkingFile

| Code | Model |
|---|---|
| `UserSession.FilePath`, `OriginalFilePath` | the names `current`, `original` |
| the session's directory and the user's case directory | `dir`, the file under each name of both |
| a RAWX file | `content[f]`: the edits it holds, or `Torn` after a truncation that was not followed by a whole write |
| `results.json`, the session's method and convergence | `results`, `recorded`: the solve they are of |
| `fileExists` in `SaveCaseAs` | `existed` |
| the local variables of a handler | `kind`, `place`, `name`, `seen`, `source`, `target` |

Names and files are apart because the code renames and truncates under readers: an open file stays with whoever opened
it after its name is gone. A handler keeps the pointer to its session, so `EditElement` writes to the file `FilePath`
names when it writes (`WritePath`), while the fold of a solve reads and writes one fixed path. When a file was written
by somebody else since a request truncated it, `Fill` allows the mixture of both (`Torn`). The check and the two opens
of `copyFile` are one step; the operating point a solve folds into the file is left out, because folding keeps the
edits that were read. `met` and `broken` are history: which requests overlapped, and which failed while writing.

### IndexMetadata

| Code | Model |
|---|---|
| a call of `updateFileHash`, `updateFileStatus`, `updateLastIndexed` or `removeFile` | an element of `Updates`, at `pc` |
| `writeLocks`; the promise an update awaits | `lock`; `waitsFor` |
| `inMemoryCache` and the objects that were in it | `cache`, `heap`; an object is named after the call that loaded it |
| `data` in `loadFromDisk`, `metadata` and its JSON in `saveToDisk` | `got`, `held`, `text` |
| `index.json.tmp`, `index.json`, the open file of a write | `temp`, `index`, `fd`: files, named after the update that created them |
| what a file holds | `content`: a document, empty, or broken |
| `removeFileFromIndexMetadata` of the api-server | `api` |

Metadata is the set of the updates it reflects: the four functions change different entries in the same way. A step
is what Node runs between two awaits that leave the event loop, or one call on the file system. All updates that await
a promise go on in the step that settles it, because promise reactions run before anything else; the map keeps the
promise of the last of them. `saveMetadata` is not modelled: nothing calls it. A second write into a file that already
has data leaves a broken one when the older text is longer, so `Written` allows both. `alone` and `upset` are history:
which running updates nothing has overlapped with, and what may have harmed the file or the cache since the last update
that ran by itself. A damage that was loaded into the cache, and a cache replaced by a late load, count for ever.

### NetworkTable

| Code | Model |
|---|---|
| the RAWX file of a session, as far as the table shows it | `server[s]`, the rows: an element and its value |
| the SDK's session id; the load, the first fetch and the change of session of an opening | `session`; `opening[s]` |
| `networkData` | `shown`, the number of an answer; `objects[a]`, its rows, changed in place by whoever holds them |
| refetches before and after the server has read the case; those made again when they fail | `asked`, `reading`; `patient` |
| the pending changes of `NetworkDataTable`, which are keyed by row position | `changes` |
| the stacks of `UndoRedoManager`; the cell in the editor | `undoStack`, `redoStack`; `editing` |
| `handleSaveChanges` between its awaits | `save` |
| the parameter editor or the delete confirmation, with the row object or the identifier it was opened with; its request in flight | `request` |

A step is a handler up to its next await. An element has one editable field with two values; what an edit is (modify,
add, delete) is kept, because additions and deletions move rows under changes that name them by position. A dialog is
opened from the context menu on a row of the answer on display and keeps that row or its identifier, while another case
is opened, an answer comes in or a save changes the row; when it is applied it closes, and its request goes to the
session there is then. One dialog or request at a time is a bound. `wanted` is
history: the value last given to each element of a case. `harm` is history too, one name for each thing a property
excepts: section 6 lists them.

### Assistant

| Code | Model |
|---|---|
| `runChatWithTools` and the loop of `chat.controller.ts`; `BrainEngine.run` when it is enabled | `turn[t]`: its place, the session its tools use, rounds, calls left in the round, the call in progress |
| an attempt of `apiClient` and the attempts that failed | `turn[t].call` |
| the server-sent events of the turn | `stream[t]` |
| the abort controller of `useAIChat` | `talking`, the turn the tab reads |
| the delay before `handleToolResults` refetches | `due` |

The model's choice is free: any edit, or a case to open, in any number up to the bound; nothing in the code constrains
it. A call is chosen when it is sent: the language model chose it earlier, but nobody has looked at it since. The two
loops differ in what they log and in the round limit, and share the steps of the model. Events carry what the tab acts
on: whether an edit succeeded, and the first session that was opened.

### KnowledgeIndex

| Code | Model |
|---|---|
| the document in the user's directory | `file`, a version; `events`, what the watchers saw of it and nobody handled yet |
| chokidar watchers of the directory (a second one while two starts overlap) | `watchers` |
| `fileHashes`, and the start of a watcher that fills it; `debounceTimers` | `tracked`, `filling`; `debounce` |
| timers, `indexDocument`, `deleteDocument`, `initializeFileHashes` under way | calls, `at[c]`, with `kind`, `seen`, `marked`, `part`: their local variables |
| `indexingStatus` and `hash` of the document in the metadata; whether `index.json` has them too | `status`, `hash`; `saved` |
| the removal of a document by the api-server: the document, its chunk file, its entry in `index.json` | `Remove`, then `cleaning` |
| the document's `.jsonl` file of chunks | `chunks`, a sequence of version and part |

One document is enough: documents share the metadata file, which is the other module's business, and nothing else. A
step is what a call runs between two awaits, and any await may fail. `Scan` lists the directory and `Sample` reads the
document, which may have changed, into the map its start created, which another start may have replaced. The api-server
removes a document in three steps (`Remove`, `CleanChunks`, `CleanIndex`); between them the watcher may hear of it and
the document may be uploaded again. That one removal is under way at a time is a bound. `CleanIndex` changes the file
under an agent-server that has loaded it (`saved`), or what it is going to load (`Unloaded`). `harm` names what may have
kept the index from following the directory. The write locks of `appendChunks` order calls that the steps of the model
already order.

### TokenRefresh

| Code | Model |
|---|---|
| rows of `refresh_tokens` with `revoked_at`, `expires_at`, `replaced_by_id` | `rows`: state and login; rows of a login are one chain |
| the clock, as far as `willExpireSoon` and `ParseToken` ask it | `ending`, `expired` |
| `tokenStore` in local storage; the tokens in `AuthProvider`'s state | `store`; `react[t]` |
| `doRefresh` and the promise a tab's callers share | `refresh[t]` |
| messages `tokens_updated` and `auth_required` on the BroadcastChannel | `inbox[t]` |
| `fetchWithRefresh` with its second attempt; the login modal and its poll; `logout` | `request[t]`; `modal[t]`; `logout[t]` |

A refresh token and its access token are one number, that of the row. Each of the server's answers may be lost or be an
error; a reload forgets what a tab had in memory and keeps the store.

### LiveSocket

| Code | Model |
|---|---|
| WebSockets of the page whose close has not been handled, and the client of the hub behind each | `sockets`: `ref` for the one in `wsRef`, what it asked to subscribe, what the hub has, a message on its way |
| the hook's status; the values the effects last ran with | `status`, `live`, `hook` |
| `subscriptions` as state and in a ref | `subs`, `subsRef` |
| `reconnectAttemptsRef`, `reconnectTimeoutRef`, calls of `connect` that await a token | `attempts`, `timer`, `awaiting` |
| `hadConnectedRef` | `had` |
| what the tab shows, by `Parts`: the session's record, the lists of files, the study results, the results of the power flow | `view[p]` |
| refetches of a part on their way to the server, and their answers, with the part as it is or as it was | `asked[p]`, `fresh[p]`, `outdated[p]` |

The callbacks of a socket act on the refs of the hook, which may by then belong to a newer one: that is why sockets are
a sequence and not one. The hub is what a client sees of it: it registers, subscribes, sends, and drops a client whose
buffer is full. React runs effects some time after the state changed (`Unrendered`). An event is of one part and is
answered with a refetch of that part alone (`Hear`); several refetches of a part may be on their way and be answered in
any order. A reconnection refetches `CaughtUp`, the parts `handleStaleOnConnect` asks for, which the results of the
power flow are not among. The topics of the session are subscribed together. The rows of the network are no part of this
view: no handler of the client listens to `network:updated`, and their refetches are in `NetworkTable`.

## 4. Runs

| Run | Asks | Result |
|---|---|---|
| `jobs_session` | two analysis requests for one session, cancellation, removal of the session and deletion of the record at any time | 1,093,442 states; all hold, and every behaviour is one of `AnalysisLifecycle` |
| `jobs_liveness` | a non-positive bound, so one slot, with two jobs; fairness | 255,840 states; at most one run, every accepted job ends, is announced and frees its slot, and a cancellation takes effect |
| `jobs_cancel_finished` | "Cancelling a finished job is an error." | violated: see findings |
| `store_safety` | one user, three sessions, a limit of two, one request in flight or two saves-as of one session, expiry, clean-up and restart | 1,132,705 states up to symmetry; all hold |
| `store_eviction_leak` | "Clean up session files and directories" | violated: see findings |
| `working_file_safety` | three requests of any kind on one session, failing writes, eviction | 200,570 states; all hold |
| `working_file_save_as` | "try to clean up the new user file we created" | violated: see findings |
| `index_metadata_safety` | four updates of one user, a reader, a rewrite by the api-server, failing writes, a restart | 357,224 states up to symmetry; all hold |
| `knowledge_index_safety` | one document in two versions, three calls and a removal under way, three changes, a failure, a restart, a second watcher | 2,215,714 states up to symmetry; all hold |
| `network_table_safety` | two elements, two cases, one chat turn of two rounds, three answers in use, all the table's operations, one dialog | 455,229 states up to symmetry; all hold |
| `live_socket_safety` | two tabs, three tokens, a socket with two attempts, two parts of the view, one of which a reconnection refetches; a reload, a request, a logout, a fault, a drop, a change | 885,811 states; all hold |
| `index_metadata_atomic` | "Write to temporary file first, then rename (atomic operation)" | violated: see findings |

What the properties of the passing runs say of the code:

- `OneActiveJobPerSession`, `InputIsOwn`: several requests validate before any submits, and all runs of a session use
  one input file name. The check under `Submit`'s mutex alone keeps a solver from reading another job's input.
- `CompletedHasReport`, `OneTerminalEvent`, `FinishedIsFinal`: a job told to be completed had its full report saved in
  the durable store before, although meta and report are two writes, and when it is not there any more the user has
  deleted it (the case for which `GetAnalysisReport` has an error); its outcome is told once and is the registry's,
  although a progress report could carry it too.
- `RunsBounded`, `JobsEnd`: the slot comes back on every path, including the paths on which the session disappears.
- `CancelTakesEffect`, `QueuedCancelLeavesNothing`: a cancellation that comes before the run has returned ends the job
  as cancelled, never as failed; a job cancelled in the queue never runs and leaves no record.
- `IndexAgrees`, `WithinLimit`, `OldestEvicted`: map and index name the same sessions also between two removals of the
  expiry loop; a new session only evicts older ones.
- `PathsExist`, `SettledRemovalIsClean`: a session in the map never names results or a study file that are gone, and its
  `FilePath` names none only between the rename of a save-as and its update of the session, when the file is there under
  its new name, or after saves-as that overlapped; a session that is removed while its paths are recorded and nothing
  works on it leaves nothing behind, and no late writer brings it back.
- `NoLossWithoutOverlap`, `SaveIsComplete`, `FilePathExists`, `ResultsOfOneSolve`: what the unlocked handlers still
  guarantee. They name the overlaps under which an acknowledged edit can be lost, a file torn, `FilePath` left without
  a file, or the results on disk be of another solve than the session says. Without these exceptions TLC finds each
  of the four, because no lock covers the sequence of read, solve and write.
- `OneUpdateAtATime`, `WaitsForRunning`: the write lock keeps updates apart until two wait for the same one, and never
  leaves one waiting for a promise nobody will settle, although an update deletes the lock of whoever holds it.
- `ReportedIsSaved`, `LoneUpdateRepairs`: what an update reported is in `index.json` at every point at which the service
  may stop, with the overlaps named under which it need not be; a later update that runs by itself repairs the file.
- `SettledIsIndexed`, `SettledIsGone`, `IndexedIsWhole`: once the watcher has handled what it saw, the index holds the
  document as it is in the directory, whole, or nothing of it, through every burst of changes the timers swallow; an
  indexing that failed half-way never passes for a complete one. `PendingHasWorker`: a document shows as pending only
  while something works on it.
- `RowsAreTheServers`: when nothing is on its way, the table shows the case that requests go to, whichever refetch came
  last, whoever edited and opened. `NoEditIsForgotten`: the value last given to an element is pending at its row or in
  the case it was given in. `HistoryStartsAtTheTable`: an undo or a redo starts from what the table shows.
- `LoginIsKept`, `LogoutIsFinal`: rotation over a network never leaves the browser with a dead token while the live one
  is forgotten, and a login that was logged out has no refresh token that works and does not come back (its access
  tokens are accepted until they expire). `LiveAtRest`: a tab at rest has exactly one socket, subscribed, and shows the
  session's record, its lists and the study results as they are, whatever it missed; the results of the power flow only
  while no event of them was missed; and it says nothing of the network's rows.

The properties of the three runs on the client and on the knowledge base have exceptions, each a name in `harm`,
`friction` or `trouble` that is set by the step in which the thing happens. They are not assumptions on the steps: the
steps happen, and the property says nothing once they have. Each of them was added for a behaviour TLC found; section 6
tells them. Mutants show that what is left still depends on the code.

**Bounds.** Two jobs and one session are the smallest instance in which jobs compete for the input file and for the
active place; two sessions would only add jobs that do not touch each other, except through the slots, which
`jobs_liveness` makes scarce with one slot. One progress report per job is enough for the sink to see a terminal state.
Three sessions under a limit of two give an eviction and, with expiry, a list with a hole. Requests share nothing but
the session, so one in flight is enough (`FewRequests`), except for saves-as, which move one file: two of them may
overlap, in one session that has its working file alone (`FewMixed`). `FewFiles` lets one removed session leave
something behind, and one session at a time have runs or study files. Three requests on the working file let two writers
collide while a third reads; five files are as many as two directories with two names and an open, unnamed file can hold
at one time, so the bound `Files` stops no step. Four updates of metadata are one that runs, two that wait for it and
collide, and one that comes afterwards and repairs; one reader is enough to replace a cache that an update has filled.
One document, two elements, two cases and two tabs are the smallest numbers at which the hazards of the last three runs
exist: two calls meet at one document, rows move under a change, an edit reaches the wrong case, two tabs refresh with
one token. Two parts of the view are the two kinds there are: one that a reconnection refetches and one that it does
not. Symmetry is used where the elements are interchangeable and no liveness is checked.

Three more systems are cut further, by constraints in their MC modules. `FewerWithTwo` allows fewer changes while a
second watcher doubles all events, and `FewerWithBoth` one fewer when there are a failure and a restart; without the
latter the run has 4,368,208 states and all holds too. `FewAfter` and `Simple` weigh edits, saves, requests, faults, cases and chat calls in
one behaviour of the table and its assistant, more of them when the user does not edit, and stop where a second excepted
thing has happened or nothing is promised any more; `Few` does the same for tabs and sockets. While the modules were
written, wider instances of earlier versions of them were run once each without a violation: the table with the chat
without the weight of `harm` (937,170 states), two turns and three sessions as far as some 960,000 states, the socket
with a larger sum of events (3.3 million states), `TokenRefresh` by itself (9.7 million), `KnowledgeIndex` with one
more change beside a second watcher (2.7 million).

**Deadlock** is not checked in these runs: the systems come to rest once the finitely many jobs, ids or requests
of the instance are used up. `JobsEnd` says that no accepted job is stuck, and the properties at rest say what such an
end must look like.

**Fairness.** `FairSpec` of `AnalysisJobs` assumes weak fairness of `Execute(j)` and `Consume(j)`: the Go scheduler runs
every runnable goroutine, and the solver process ends because its context has a deadline of 30 minutes. Nothing is
assumed of clients: no request, cancellation or removal ever has to happen.

## 5. Proofs

The eight modules of proofs hold for all finite sets of jobs, all sets of sessions, users, requests, files, metadata
updates, readers, document versions, tabs, elements, answers and turns, every bound on concurrent runs, every positive
session limit and every number of faults, retries, tokens and changes.

**AnalysisJobs.** The inductive invariant is
`IInv == TypeOK /\ PlaceInv /\ ReporterInv /\ TopicInv /\ SemInv /\ OneActiveJobPerSession /\ InputIsOwn`.
`OneActiveJobPerSession` alone is not inductive: `BeginRun` makes a job running without looking at the others, so one
needs `PlaceInv`, which ties the registry's state, the verdict, the record and the output to the place of the
goroutine. `ReporterInv` says that a reporter is at work only during the run (this is what waiting for the tailer
gives, and `OneTerminalEvent` rests on it), `TopicInv` what has been published at each place, and `SemInv` that the
tokens in the channel are the jobs that hold one. `NextIInv` takes each conjunct in a lemma of its own, by
cases of the actions. From the invariant follow

| Theorem | States |
|---|---|
| `TypeCorrect`, `OneActiveJob`, `OwnInput`, `BoundedRuns`, `ReportOfCompleted`, `OutcomeToldOnce` | the invariants of the runs |
| `FinishedStays` | the action property `FinishedIsFinal` |
| `QueuedCancel` | `QueuedCancelLeavesNothing`, with one more invariant: a job that has not run has no record, and a job cancelled in the queue stays `Parked` on its way out |
| `Refinement` | every behaviour of `AnalysisJobs` is one of `AnalysisLifecycle` under the mapping in `AnalysisJobs` |

**SessionStore.** `IInv == TypeOK /\ IndexInv /\ FileInv`. `IndexInv` adds to `IndexAgrees` and `WithinLimit` that every
session of the map has an owner, that the creation order lists exactly the drawn ids, each once, and that each user's
list follows that order: the last is what makes evicting from the front evict the oldest, and `CleanupOne` preserves it
because taking an element out of a sequence keeps the order of the rest. `FileInv` says for every place of a request
which files it has already created, and (`LoadInv`) that a case is loaded into a session once, before any save-as of it;
with it `SetSlot`, the setters and the steps of a save-as keep `PathsExist`, and with `TidyInv` no request works on a
session that was removed settled. The lemmas on lists (`RenewedList`, `WithoutList`, `ExcessOfList`)
are about `CreateSession`'s eviction and the expiry loop's removal. The theorems are `TypeCorrect`, `IndexAgreement`,
`SessionLimit`, `NoDanglingPath`, `CleanRemoval` and `FirstInFirstOut`.

**IndexMetadata.** `ReportedIsSaved` is not inductive: a write could go to the file that is `index.json`. The invariant
follows an update that runs by itself: `LockInv` and `AloneInv` say that while nothing is upset there is at most one and
it is the one in the lock; `HeapInv` and `CacheInv` that it is reflected by the object it saves, which is the one in the
cache with all that was reported; `LoneInv` that it has the temporary file to itself and that its text has what its
object had; `FileInv` that the temporary file is never `index.json`; `LoadInv` that what is read into an empty cache is
not older than what was reported. `RunningStep` sorts the actions into beginnings, the two ends and steps `Amid`
an update; with it the lock is a case of five. The theorems are `TypeCorrect`, `LockExcludes`, `NobodyIsForgotten`,
`ReportedStaysSaved` and the action property `LoneRepair`.

**WorkingFile.** Nothing orders these handlers, so each property holds under a condition on which requests met, and so
do the parts of its invariant. `PlaceInv`, `MetInv`, `LinkInv`, `ApartInv` and `DeadInv` need none: what is open at each
place, that a file has one name, and that no file belongs to the session's and to the user's directory (a save never
writes to a working file). `PathInv` lets the working file be where a save-as is about to say it is, and `SolveInv`
keeps the results of a solve until the session records it. `NoLossWithoutOverlap` is of what a request reads, and a loss
starts earlier: `KeepInv` says that an acknowledged edit that met no other rewriting request is in every whole file that
handlers use and in all they are about to write, `WriterInv` that such an edit writes to the file `FilePath` names. For
`SaveIsComplete`, `TornInv`, `NamesInv`, `SourceInv` and `SaveInv` say that without collisions handlers agree on the
name of the working file, all saves copy the same file, and nothing else is put into their targets. The theorems are
`TypeCorrect`, `FilesApart`, `NoLoss`, `PathExists`, `OneSolve` and the action property `SaveCompletes`.

**KnowledgeIndex.** All properties but `PendingHasWorker` are of a service at rest, and a rest is the end of a story
that the invariant has to tell from its beginning. `CallInv` says what a call holds at each place, `MarkedInv` who works
on a pending document, `EventInv` that the last event that waits tells whether the document is there. Without an overlap
one call at most is past its timer (`OneBusy`) and `ProgressInv` says what it has written so far. `WholeInv`, `GoneInv`,
`RemovedInv`, `HashInv` and `FollowInv` then say what is true or still to come: an event, a timer that will read the
document, an indexing of it as it is, a deletion. `HoldInv` keeps an indexing that has read the document from outliving
it unnoticed, and `SavedInv` says that what `index.json` lacks of a document goes with its removal, so that it does not
matter which of the two services was the last to write. At rest nothing is to come, and what is left of each is the
property: `TypeCorrect`, `NoOrphan`, `IndexedWhole`, `RemovedIsGone`, `IndexFollows`.

**TokenRefresh.** `CoreOK` are types and the bounds of tokens. `LastActive` says that the rows of a login form a chain
of which only the last can be active; it rests on `NewInv`, that the token of an answer on its way is the newest of its
login and nowhere else. `FinalInv` adds, as long as nothing that `LogoutIsFinal` excepts has happened, that no row of an
ended login is active (`EndedInv`), that a logout in progress names the only row that may be (`LogoutInv`), that the
store has the active token of its login or awaits it (`StoreInv`), and that no login in the store or in an answer has
ended (`LiveInv`). `KeptInv` does the same for `LoginIsKept`: refreshes wait with the stored token or with a dead one,
one at a time presents it, the answer brings its successor, and the stored token works, is being replaced or is being
logged out. The theorems are `LogoutFinal` and `LoginKept`. The invariants are proved for every `TokenStep`, a step of a
tab whose refresh may have been started by anybody, and **LiveSocket** shows that each of its own steps is one:
`SocketLogoutFinal` and `SocketLoginKept`. `TabTypes` adds the types that the login does not rest on, and that a request
that waits for a refresh has one to wait for: `TokenTypes`.

**LiveSocket.** `SocketOK == CoreOK /\ TabTypes /\ SocketTypes` gives `SocketTypeCorrect`: at most one socket is
`wsRef`, and the one that is was not closed by the client. For that, `WaitTypes` says that a `connect` which awaits a
token is of a tab that refreshes, so that several of them go on together and only the last keeps the ref. `StaysLive`
states `LiveAtRest`. Its invariant `RestInv` holds as long as it is `Calm`: no trouble has happened but missed events.
`Used` says that a socket that is open or opening is `wsRef`, so that the client can still talk to it and close it;
`HookInv` that a tab with a token has a socket, whatever state it is in, or a timer or a call that will make one;
`OpenInv` that the status and `hadConnectedRef` know of an open socket; `SubsInv` that the subscription lasts from the
render that saw the connection to the one that saw its end, and was told to the socket that is open between them;
`ViewInv` that each part is shown as it is, or is `Due`: told of over the socket, asked for, answered, due when the next
connection opens if a reconnection asks for it, or missed for good if none does. At rest nothing is on its way, so one
socket is left, open and subscribed, and the parts that every reconnection asks for are shown as they are, the others
unless an event of theirs was missed.

**Assistant.** `TableFollows` states `RowsAreTheServers`. `IInv == TypesInv /\ StreamInv /\ OpenInv /\ FreshInv`.
`FreshInv` is the property away from rest, as long as nothing it excepts has happened: either something promises that
the case will be asked for again (a refetch on its way, a save or an applied edit in flight, the delay after a tool's
edit, a session just opened, a turn that the tab reads and whose edit it has not been told of), or the last answer read
of this session, or else the one on display, has the rows of the case. A turn promises only what its stream is still
going to say, so `StreamInv` says that the last event of a stream is its last and says of no edit, and `OpenInv` that a
session opened by a turn is known to the tab, announced, or known to nobody but the call that made it. At rest nothing
is promised (`RestIsFresh`).

`HistoryFollows` states `HistoryStartsAtTheTable`. Its invariant `HistoryInv` looks ahead to the end of a save:
`Targets` are the values the rows of the case will have once all pending changes are saved. Taken from its end, each
stack leads back from them (`LeadsBack`): a command that is the last of its row brought the target, and of two commands
of a row that follow one another the later started where the earlier ended. A save moves values from `changes` into the
case and no target (`SaveSends` says which rows have theirs), an undo moves one command across (`CommandMoves`), a merge
and a trim keep what remains in line. Proving it needs that rows keep their order and elements their one row
(`RowTypes`), and `RestIsCurrent` for the edit, which starts from what the table shows, and for the end.

`EditsStay` states `NoEditIsForgotten`; it has a module of its own, `AssistantEdits_proofs`. Its invariant `KeptInv`
says where a value is before it is in its case: every row of every case has the value wanted there, or that value comes,
as a pending change at the row, in the save in progress or in the rows it still has to send, or in a request (`Kept`).
Deletions and edits of a tool need nothing more, because they put the value where it is wanted. What makes a pending
value reach its element is `PendInv` and `SendInv`: pending changes are of the rows on display, which are rows of the
session in use, they have the values wanted, and a save sends exactly these. `FirstInv` and `TurnInv` are of cases not
loaded yet and of sessions that only the call knows which made them: nobody has given values there, and no turn works in
them, so that a load gives every row the value that is wanted. `ClashInv` keeps the assistant and the user apart until
they meet. A value typed back to the row's own drops the pending change; that it is then in the case is `RestIsCurrent`
again.

`AssistantTypes` states `AssistantTypeOK`, in the same module. `TypeOK` of the table and the types of the turns are not
inductive by themselves; `TypeInv` adds what they rest on, and uses the invariants of the other three theorems.
`SentInv`: an edit goes to a case that is there and that the tab knows (`New` of no case in use), so a case not loaded
has no rows. `AnswerInv`: answers being read are different from each other, from the one on display and from the one a
running save reads. `SizeInv`: undo and redo move commands and only an edit makes one, so both stacks together stay
within the edits made and within `maxHistorySize`, although `trimHistory` looks at the undo stack alone. `ReadInv`: only
the turn the tab reads has events on their way, and one that has ended has its last event still to be read, so the tab
never waits for a turn that says no more. `DueInv` counts: `Begun` are the rounds that have begun, and each refetch due,
each event on its way and a round in progress (`Owed`) is of another one; hence no more refetches are due than there can
be rounds, however the turns, a stop and the delays interleave.

The assumptions are those of the constants, named in the modules: the bound on runs is an integer, the bounds on reports
and on calls natural numbers, so are those on rounds, edits and history, the sets of jobs, of elements and of turns
finite, the session limit positive, the first value of an element one of its values, and the "none" values are outside
the sets they complete. TLC evaluated every part of the invariants on the instances of the runs, or on smaller ones
where two turns or two faults make the run's too large, before they were proved.

**Only model-checked.** `JobsEnd` and `CancelTakesEffect`: liveness under fairness needs ENABLED, which the installed
provers do not handle. Every other property of a passing run is the subject of a theorem.
Modules with RECURSIVE operators are out of reach too; no module has one.

## 6. Findings

- **A cancellation of a finished job can succeed** (`jobs_cancel_finished`). `Cancel` reads the state under the mutex
  and cancels after it has released it; a job that finishes in between is reported as cancelled, though "Cancelling a
  finished job is an error." (`analysis_job.go:133`).
- **Evicted sessions leave directories** (`store_eviction_leak`). Eviction removes the directory only when `FilePath` is
  set. A case whose copy failed, and a study file loaded into a session without a case, leave
  `sessions/<user>/<id>` behind for good (`session.go:156`).
- **A failed save-as can delete a case** (`working_file_save_as`). `SaveCaseAs` may write over an existing case; when
  the rename that follows fails, it removes "the new user file we created" (`session.go:1253`) without asking whether it
  was new.
- **`index.json` can be renamed while it is written** (`index_metadata_atomic`). Two updates that waited for the same
  third one go on together and share the temporary file: one renames it after the other has truncated it
  (`indexMetadata.repository.ts:116`), and the other's rename fails. Three documents added together are enough.

The exceptions of the properties are disagreements of a smaller kind: behaviours of the code that TLC finds when the
exception is taken out, with no comment that promises otherwise unless one is named.

Knowledge base (`KnowledgeIndex.harm`)

- `late clean`: the api-server removes the chunks and the entry of a document after it has removed the document
  (`session.go:1106`); when it has been uploaded again by then, they are those of the new one.
- `masked`: the hash that decides whether a file changed is read after the timer, from the file itself, so that a change
  made while the document is indexed can be taken for what is being indexed; a second start of the watcher takes a
  document that was never indexed as known; a `change` timer replaces an `add` timer.
- `late timer`: a timer still set when the removal is handled indexes a file that is gone and leaves status `error`.
- `unremoved`: `deleteDocument` fails after the chunks are gone; the same content uploaded again is then skipped.
- `killed`: a document left `pending` by a stop is not retried (`fileWatcher.service.ts:477` retries `error` only).
- `overlap`, `unwatched`, `failed`, `unrecorded`: two calls at one document; a change during a restart; a failed await;
  an error that could not be recorded.

Network table and chat (`NetworkTable.harm`, `Assistant.friction`)

- `shifted`: pending changes are keyed by row position and move to another element when a row is added or deleted.
- `midsave`: edits made during a save are dropped when it ends (`NetworkDataTable.tsx:1062`).
- `merged`, `typed back`, `early`: a merge into the last command keeps the redo stack (`UndoRedoManager.ts:36`,
  against the comment on line 51); a value
  typed back to the row's own leaves no command; a command entered while the rows are about to change starts from old
  ones. A history is kept after a save, as a comment at `NetworkDataTable.tsx:1051` wants and `UNDO_REDO_DESIGN.md:15`
  denies.
- `refused`: a save that is refused leaves its value in the row on display.
- `overtaken`: answers of refetches are applied in the order they arrive.
- `switched`, `carried`: pending changes and history survive the opening of another case, because the table has no key
  for its session; `crossed`: a save in progress goes on into the new case; `unread`: the old rows stay when the first
  fetch of the new case fails, while requests already go to it. A dialog that was open stays open (`switched` too): what
  is applied in it was read off a row of the old case and is sent to the new one.
- `unheard`: Stop ends the reading, not the turn; its later edits are not fetched. `unanswered`: an addition or deletion
  whose answer was lost is retried, fails, and is reported as a failure, so nobody refetches. `clash`, `beside`: the
  assistant, or a request beside the table, edits at the same time as the user. `rewritten`: a tool changes rows that
  the history is about, and an undo goes back to values from before it. The run's bounds had hidden this one; the
  attempt to prove `HistoryStartsAtTheTable` found it, and the bounds are wider now.
- A stopped turn goes on in a session the tab does not know (`"apart"` in `opening`), and a retried opening makes a
  second session; of two cases opened in one round the tab takes the first and the turn the last.
- The tools that save a case report success without saving (`toolExecutor.ts:621`), though `sdkFunctions.ts:514` says
  that they persist it; this is a constant answer, which no run is needed for.

Login and live updates (`TokenRefresh.harm`, `LiveSocket.trouble`)

- `raced`: two tabs whose wait for a sibling ends send the same token, and the second burns the chain
  (`refresh.ts:124`). `lost`: an answer lost after the rotation, or a page that is
  loaded again before it handles one, has the same effect at the next refresh (`refresh_tokens.go:167`), and a logout
  that follows revokes a token that was replaced. The bounds of the run hid the case of the reload; the attempt to prove
  `LogoutIsFinal` found it.
- `server error`: every status but 200 and 404 clears the store, a 500 too (`refresh.ts:147`).
- `crossed`, `old news`: a login or logout beside a refresh; a tab that takes a message older than its store.
  `unrevoked`, `cut short`, `lapsed`: a logout the server did not hear, one a reload interrupted, a token past its time.
- `stale token`, `gave up`: the tab that refreshes does not update its own state (`AuthProvider.tsx:208` says it does),
  so that its reconnections use the old token until the attempts are used up.
- `reopened`: the close that follows a logout schedules a reconnection with the old token (`useWebSocket.ts:239`).
- `late close`, `overlap`: a close event of an old socket sets the status while a new one is open; `connect` looks only
  for an open socket, not for one that is connecting (`useWebSocket.ts:158`).
- `missed`: "refetch everything on the watch list so the UI catches up" says a comment (`App.tsx:272`), and
  `handleStaleOnConnect` does not refetch the results of the power flow, which `powerflow:completed` does: a solve of
  another client that ends while the socket is down is not shown when it is back, until something else fetches it.
  `LiveAtRest` states what holds instead, and shows the difference: it has this one exception by part.
- `overtaken`: answers of refetches that overlap are shown in the order they arrive, and the older one may come last.
- `gap`, `unread`, `late render`: a change between refetch and subscription is missed; a failed refetch is only logged;
  effects that run after the state has changed again.

## 7. Not modelled

- **Pure functions**: parsers, report building, the sanitiser, ranking and embeddings. TLC could only repeat them, and
  their results are not told apart by any property here.
- **Diagram and layout** (some 8,000 lines): computation and drawing, without state that a second actor changes. The
  pages, dialogs and charts of the client: what they ask of the server is in the modules, what they show is not. These
  two make up most of the lines of the implementation, which is why the share of lines that the modules stand for is
  small.
- **Single requests over the database**: registration, password reset, mail. The mode without authentication.
- **Hub, publisher, tailer**: the hub's locks and channels, the debounced `network:updated` event (which no component of
  the client listens to) and the byte offsets of the tailer. `hub.go:105` closes a slow client's channel under the read
  lock, which two broadcasts may hold; a broadcast is one step here.
- **In modelled parts**: of the table, the third failure of an opening's first fetch, `resetSession`, and the context
  menu apart from the dialog it opens; of the chat, tools that read, solve or save, the order of reads before writes,
  the polling guard, the knowledge-base context; of the login, `logoutAllDevices` and the `refresh_start` message; of
  the socket, heartbeats, subscriptions by topic (they are made and lost together), the lists that are fetched again
  after a login, and the calls of `reconnect` and `disconnect` that no component makes; of the knowledge base, the
  removal of a whole user; of the session registry, the uploads to and the listings of the user's directories.
- **The flow-solver**: a closed binary; the modules know its exit, its output file and that it reads its input when it
  starts. Deployment is configuration.
