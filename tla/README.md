# CloudVault web client: TLA+ models

The repository is one browser script, `src/static/app.js`. It talks to a
storage server that is not in the repository; `spec.md` describes that server's
API. The script's hard parts are:

- the upload pipeline: content hashing, instant upload (dedup by digest),
  chunked and resumable multipart upload, and folder (batch) upload;
- resolution of a target path to a folder id, which creates missing folders
  and caches listings in `state.folderCache`;
- the files page and the recycle bin, whose listings, selections and
  operations interleave;
- login, logout and the user profile, kept partly per tab (sessionStorage)
  and partly per browser (localStorage).

Every handler is an `async` function on the browser's single event loop.
Handlers never run in parallel, but they interleave at every `await`. The
models treat each `await apiFetch(...)` as one step: the server handles the
request atomically and the client runs on to its next await. Where a response
can land after later events (listings), the request and the landing are
separate steps. Where a module models failures, it models them as follows:

- `MultipartUpload` (and the `InstantUpload` and `FolderUpload` modules built
  on it) and `RecycleBin` have lost requests and lost responses, bounded by
  `MaxFaults`. `apiFetch` throws on both, but only a lost response leaves a
  server-side effect behind.
- In `PathResolver` any listing or create call may throw (a listing is read
  only; a create may be lost before or after the server acted).
- `FileBrowser` and `Session` have lost responses: the handler's catch runs
  and nothing else changes.

## Inventory

| Part | Code | Module | Status |
|---|---|---|---|
| Chunked upload orchestrator | `uploadByMultipart` 1022-1105, `handleMultipartUpload` 1107-1126 | `MultipartUpload`, abstract `UploadAbstract` | partly: the progress bar is left out |
| Upload server (external) | spec.md 4.3, 4.4, 6 | `UploadServer`, parts of `InstantUpload`, `RecycleBin` (spec-modelled) | partly |
| Instant-upload negotiator | `handleInstantHash` 941, `handleInstantUpload` 960 | `InstantUpload` | modelled |
| Batch/folder upload | `handleFolderUpload` 1306, `uploadFileMultipartForFolder` 1236 | `FolderUpload` | partly: path resolution abstracted |
| Path resolver | `listChildren` … `resolvePathToFolderId` 1128-1234, `resolveUploadTarget` 903, `ensureFolderPath` of a folder upload 1180 | `PathResolver` | partly: renames and deletes of folders left out; a batch's `pathMap` left out |
| File browser | `refreshCurrentFolder` 478, `openFolder`, `goUpFolder`, `updateBreadcrumb` 457, `restoreLastFolder`, search, selection | `FileBrowser` | partly: the stored last selection and the buttons that read it are left out |
| File operations | rename 674, move/copy 702, delete 728, create folder 748 | `FileBrowser`, `PathResolver` | partly: copy left out |
| Recycle bin | 1458-1581, `toggleRecycleSelectAll` 213 | `RecycleBin` | modelled |
| Content hasher | `hashFile` 890 | abstracted to the content identity | partly |
| Auth and session | state init 6-16, `setToken` 85, `setUserProfile` 63, `handleLogin` 341, logout 335, `initPage` 2225 | `Session`; `MultipartUpload` (token check, logout) | modelled |
| Profile page | `loadCurrentUserProfile` 1782, `saveCurrentUserProfile` 1804, `initProfilePage` 1883, `renderProfileIdentity` 1718 | `Session` | modelled (the activity summary only renders) |
| Share, tasks, library, analytics, rendering | rest of the file | — | not modelled: one request and a render each |

## Modules

### `UploadServer` (environment, spec-modelled)

The server's upload endpoints, taken from spec.md. State:

- `objects`: the dedup store;
- `blob[c]`: the pieces `<<content, start, end>>` object `c` was assembled from;
- `sessions[d]`: the session keyed by digest `d`, with its chunk size and the
  `<<index, piece>>` pairs received;
- `records[f, c]`: the number of file records named `f` holding content `c`.

A digest is identified with the content it hashes. The operators `SrvInstant`,
`SrvOpen`, `SrvChunk`, `SrvComplete` (and `Materialize`) are used inside the
client action that sends the request.

### `MultipartUpload` (extends `UploadServer`)

`att[a]` is one click of the upload button: phase, file, digest, chunk size,
total, `uploaded` set and loop index. `loggedIn` is "a token is set" and
`faults` counts lost requests and responses.

- `Launch`/`Start`: the click: token check, digest, the chunk-size field and
  the chunk count (`ChunkSize`, `TotalChunks`).
- `InitCall`: an instant hit, or a session opened or resumed, whose
  `uploaded` set is kept.
- `ChunkCall`: one loop iteration sending the next index not in `uploaded`
  (`NextMissing` is the `continue` skip).
- `CompleteCall`, `Logout`.

Each call ends in one of four ways: the request is lost; the server rejects it;
the server acts and answers; or the server acts and the answer is lost.
`Rejected(a, continue)` is `apiFetch`'s `!response.ok` throw: `continue`,
what the caller would do with the returned body, never runs (an init
rejected would read `{}` and throw "Missing upload ID" in any case).

### `UploadAbstract` and the refinement

`UploadAbstract` states what an upload click promises. A click begins with one
file. Then it either stores that file's bytes and adds exactly one record of
it, reporting success or (if the answer is lost) failure, or it fails and adds
nothing. Every click that begins ends.

`MultipartUpload` instantiates it (`Abs == INSTANCE UploadAbstract WITH ...`)
under this mapping:

- a click is `busy` while in `init` or `chunk`;
- the stored contents are the committed objects that are `Intact`;
- records map to records.

`ImplementsAbstractUpload == Abs!AbsSpec` is checked as a property of the
`folder` run, where each batch reuses its attempt slot file after file (so
`Begin` takes any slot that is not busy) and the multipart button runs
beside it. The mapping hides the sessions and chunks. A corrupt commit, a
second record for one click, a record of another file's name, or a click
reported done without a record would each be a step the abstract spec does
not allow. An attempt slot is one click: `Start` takes an idle slot, which
is how the model names clicks, not a guard of the code (the code lets any
number of clicks overlap, and the runs give two or three).

### `InstantUpload` (extends `MultipartUpload`)

This is the instant-upload page:

- `chosen`: the file input;
- `jobs`: `handleInstantHash` invocations, one per selection or hash-button
  press;
- `hashField`: the `instantHash` input;
- `ic[a]`: one click of the instant button.

The actions are:

- `Select`, `HashClick`, `HashDone`;
- `Click`: the hash field is taken as the digest if filled;
- `OwnHashDone` and `TargetResolved`;
- `HashCall`: POST upload/hash;
- `Decide`: `IsInstantHit` requires `instant === true` and a positive
  `file_id`, otherwise it falls back through `Launch` into
  `MultipartUpload`'s actions.

The server may answer a dedup hit with or without a file id (spec.md 4.3).

### `FolderUpload` (extends `MultipartUpload`)

`batch[b]` is the `handleFolderUpload` call of folder-button click `b`.
Clicks may overlap, as in the code; each drives an attempt slot of its own.
Its actions are:

- `FolderClick`: the click of slot `b`;
- `BatchTarget`: the target, then the folder chunk-size field;
- `EnsurePath`: `ensureFolderPath` resolves or throws; on success
  `uploadFileMultipartForFolder` starts through `Launch`;
- `FileEnded`: the next file, completion, or abort on the first error
  (`Following`).

The file's own init, chunk and complete are `MultipartUpload`'s actions on
the click's attempt `b` (`FolderFileStep`). The other attempts are clicks of the
multipart button, so the batch and the button share digest-keyed sessions.
`ensureFolderPath` itself is `PathResolver`'s business. `FUQuiescent` is the
page waiting for input: it is enabled exactly when no continuation
(`BatchStep`, any attempt's `Step`) can run, so an await that never returns
leaves the page there and shows up as a liveness violation, not a deadlock.
The `folder` run checks `MultipartUpload`'s properties as well, since it
fires every one of its actions.

### `PathResolver`

State:

- `entries`: the server's folder tree, whose index is the id;
- `cache`: `state.folderCache`;
- `op[o]`: one running resolution, with its path, position, current folder and
  any listing in flight;
- `found`: a history of the folders resolved.

Actions:

- `Begin`: a handler resolving the typed path `raw` from a base folder
  (`resolveUploadTarget`'s last folder, `handleMoveCopy`'s current folder),
  as `resolve` or as `ensure`. `ParseTarget` translates `normalizePath` and
  the head of `resolvePathToFolderId`: `""` and `"."` give the base, `"/"`
  and `"root"` (any case: `RootWords`) the root, a leading `/` starts from
  the root, and the pieces between slashes, empty ones dropped, are the
  segments. A typed path is a sequence of tokens (`"/"`, `"\"`, names), so
  a name is never spelled out character by character;
- `StepSegment`;
- `ListReturn`: the `resolveFolderId` decision;
- `CreateReturn`: `ensureFolder`'s POST, "exists" absorbed, cache delete and
  re-list; any other error is rethrown before the delete;
- `RelistReturn`;
- `Failed`: a listing (`ListReturn`, `RelistReturn`) or a create
  (`Resolved`, `CreateReturn`) throws and the handler's catch ends the
  operation;
- `HandleCreateFolder`: the create-folder button in the current folder,
  whichever folder that is;
- `ExternalCreate`: another client creates an entry;
- `BatchBegin`: `handleFolderUpload` calling `ensureFolderPath` for the
  folder parts of one file's relative path, from the resolved target. The
  batch passes its own `folderCache = {}`, so a `batch` operation never
  reads or writes `state.folderCache` (`Shared`, `CacheSet`): every
  segment is listed, and its creates go through `ensureFolder` like
  `ensure`. The `pathMap` that reuses the folders of earlier files of the
  same batch is left out.

`ListMap` is one page of `PageSize` entries, folders only.
`ResolvedIsFolder` compares the result with `SpecTarget`, spec.md 4.2's
rules for reading a path, written independently of the code's early
returns. For a batch it compares with the relative path under the target.

### `FileBrowser`

State:

- the server tree (`parent`, `name`);
- `cur`: `state.currentFolderId`;
- `stack`: `state.folderStack`;
- `crumbs`: the breadcrumb's buttons, the stack as `updateBreadcrumb` last
  rendered it when a listing landed;
- `shown`: the listing on screen;
- `selected`;
- `saved`: localStorage `go_pan_last_folder`;
- `inflight`: listing and search responses.

Actions:

- listing and search: `RestoreLastFolder` (a walk of the saved path, `Walk`),
  `Refresh`, `Search`, `ListLands`, `SearchLands`, `ResponseLost`;
- navigation: `OpenFolder`, `GoUp`, `CrumbClick` (the button's listener
  captured its crumb at rendering and slices the stack as it is now);
- selection: `ToggleRow`, `SelectAll`;
- operations: `Rename`, `Move` and `Delete`, each followed by its un-awaited
  refresh.

### `RecycleBin`

State:

- `bin`: the server's bin, spec-modelled;
- `files`: `state.recycleFiles`;
- `selected`: `state.recycleSelected`;
- `inflight`: listings not yet landed;
- `act[h]`: one restore or delete invocation, with the snapshot of the
  selection it still has to send.

Actions:

- `ListClick`/`RequestList`, then `ListLands` (reads `data.files` without
  unwrapping, `Files`) or `ListLost`;
- `ToggleRow`, `SelectAll`;
- `ActStart`;
- `ActCall`: one request per item. The request may be lost, or rejected
  because the item is already out of the bin. Otherwise the server acts and
  the answer arrives (`Advance`) or is lost. After the last item comes the
  un-awaited re-list, answered from the bin the last action left.
  `Abort` is the catch.

### `Session`

Each browser tab runs its own copy of the script. Per tab, the model keeps:

- `token[t]`: `state.token`;
- `ssToken[t]`: the tab's sessionStorage;
- `profile[t]`: `state.userProfile`;
- `page[t]`;
- `pending[t]`: requests awaiting an answer.

All tabs share `lsProfile`, the localStorage profile. A token and a profile
are abstracted to the account they belong to.

Actions:

- `Navigate`: a page load. The state object is rebuilt from storage: the
  token from sessionStorage, the profile from localStorage. The old page's
  requests are dropped. The profile page starts its silent
  `loadCurrentUserProfile`.
- `Restart`: the browser is closed and reopened. sessionStorage is lost and
  localStorage kept.
- `LoginClick`/`LoginLands`: `handleLogin`, refused while the token decodes.
  Its answer goes through `setToken`, then through `setUserProfile` when it
  carries `data.user` (`LoginAnswers`).
- `Logout`: `setToken("")`, which also clears the stored profile.
- `ProfileClick`/`ProfileLands`: the reload and save buttons; the answer goes
  through `setUserProfile`.
- `Fail`: any request's catch.

`AuthUser` (the header of `updateAuthUI`) and `Shown`
(`renderProfileIdentity`) are the accounts the page names; `DecodeJWT` is
the token's user:

- nothing without a token;
- otherwise the profile's account, falling back to the token's.

## Runs

| Run | Expect | What it shows |
|---|---|---|
| `multipart_retry` | violation | `RestartMaterializesOnce`: two clicks upload one file; one succeeds, the other's init hits the instant path and its answer is lost. The user sees one success and one failure, and the folder holds two records. The restart spec.md 7 prescribes after a failure reaches the same state in the other order. |
| `multipart_chunksize` | violation | `StoredObjectsIntact`: a session opened at 5 MiB is resumed at 4 MiB, and its indices are trusted, so the object is built from overlapping pieces. |
| `resolver` | pass (1,063,944) | Two overlapping resolutions (resolve, ensure, or a folder upload's `ensureFolderPath` through its own cache) of eight typed paths or two relative folder paths (relative from any existing folder, absolute, with a backslash or an empty segment, `""`, `"."`, `"/"`, `"Root"`), one external create, the create-folder button in any folder, and a failure of any listing or create. Every result is the folder spec.md 4.2's reading of the path names (`ResolvedIsFolder`). `ensure` never throws "created but not found" (`NoConsistencyError`). |
| `resolver_mkdir` | violation | `NoFalseNotFound`: `handleCreateFolder` does not invalidate the cache, although spec.md 3 (FolderCacheEntry) says a folder creation does. Folder-upload batches, which create folders through their own cache, run beside it. |
| `resolver_race` | violation | `NeverForgetsFound`: a listing requested before `ensureFolder` created a folder lands after its re-list and overwrites the cache. |
| `instant` | pass (164,986) | Two selections, two hash jobs, two clicks and one fault. Every click reported uploaded has a record (`SuccessesHaveRecords`), a click adds at most one record (`AtMostOneRecordPerClick`), and every click ends (`InstantClicksEnd`). |
| `instant_stale` | violation | `StoredObjectsIntact`: select f1, then f2; f1's hash lands last; the click uploads f2 under f1's digest and the multipart fallback commits f2's bytes as f1's content. |
| `browser` | pass (1,808,636) | A three-item tree, a saved folder, two listings in flight, stacks three deep with a breadcrumb that may be older than the stack, one operation. The selection is always rows on screen (`SelectionShown`). |
| `folder` | pass (212,932) | Two overlapping clicks of the folder upload button on a two-file folder, beside a multipart-button click on the same files. Each file is 7 MiB at 5 MiB, a full and a short chunk. One fault, and logout. No corrupt object is committed (`StoredObjectsIntact`). "Folder upload completed." means every file is stored (`CompletedBatchStored`). Every batch ends (`BatchEnds`) and every click ends (`AttemptsTerminate`). Every step implements `UploadAbstract` (`ImplementsAbstractUpload`). |
| `recycle` | pass (24,321) | Two items, three list clicks, two restore/delete invocations, one fault. The selection is always listed (`SelectionListed`), and every loop ends (`LoopsEnd`). |
| `recycle_envelope` | violation | `BinShown`: with the `{code, data}` envelope of spec.md 6, `handleRecycleList` reads `data.files` of the envelope and shows an empty bin. |
| `session_tabs` | violation | `ProfileIsTokenUser`. Tab 1 logs in as u1, tab 2 as u2. Tab 1's next page load reads u2's profile from the shared localStorage, so it shows u2's id, name and quota beside u1's token. |

Some defects met while modelling are listed as hazards in PROJECT.json but
are not runs:

- a stale `refreshCurrentFolder` response shows another folder's rows;
- `openFolder` on a search result saves a last-folder path that does not lead
  to its id;
- `ensureFolder` throws once a parent has more than a page of children;
- the folder and multipart chunk-size fields slice one shared session
  differently;
- a second restore/delete click re-sends requests for items already out of
  the bin;
- in one tab, a login answer without `data.user` (after a restart, or after a
  second login click raced the first) leaves another account's profile
  beside the new token. `ProfileIsTokenUser` fails with `LoginAnswers`
  including `FALSE`, even with one tab;
- two quick breadcrumb clicks: the second button's captured folder becomes
  current while the stack was cut for the first, so the page lists a folder
  that is not the top of the stack and saves a path that does not lead to
  it (TLC finds it with `cur = stack[Len(stack)].id` as an invariant);
- a restore or delete loop's re-list races a listing sent before it, and
  the older answer landing last shows rows already out of the bin;
- with nothing selected, preview and download act on the stored selection,
  which may be a row the user unchecked or one since deleted.

Each property of a passing run is shown to see the code by a mutant, a
plausible bug in a mapped definition that TLC then finds:

| Property | Mutant |
|---|---|
| `StoredObjectsIntact` | `TotalChunks` with floor |
| `AttemptsTerminate` | loop end past `totalChunks` |
| `ImplementsAbstractUpload` | `apiFetch` without its `!response.ok` throw (`Rejected`) |
| `IUTypeOK` | the file written into the hash field |
| `SuccessesHaveRecords` | the instant flag alone taken as a hit |
| `AtMostOneRecordPerClick` | `"true"` string compare |
| `InstantClicksEnd` | fallback not launched |
| `FBTypeOK` | breadcrumb path including the root |
| `SelectionShown` | `setFileList` keeping the selection |
| `FUTypeOK` | off-by-one end of the batch loop |
| `CompletedBatchStored` | a failed file skipped |
| `BatchEnds` | a failed file never handled |
| `RBTypeOK` | off-by-one loop exit |
| `SelectionListed` | `recycleSelected.clear()` dropped |
| `LoopsEnd` | loop never left |
| `PathResolver` properties | files kept in the listing map, missing cache delete, a leading `/` that keeps the base (`ParseTarget`) |

### Bounds

- **Uploads.** Two attempts give every pairwise interleaving of init, chunk
  and complete. Two chunks (7 MiB at 5 in the folder run, 6 MiB in the
  instant run) give a first piece and a last one, short in the folder run.
  Up to two faults (one in the folder and instant runs) allow a lost
  request and a lost response in one behaviour.
- **Hash jobs.** Two hash jobs and two files make late, out-of-order hash
  results possible.
- **Folder upload.** Two files in the selection and two overlapping batch
  clicks make a batch racing another, and a retry after an abort, possible.
- **File browser.** `MaxInFlight` 2 allows two listings to race. `MaxStack` 3
  gives a breadcrumb with two clickable buttons, so a button older than the
  stack can be clicked; `MaxOps` 1 keeps the run near 1.8M states. A nested
  folder, a file and two names give rename, move into a descendant
  (refused) and a search hit outside the current folder.
- **Recycle bin.** Two items give a two-item loop; `MaxLists` 3 and two
  invocations give a double click racing the re-list.
- **Resolver.** `PageSize` 10 means no truncation (the page-size hazard is
  not reached); `MaxExternal` bounds the
  other client. The eight typed paths take every branch of the parser. The
  batch paths `n1` and `n1/n2` make a batch create two levels while the
  other operation resolves through the shared cache.
- **Session.** Two accounts and two tabs, with one page load, are the
  smallest case in which one tab's login reaches the other's state. Login
  answers carry `data.user`, so the run does not rest on a server that
  leaves it out.

### Fairness

Weak fairness is assumed on every step the browser completes by itself:

- each attempt's next call, and the instant click's steps;
- hash jobs finishing;
- the folder batch's steps;
- recycle loops, and listings settling.

The browser settles every fetch, with an answer or a network error, and runs
the continuation. Clicks, selections, logout and other clients are the user's
and the environment's, and are not fair.

Each module has a `Quiescent` stuttering step for a page waiting for input,
so the deadlock check stays on. In `RecycleBin` that step is also allowed
while a handler waits on an await whose answer has already settled. In
`FolderUpload` it is allowed whenever no continuation can run. A continuation that can run is then forced by fairness, so a hang
shows as a liveness violation. `Session` states no liveness and assumes
no fairness. Its page loads, navigation and restarts make every state a
waiting page.

## Not modelled

- Float chunk sizes: `Number(...)` of the chunk field may give a fraction,
  while the models use whole MiB. Also left out: hex formatting of digests,
  progress text, rendering and error wording. The one exception is
  `includes("exists")`, whose hazard is listed.
- `trim()` of the typed path. Paths are token sequences whose names are model
  values, so surrounding blanks do not arise.
- Copy in `handleMoveCopy`. It creates items with fresh ids, which no
  property reads.
- The stored last selection (`saveLastSelection`, `loadLastSelection`) and
  the buttons that read it: preview, download link, archive, share and
  favourite. Each sends one request and shows its answer; none changes
  state another handler reads. `searchMode` is written and never read.
- `handleRegister` and `handleActivate`. Each is one request whose answer only
  sets a status. The activity summary on the profile page is also left out:
  it renders counters.
- `handleURLUpload`, and the share, offline task, library and analytics
  pages. Each is one request and a render of its answer.
- The batch's `pathMap`, which reuses the folders of earlier files of one
  batch. `PathResolver` models one file's `ensureFolderPath` through the
  batch's own cache; `FolderUpload` abstracts it to resolve-or-throw.
- `InstantUpload` against `UploadAbstract`. The refinement does not hold
  while a stale hash field can send one file under another's digest. That
  is the defect `instant_stale` shows, and the `instant` run keeps it
  possible.

## Further work

Each hazard still without a property (see `PROJECT.json`) is a defect of
the kind the violation runs show, and would need a run of its own:

- renames and deletes leaving `state.folderCache` stale (line 1144);
- listings landing out of order after quick folder clicks (line 478);
- the breadcrumb keeping old names, and `openFolder` on search rows (506);
- two quick breadcrumb clicks leaving the current folder off the stack (469);
- a recycle listing landing after the loop's re-list (1545);
- the upload target box filled from the stored path (line 1396);
- the profile reload landing after logout (line 1793);
- the offline tasks page's listings landing out of order.
