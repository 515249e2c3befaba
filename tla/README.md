# TLA+ models of the document broker (`src/wsd/DocumentBroker.cpp`)

This directory holds TLA+ specifications of the per-document coordination
engine of the collaborative editing server, the model-checking
configurations that check them with TLC, and `PROJECT.json`, which records
for every definition the source lines it translates, every run, mutant,
finding and the hazards of the code.

## The system

`src/wsd/DocumentBroker.cpp` contains two unrelated pieces of code.

1. **The DocumentBroker** (lines 1-1700). There is one broker per open
   document, and each runs one thread (`pollThread`). That thread owns:
   - the map of client sessions (`_sessions`, a `std::map` ordered by id);
   - the child process (the *kit*), which holds the document and renders it,
     reached over one framed socket;
   - the storage binding (`StorageBase`: local or WOPI), used to download
     and upload the file;
   - the tile cache.

   The thread polls the sockets, runs callbacks from other threads, and on
   every wake-up evaluates its timers:
   - the save-in-progress gate;
   - the shutdown request;
   - the autosave tick, which calls `autoSave(true)`;
   - the idle/empty stop check.

   When `_stop` is set, the thread flushes its sockets for about a second,
   then calls `terminateChild`. That shuts every client down
   (`shutdownClients` → `removeSession(id, true)`) and closes the kit.

   How the parts interact:
   - **Clients join** through `addSession` → `load`. The first load
     downloads the file and takes its mtime. Every load checks the WOPI
     token ledger (`tokenUsed`) and may refuse.
   - **Editing commands** go to the kit with `forwardToChild`. The kit
     answers with frames addressed `client-<id>` or `client-all`, which
     `forwardToClient` delivers, dropping those for a session no longer in
     the map.
   - **A save** is a round trip:
     1. `sendUnoSave` sends `.uno:Save` to the kit.
     2. The kit writes the jailed file and answers `unocommandresult`.
     3. The session calls `saveToStorage`, which uploads the file unless the
        kit said "unmodified" or the mtime did not change.
   - **When the last editor leaves**, `removeSession` → `destroyIfLastEditor`
     sets `_lastEditableSession` and `_markToDestroy`. It forces a save and
     leaves the session in the map. `saveToStorage` removes the session
     when the answer comes and sets `_stop`.
   - **If the kit dies**, `childSocketTerminated` shuts all clients down.

2. **MergeODF** (lines 1700-3967), a REST endpoint that merges JSON data
   into ODF templates. It runs in forked processes and keeps an access
   counter per API in SQLite (`LogDB`). It does not share the broker's
   concurrency model.

`src/unnamed/part_000` is `configure.ac`, the build configuration.

The client session, the kit, the storage plugins and the broker registry
(find-or-create by document key) are not under `src/`. Where the broker
talks to them, they are modelled from `spec.md` as its environment, and
their definitions are marked `spec_modelled` in the map.

## Modules

### `DocumentBroker.tla`: one broker, its clients and its kit

**Steps.** The broker thread is single-threaded, so each of its steps is
one handler run to completion:
- one iteration of the timer part of `pollThread`: `AutoSaveTick`,
  `IdleTimeout`;
- leaving the loop (`LoopExit`) and the end of the flush (`FlushDone`,
  which is `terminateChild`);
- a join (`AddSession`, which is `addSession` + `addSessionInternal` +
  `Load`);
- a client's edit, save or disconnect (`ClientEdit`, `ClientSave`,
  `Disconnect`, the last being `removeSession(id, true)`);
- a kit frame handled by `handleInput`/`forwardToClient`:
  `HandleSaveResult` (then `saveToStorage`), `HandleStatus` (then
  `setLoaded`), `HandleModified` (then `setModified`);
- the kit's end of stream (`ChildSocketTerminated`);
- the expiry of the save gate (`SaveTimeout`);
- `closeDocument` (`CloseDocument`), a callback that runs
  `terminateChild(reason, true)`: the rude close skips `shutdownClients`,
  closes the kit and sets `_stop`.

`Stop` is `stop()`, called by another thread: it sets `_stop` and wakes the
poll. `OutsideStop` enables both, and one such request is modelled per run.

Every such action carries the whole call chain. For example, `Disconnect`
applies `RemoveSession`, which applies `DestroyIfLastEditor`, then either
`AutoSave`/`SendUnoSave` or `RemoveSessionInternal`, exactly as lines
1042-1064 do.

`shutdownClients` folds `RemoveSession` over the sessions in map order
(`FoldLeft` over `SetToSortSeq`). The broker fields it touches are carried
in a record (`BrokerRec`).

**State.** The broker's variables are its members:

| Variable | Member / meaning |
|---|---|
| `sessions` | the keys of `_sessions` |
| `readOnly`, `viewLoaded`, `closing` | `ClientSession::isReadOnly`, `isViewLoaded`, `isCloseFrame` |
| `downloaded` | `_storage->isLoaded()` |
| `isLoaded` | `_isLoaded` |
| `isModified` | `_isModified` |
| `markToDestroy` | `_markToDestroy` |
| `lastEditable` | `_lastEditableSession` |
| `stop` | `_stop` |
| `lastFileMod` | `_lastFileModifiedTime` |
| `saving` | `_lastSaveTime < _lastSaveRequestTime`, as "idle", "pending", or "expired" past the command timeout |
| `shutdownFlag` | `ShutdownRequestFlag` |

**Data abstraction.** Document contents are abstracted to versions:
- `kitVer`: the number of edits the kit applied;
- `fileVer`: what it last wrote to the jailed file;
- `fileStamp`: that file's mtime, one tick per write;
- `storedVer`: what the storage holds.

**The kit.** The kit is the other end of two FIFO sockets:
- `toKit` carries `session`, `edit`, `save` and `disconnect`;
- `fromKit` carries `status`, `modified` and `saveresult`.

The kit's behaviour comes from the spec: it loads views, applies edits and
reports the modified status when it changes, saves with
`DontSaveIfUnmodified` (answering "unmodified" when there is nothing to
write), may fail a save (`KitSaveCanFail`), and may die (`KitCanCrash`). A
frame sent to a dead kit is lost.

**The environment.** The environment is the clients (joins bounded by
`Sessions`, edits by `MaxEdits`, explicit saves by `MaxClientSaves`), the
storage (`StorageCanFail`: DISKFULL, UNAUTHORIZED, FAILED) and the shutdown
flag.

**History variables.** `sentEdits`, `clientSaves`, `failed`, `idleFired` and
`stopCalled` exist only to state properties.

**Abstracted choices:**
- Whether `load` accepts a session is the input `ok` of `AddSession`. Its
  refusals are a used token, invalid file info, a disk that is full, or a
  missing storage. The `_markToDestroy` refusal is kept as the code has it.
- A loop iteration without a due autosave does what a tick does when
  `autoSave` finds nothing, so `AutoSaveTick` stands for both.

### `TileRendering.tla`: the tile path of a broker

This module covers the tile handlers at lines 1189-1384. They run on the
broker thread under `_mutex`, so each handler is one step:
- `HandleTileRequest` (with the broadcast flag);
- `HandleTileCombinedRequest`;
- `CancelTileRequests`;
- `HandleTileResponse`, which stands for both the tile and the tilecombine
  response and drops an empty payload;
- `InvalidateTiles`.

**State.** The `TileCache` they call is not under `src/`, so its state is
modelled from the spec's contract (4.3):
- `cache`: per tile, the document version it was rendered at, or `NoTile`;
- `subs`: per tile, the set of subscribed sessions.

`tileVersion` is `_tileVersion`. `waiting` records, per session, the tiles
it asked for and has not received. `stranded` records the waiting clients
whose tile the kit last answered with no bytes: the broker keeps them
subscribed, and a later render of the tile (forwarded for any session)
clears the record.

**The kit.** The kit is modelled from the spec:
- it queues the commands it reads;
- a `canceltiles` removes its tiles from the renders queued before it;
- `KitRender` begins the next queued render at the document version of
  that moment (`rendering`); `KitAnswer` sends its answer later;
- an edit (`KitEdit`) sends `invalidatetiles` at once. Spec 5 says tile
  responses are not ordered with respect to other messages, so an
  invalidation can overtake the answer to a render begun before the edit;
- with `KitCanSendEmpty`, it may answer with no bytes.

### `TokenLedger.tla`: the WOPI token ledger across brokers

Each session's `load` runs on the thread of its document's broker. Loads of
different documents run concurrently and share one SQLite table
`tokens(token PRIMARY KEY, expires)`. `tokenUsed` (453-479) is two
statements, and each is a step:
- `Select`: the `SELECT count(*)`. A row found returns false; `load` then
  refuses unless the URI carries `docpass=yes`, which it tests *after*
  calling `tokenUsed` (536-554).
- `Insert`: the `INSERT`. A row inserted by another thread since the
  `SELECT` makes it throw on the key, and the exception ends `load`.

`FileInfo` is the rest of `load`: `getWOPIFileInfo` may throw
(`FileInfoCanFail`), otherwise the session is added. `Busy` serialises the
sessions of one broker on its thread. The table is `ledger`, a row count per
token. `token` and `docpass` are inputs chosen in `Init`. `MC_TokenLedger`
runs three sessions: two on one broker and one on another, over two tokens.

### `MergeAccessLog.tla`: the merge endpoint, its call counter and its answers

`handleMergeTo` (3801-3967) runs in the server process. It forks, the
child forks again and exits, and the server waits only for the child, so
the grandchildren of several requests run concurrently:
- `HandleMergeTo` has three outcomes: the fork succeeds; the child's fork
  fails (503); or the server's own fork fails, which answers 503 and
  `_exit`s the server.
- The grandchild calls `updateAccessTimes` (1807-1847). `CheckAccessTimes`
  is its SELECT. `UpdateAccessTimes` is its INSERT (no row; it throws,
  uncaught, if another grandchild inserted meanwhile) or its
  `UPDATE ... accessTimes + 1`, which SQLite applies atomically.
- `Merge` is the rest of the grandchild. It runs `DoMergeTo` (3644-3720)
  and, for a pdf target, `OutputODF` (3728-3776). It then answers by their
  outcome and `_exit`s. The inputs are abstract: the template is found or
  not; the body is parsed, rejected as JSON, or throws (a form
  `parseArray2Form` cannot take); the filling of the template succeeds or
  throws; LibreOfficeKit succeeds or fails. The outcomes are:
  - an exception gives 503;
  - `mergeStatus` `JSON_PARSE_ERROR` gives 401;
  - otherwise the merged file is sent and removed. For a pdf target, the
    pdf is sent and both files are removed, and an empty result gives 503.
  - `TEMPLATE_NOT_FOUND` is never tested. The empty path goes to
    `HttpHelper::sendFile`, which throws on a file it cannot stat, so that
    grandchild dies unanswered (`answer` stays `"none"`).
- `mergeStatus` is never initialised (`MergeODF() {}`) and is set only on
  the two failures. `status0` is the value every grandchild inherits. It
  is chosen in `Init` and may be `JSON_PARSE_ERROR`.
- `files` is what each request leaves on disk. `Parser(uri)` extracts the
  template, and only the path that reaches `delete parser` removes it.
  `zipback` writes the merged file, and `outputODF` writes the pdf.
- `ResponseAccessTime` is the call-times query (`responseAccessTime`,
  3778-3798), in the server process. On a live `logdb`,
  `GetApiCallTimes` reads the count with `getAccessTimes` (0 when there is
  no row). It then deletes `logdb` and leaves the pointer. `~LogDB`
  unregisters the SQLite connector in the server.
- A grandchild forked after that inherits the freed object (`inherited`).
  Its `setApi` writes freed memory and its `Session` uses the connector
  `~LogDB` unregistered (`tokenUsed` may have registered it again). That
  is undefined behaviour, so `CheckAccessTimes` takes either outcome the
  build can give: the grandchild dies unanswered, or it reads the table as
  a live `logdb` would (`ReadSummary`).
- A second query has the same throw in the server. The caller is outside
  this file, so the server may go on or end.

`summary` is the table. `base` is the table as `changeTable` left it at
start-up. `MC_MergeAccessLog` runs three requests over two endpoints, with
up to two queries (`MaxQueries`). The passing run uses symmetry over
requests and over endpoints. Both are model values that no action names,
and `Init` chooses every assignment of endpoints and every starting table.

### `IsNumber.tla`, `Keyword2Lower.tla`, `ArrayForm.tla`, `MergeText.tla`: request routines against references

`isNumber` (1868-1892) is translated into RECURSIVE operators over 0-based
positions:
- `FindFirstNotOf`, `Significand` (the digit/point loop) and `SkipBlanks`
  are its parts;
- `s[size()]` reads the NUL;
- `npos + 1` wraps to 0;
- `s[npos]` reads the byte before the buffer, which is undefined, so
  `IsNumberResults` is the set of results over the bytes `BeforeBuffer`
  the build can read there.

`IsNumberRef` is an independent reference definition: blanks, an optional
sign, digits with at most one point and at least one digit, then blanks.

`keyword2Lower` (3527-3547) is `Keyword2Lower`. `doMergeTo` applies it to a
JSON body for `null`, `true` and `false` before parsing:
- `FirstMatch` is the case-insensitive `re.match` from an offset;
- `MatchLoop` is the while loop. It overwrites a match with the keyword
  unless a quote touches it, then searches on after the match.
- A match at offset 0 reads `in[-1]`, the same read before the buffer.

`LoweredRef` is the intended result: every keyword outside the string
literals in lower case, and nothing else changed.

`parseArray2Form` (3550-3631) is `ArrayForm`. `doMergeTo` applies it to a
POSTed HTML form. A field is what the regular expression makes of its
name: plain, or `grp[n][key]`.
- `CollectField` is the first loop, as a `FoldLeft` over the fields. A
  plain field is set in `formJson`. A grouped one goes into slot `n` of
  `grpNames[grp]`, after a `resize` to `n + 1` slots. `n` is `Stoi` of the
  index text. A text `stoi` rejects, or a negative `n`, throws a
  `std::exception` (`Escaped`).
- `EmitGroups` is the second loop. It appends every non-empty slot, in
  slot order, to the array of its group. A group named like a plain field
  makes `getArray` return null: a `Poco::NullPointerException`
  (`Caught`), which `doMergeTo` catches.

`FormJsonRef` is the object the form describes. Each group is an array
with one object per index used, in ascending order, each key with its last
value. A plain name has its last value.

`MergeText` holds the input under test, a string or a form, and states
the properties. `MC_MergeText` checks every string of up to five
characters over `{" ", "+", "-", "1", ".", '"', "n", "N", "u", "U"}`, with
the keyword `"nu"`. Like null, true and false, it is matched ignoring case
and does not overlap itself. `BeforeBuffer` is `{NUL}`. With libstdc++, a
short string is stored in the object right after its 8-byte length, and a
long one on the heap right after glibc's chunk header. Either way, the byte
before the buffer is the high byte of a size. It also checks every form
of up to four fields: plain fields `g` and `p`, the group `g` with keys
`k1` and `k2`, two values, and the index texts `"0"`, `"2"`, `"-1"` and
`""`. These give a hole, fields out of order, a name clash, a negative
index and one `stoi` rejects.

### `BrokerLifecycle.tla`: the lifecycle the broker promises

This module is the abstract state machine of spec 4.2.1: Starting → Loading
→ Active ⇄ Saving → Draining → Terminated, plus Starting → Terminated when
no kit can be obtained. The reasons for draining (clients gone, idle,
shutdown, the kit's death) can occur before the load or during a save, so
Draining is entered from any live state.

`DocumentBroker` implements it. The refinement mapping `LifecycleState`
takes the thread's phase first:
- `done` is Terminated;
- `flushing` is Draining;
- otherwise, no download yet is Starting, a download without the kit's
  acknowledgement (`_isLoaded`) is Loading, a pending save gate is Saving,
  and anything else is Active.

`LifecycleRefined` is `Lifecycle!SafeSpec`, checked as a PROPERTY.

### `MC_DocumentBroker.tla`

This module instantiates the specification for TLC:
- sessions `{1, 2}`, both writers, session 2 the owner, so that a save can
  be attributed to a session other than the one leaving;
- the state constraint `ChannelBound`: at most `MaxInFlight` = 3 frames on
  the two sockets together. Without it, a slow kit lets the autosave tick
  queue a save after every timeout without end.

## Runs

| Run | cfg | Expect | Checks |
|---|---|---|---|
| `broker_safety` | `MC_DocumentBroker_safety.cfg` | pass | `TypeOK`, `ModifiedFlagTracksKit`, `LiveSessionKeepsBrokerRunning`, `LifecycleRefined` |
| `broker_teardown_liveness` | `MC_DocumentBroker_live.cfg` | pass | `AllLeftEventuallyTerminates` |
| `last_edits_lost` | `MC_DocumentBroker_persist.cfg` | violation | `LastEditsPersisted` |
| `failed_kit_save_clears_modified` | `MC_DocumentBroker_kitfail.cfg` | violation | `ModifiedFlagTracksKit` |
| `tile_stale_after_invalidation` | `MC_TileRendering_stale.cfg` | violation | `CachedTileIsCurrent` |
| `tile_subscribers_served` | `MC_TileRendering_live.cfg` | pass | `TypeOK`, `WaiterHasRenderInFlight`, `SubscriberEventuallyServed` |
| `token_replay_refused` | `MC_TokenLedger_safety.cfg` | pass | `TypeOK`, `CheckedTokenAdmitsOnce` |
| `docpass_load_fails_on_race` | `MC_TokenLedger_docpass.cfg` | violation | `DocpassNeverRefusedByLedger` |
| `merge_counts_not_lost` | `MC_MergeAccessLog_safety.cfg` | pass | `NoLostIncrement` |
| `merge_insert_race_crashes` | `MC_MergeAccessLog_counted.cfg` | violation | `EveryMergeCounted` |
| `merge_text_matches_reference` | `MC_MergeText.cfg` | pass | `AgreesEverywhere`, `LiteralsLowered`, `FormGroupsCompacted` |
| `child_death_broker_lingers` | `MC_DocumentBroker_childdeath.cfg` | violation | `ChildDeathDrains` |

**`broker_safety`** (about 4.3 M distinct states, a minute and a half). It
enables all of the following:
- refused joins, storage failures and kit crashes;
- a slow kit, so the save gate expires before the answer arrives;
- one explicit save and two edits;
- one `stop()` or `closeDocument`.

The run shows three things:
- Whenever the kit has no notification in flight, `_isModified` agrees with
  the kit. This holds when the kit's saves succeed or answer "unmodified";
  the late answers of expired saves and storage failures are included.
- The loop sets `_stop` with a client still attached only for a shutdown
  request, the idle timeout, `stop()` or `closeDocument`. The resets in `addSessionInternal` and
  `_markToDestroy` keep joins and teardown apart.
- Every step of the broker is a step of `BrokerLifecycle`, or leaves its
  lifecycle state unchanged. In particular, no save is sent before the kit
  acknowledged the load, and nothing reloads or resumes after the flush.
  The abstract liveness (Draining leads to Terminated) is not checked
  with it, to keep the temporal run inside its time budget.
  `AllLeftEventuallyTerminates` checks the stronger promise.

**`broker_teardown_liveness`** (about 56 k states, two minutes). The kit
may fail a save or die. Once every attached client has disconnected, the
broker finishes its thread unless a new client joins. This includes the
case where the departed editor's forced save was attributed to another
session, so that the departed session lingers in `_sessions` until a later
autosave is attributed to it.

**`last_edits_lost`** (violation, 12 steps, no failure of any kind):
1. An autosave is pending.
2. The only editor sends an edit and disconnects. `removeSession` sends the
   forced save regardless of the pending one.
3. The answer to the first save arrives. `saveToStorage` sees
   `_markToDestroy`, removes the session and sets `_stop`.
4. The broker tears down. The forced save's answer finds no session and is
   dropped.

The edit is never uploaded. The spec (4.2, scenario 6) says teardown waits
for the forced save.

**`failed_kit_save_clears_modified`** (violation):
1. The kit answers a save with `success=false`.
2. `saveToStorageInternal` uploads the old file anyway, because
   `sendUnoSave` zeroed `_lastFileModifiedTime`.
3. It clears `_isModified` while the kit still holds the unsaved edit.

The two tile runs use `MC_TileRendering`: two sessions, two tiles and
one edit.

**`tile_stale_after_invalidation`** (violation, 7 states deep, one
request). The kit begins the render of `t1` at version 0. An edit follows,
and its `invalidatetiles` reaches the broker first, while the cache is
still empty. The answer then arrives, and `handleTileResponse` (1322-1339)
stores the version-0 tile: it compares no version. From then on
`handleTileRequest` serves the old tile to every client, until the next
edit. Spec 4.3 says the version on each request lets such a late answer
be dropped.

**`tile_subscribers_served`** (77 k states, about 10 s; two client
requests, which are enough for one session to cancel a tile another still
waits for, or to ask again after an empty answer; empty kit answers
enabled). Every client waiting
for a tile has a render of it queued, being rendered or answered
(`WaiterHasRenderInFlight`). Every tile a client asked for, and did not
cancel, is eventually sent to it (`SubscriberEventuallyServed`). Both
include the case where another session cancels the same tile. That is
why `cancelTiles` cancels only tiles left without subscribers, and why the
kit drops only the renders queued before the `canceltiles`.

Both properties exempt a client whose tile the kit last answered with no
bytes (`stranded`). The broker keeps such a client subscribed ("they will
get re-issued if we don't forget them"), but nothing in the broker
re-issues the render. The client gets its tile only when some session asks
for that tile again. Without the exemption, both properties fail by the
code. This is listed as a hazard (1342), not given a run.

A second render for a tile already being rendered (spec 4.3 and 8 say it
is coalesced; `handleTileRequest` forwards it anyway) is a two-step
divergence, listed as a hazard rather than given a run. The tile model keeps
the duplicate renders, and `tile_subscribers_served` shows that every
subscriber is still answered.

**`token_replay_refused`** (4.8 k states): over every interleaving of the
SELECTs and INSERTs of two brokers' threads, the table keeps one row per
token. No token admits two sessions without `docpass`: the loser of a race
fails on the key.

**`docpass_load_fails_on_race`** (violation, 4 steps): a `docpass=yes`
session and a checked session of another broker both SELECT a fresh token.
The checked one inserts first, and the docpass session's INSERT throws, so
its load fails. The spec says only sessions without docpass are refused by
the ledger.

**`merge_counts_not_lost`** (733 k states under symmetry, two call-times queries):
whatever the order of concurrent grandchildren, an endpoint's count is the
start-up count plus one per grandchild past `updateAccessTimes`. The
`UPDATE ... + 1` is atomic, so no increment is lost. The grandchildren
forked after the first query may crash or count as usual (undefined
behaviour), and the count stays right either way.

The model also reaches three things this run does not claim:
- A failed merge leaves the extracted template, or the merged file, on
  disk. A JSON error or an exception returns before `delete parser`, and a
  failed pdf conversion does not remove the merged file.
- An unknown endpoint is never answered.
- With `status0 = JSON_PARSE_ERROR`, a successful merge is answered 401.

Each of these is a listed hazard. A property against any of them fails by
the code, and would need a violation run of its own.

**`merge_insert_race_crashes`** (violation, 6 steps): two first calls of an
endpoint both find no row. The second INSERT throws outside any `try`, and
that grandchild dies with its request neither counted nor answered. This
run leaves the call-times query out (`MaxQueries = 0`). With a query, a
shorter trace would show the other way a grandchild dies uncounted: it was
forked after `getApiCallTimes` deleted `logdb`. That one needs only one
query and then one merge, so a test reaches it easily. The race needs two
grandchildren interleaved.

**`child_death_broker_lingers`** (violation, 7 states and a stuttering
lasso). The scenario:
1. The kit dies before any session is attached.
2. `childSocketTerminated` shuts down an empty map, so `_markToDestroy`
   stays false.
3. Two clients join. `load` refuses only a broker marked to destroy, and
   `addSessionInternal` resets `_stop`. Their views never load, because the
   `session` frames go to a dead kit.
4. One client leaves, and the other waits.

`_isLoaded` and `_markToDestroy` are both false, so the loop never stops.
Spec 7 says the broker drains when the kit dies. With `OutsideStop`, the
same happens after `closeDocument` (`ChildDeathDrains` covers a closed kit
too).

**`merge_text_matches_reference`** (111 k strings, 168 k forms). `isNumber` agrees with
the reference on every string, including `""` and strings of blanks, where
`find_first_not_of` returns `npos` and `s[npos]` reads NUL. It also agrees
on `"+"`, `"."`, `"1."`, `".1"`, `" 1 "` and `"1 1"`.

`keyword2Lower` lowers every keyword outside the string literals of a body
in which no such keyword touches a quote. This includes adjacent keywords
and one at offset 0. Inside a string literal, it also lowers a keyword that
does not touch either quote. For example, `{"name": "Mr. TRUE"}` becomes
`"Mr. true"`, so a field value is changed. No run states it: it
follows from the test at 3538-3539, which looks only at the two bytes
next to the match, and `Keyword2Lower` models that test as it is.

`parseArray2Form` builds the object the form describes
(`FormGroupsCompacted`). Indices that skip a number, or come out of order,
still give one array element per index used, in ascending order: the
empty slots `resize` leaves are dropped. So `g[2][k]` without `g[0]` or
`g[1]` is element 0, and the template rows follow array positions, not the
indices sent. An index of `-1` passes the size check as `(unsigned)0` and
makes `at(-1)` throw. That `std::out_of_range`, like the
`std::invalid_argument` of an empty index, is not a `Poco::Exception`. It
escapes `doMergeTo`'s catch and ends in `handleMergeTo`'s 503.

### Mutants

Every property of a passing run is broken by one plausible bug, listed in
`PROJECT.json`:

| Mutant | Breaks |
|---|---|
| a kit that writes even an unmodified document (`KitSaveAlwaysWriting`) | `TypeOK` (the file stamp passes its bound) |
| a modified notification that only ever sets the flag | `ModifiedFlagTracksKit` |
| `autoSave` without the `_isLoaded` test | `LifecycleRefined` (Loading → Saving) |
| `destroyIfLastEditor` with `size() <= 2` | `LiveSessionKeepsBrokerRunning` |
| `saveToStorage` without the `isCloseFrame` removal | `AllLeftEventuallyTerminates` |
| `handleTileCombinedRequest` without `if (!tiles.empty())` | `TypeOK` of `TileRendering` (an empty tilecombine) |
| `cancelTileRequests` cancelling every tile of the session | `WaiterHasRenderInFlight` |
| an empty tile answer that also forgets the tile's subscribers | `SubscriberEventuallyServed` |
| the tokens table without its primary key | `TypeOK` of `TokenLedger` (two rows for a token) |
| `INSERT OR REPLACE` into the tokens table | `CheckedTokenAdmitsOnce` |
| the counter written back as the value read plus one | `NoLostIncrement` |
| `isNumber` without the at-least-one-digit test | `AgreesEverywhere` |
| `keyword2Lower` searching on one character past the match | `LiteralsLowered` |
| `parseArray2Form` adding the empty slots to the array | `FormGroupsCompacted` |

## Bounds and why they are enough

- **Two sessions** give every ordering the save protocol has: a leaving
  editor with and without another editor, attribution to the owner versus
  the leaver, and `shutdownClients` over more than one session.
- **Two edits** give an edit before and after a save.
- **One explicit save** adds a second save in flight next to an autosave.
- **`MaxInFlight = 3`** lets a save answer, a modified notification and a
  further command be in flight together.

The violations above appear at these bounds in 7 to 12 steps.

- **Three sessions on two brokers** and **three merge requests over two
  endpoints** give a race on the same key next to a serialised request and
  an unrelated one.

The liveness run uses one edit, joins that always succeed and a kit that
is never slow, to keep the temporal check small. Kit save failures and kit
crashes stay enabled.

## Fairness

Weak fairness is assumed for:
- the broker's own steps: spawn, the autosave tick, loop exit, the end of
  the flush, the handlers of kit frames, `childSocketTerminated` and the
  save-gate timeout;
- the kit's processing of frames.

The broker thread wakes at least every poll timeout and runs whatever is
ready, the flush is bounded by a timeout, and the command timeout bounds
the save gate. A live kit reads its socket.

There is no fairness for clients, the idle timeout, the shutdown request
or kit crashes. Those may or may not happen.

`TileRendering` gives weak fairness to the broker's handling of kit
frames (`HandleTileResponse`, `InvalidateTiles`) and to the kit's steps
(`KitRender` of a non-empty answer, `KitAnswer`, `KitCancel`): the broker
thread polls the kit socket, and the kit works through its queue. Clients
and edits get none. An empty answer is never forced, so the kit can
answer every render.

`TokenLedger` gives each session's load weak fairness, since a broker's
thread runs a load it has started to completion. `MergeAccessLog` and
`MergeText` assume none: their runs check safety only. `stop()` and
`closeDocument` are requests from outside and get no fairness.

## Not modelled (yet)

See `components` in `PROJECT.json`.
- The registry. It lives in LOOLWSD, which is not in this repository's
  sources, and spec 4.1 gives it two sentences. A model written from those
  alone would check the spec against itself. The broker's side of it is
  modelled: `load` refuses a session of a broker marked to destroy, and
  the lifecycle ends in `Terminated`.
- Endpoint names. The merge counts under the URI path's `getBaseName()`,
  while the call-times query names the endpoint by the template's full base
  name. The pdf target is `isMergeToUri(...) == "pdf"`, which a template
  named `pdf` also meets. `MergeAccessLog` takes the endpoint and the
  target as abstract inputs. Both clashes are listed hazards.
- What the template filling (`setSingleVar`, `setGroupVar`) writes into the
  document. `Merge` keeps only whether it throws.

The following are out of reach or have no state: the MergeODF template
parser (XML/zip rewriting, and with it `parseEnumValue`, whose use of
`std::stoi` on what `isNumber` accepts is a listed hazard), URI/doc-key/cache-path string conversions,
permission-string parsing, admin notifications and logging, and
`configure.ac`.

## Plan

Done: `DocumentBroker` (with `stop()` and `closeDocument`) and its
refinement of `BrokerLifecycle`, `TileRendering`, `TokenLedger`,
`MergeAccessLog` (with the call-times query and the outcomes of
`doMergeTo` and `outputODF`), `IsNumber`, `Keyword2Lower` and `ArrayForm`.
Still to do:

1. Violation runs for the merge handler's listed hazards:
   - files left behind by a failed merge;
   - a request to an unknown endpoint that is never answered;
   - the uninitialised `mergeStatus`;
   - the grandchildren forked after `getApiCallTimes` freed `logdb`;
   - the stale tile a late render leaves, with a version check added to
     `HandleTileResponse` as the fix it calls for.
2. Storage timestamp resolution and the storage's own timeline (the
   `load` mtime check and the unchanged-file check), in `DocumentBroker`.
   Depending on the Poco version, `getLastModified` may only resolve whole
   seconds (`st_mtime`). A kit write inside the second of the previous
   upload would then look unchanged.
3. A client's re-request after an empty tile answer, as an environment
   action in `TileRendering`.
