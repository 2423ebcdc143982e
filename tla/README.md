# Redivue in TLA+

Redivue is a graphical client for Redis: a React page talks over HTTP and server-sent events to a
Spring Boot backend, which talks to any number of Redis servers, directly or through SSH tunnels.
This directory holds TLA+ models of the parts in which several things happen at once, the TLC runs
that check them on small instances, and TLAPS proofs of the most important properties for every
value of the constants. Paths below are those of the repository; `B/` stands for
`backend/src/main/java/com/redivue/` and `F/` for `frontend/src/`.

## The system

| Part | State it keeps | Operations | What makes it hard | Modelled in |
|---|---|---|---|---|
| SSH tunnel pool (`B/service/SshTunnelPool`, `B/config/SshTunnelHelper`) | map from SSH server and target to tunnel and time of last use | `getOrOpen`, `resolve`, scheduled `evict` | request threads and the scheduler share the map without a lock; ports are reused by the operating system | `SshTunnelPool`, implements `TunnelService` |
| Monitor (`F/features/monitor/MonitorView`, `B/service/MonitorService`) | the stream, the reconnect timer, the attempt counter; a worker per stream | start, stop, reconnect, five events | an await in the middle of connecting, late events, a browser that reconnects by itself, a dead Redis | `MonitorStream` |
| Key copy (`B/service/RedisService`: `copyKeysBatch`, `copyKey`, `copyOne`, `dumpRestore`) | nothing; two Redis databases | a sequence of commands per key | other clients write in between, keys expire, commands fail, source and target may be one | `KeyCopy` |
| Keys tab (`F/features/keys/index`, `KeyDetail`; `RedisService.scanKeys`) | list, cursor, ticks, selection, value, editor | search, page, tick, select, edit, save, delete, switch database | every handler awaits an answer; answers arrive late, in any order and after a switch of database | `KeysBrowser` |
| Session registry (`B/service/ConnectionSessionRegistry`) | token → connection and time of last use | register, get, cleaner thread | get races with the cleaner; tokens die with the process | `SessionRegistry`, implements `SessionStore` |
| Pub/Sub (`F/features/pubsub`, `B/service/PubSubService`) | stream, reconnect timer, attempts; a worker per stream | subscribe, stop, publish, reconnect | as the monitor, and one token for all reconnects, which the backend may have forgotten | `PubSubStream` (with `SessionRegistry`) |
| Notifications (`F/features/keyspace`, `B/service/KeyspaceService`) | stream, setting shown; a worker per stream | check, enable, listen, stop | an await before the stream opens; answers of checks in any order; the setting changes elsewhere; switches of database | `KeyspaceStream` |
| Disk export and import (`RedisService`, `F/features/migration`) | files | export, import, list, delete | three commands read a key, several write it; any of them fails, others write meanwhile, the backend ends | `DiskTransfer` |
| Key operations (`RedisService`; `F/features/keys/modals`, `ActivityPanel`) | the dialog open, its preview; renamings that can be undone | delete by pattern, flush, expire, rename and undo, add, copy | a preview and the deletion are two searches; Enter sends again while a request is on its way; others create and delete keys | `KeyActions` |
| Key diff (`F/features/keydiff`) | two sides and their databases, comparison, keys found | compare, copy, swap, search, copy a batch; the line diff | nothing is aborted, and each side changes by itself or with the page | `KeyDiff`, `TextDiff` |
| Migration tab (`F/features/migration`) | mode, target, pattern, keys found, export, commands of a file | search, copy, export, import, delete an export, run a file | nothing is aborted, files are read in any order | `MigrationView` |
| Connection store (`F/App`, `F/utils/encryption`) | connections in localStorage, a copy of them on each page | add, remove, clear, switch database, export, import | several pages and the comparison tab write the same list | `ConnectionStore` |
| Connection form (`F/features/connections`) | one set of fields for six ways to connect | choose, fill in, hand over | fields typed for one way stay when another is chosen | `ConnectionForm` |
| Lists in the browser (`MemoryView`, `CliConsole`, `F/features/keys`) | snapshots, commands, starred commands, searches, bookmarks | add, remove, clear, import | every view has a copy and writes it back whole | `KeptLists` |
| Dashboard (`F/features/dashboard`, `F/App`: health) | statistics, key count | fetch on switch, refresh by hand or timer, health after operations | some requests are aborted at a switch and some are not | `Dashboard` |
| Memory analysis (`F/features/memory`) | rows, filters, page, dialog | analyse, filter, page, delete, rename | answers after a switch; an index into rows that change | `MemoryAnalysis` |
| Command line (`F/features/cli`) | panes, the command typed, the one warned of | type, recall, complete, run | several requests at once, a warning that has to precede its command | `CliConsole` |
| Connections, HTTP layer, widgets | none shared | one request, one answer | formats, not behaviour | no |

The parts meet in few places. A view posts requests with the whole connection in the body; a stream
first registers the connection (`/session`) and opens an `EventSource` with the token it got. The
backend opens a Redis connection per request and closes it at the end. Every request to a connection
with SSH goes through `SshTunnelPool.resolve`; a stream resolves once and then reads for as long as
it lives. A switch of database replaces the connection object of the page: handlers that are already
waiting keep the old one. Nothing is persisted by the backend except exported files.

## Modules

- `TunnelService` – what requests need of the pool: a request asks for a tunnel to its destination, gets one that
  was open at some moment of the call (an existing one or one opened for it) or an error, and talks through
  it as long as it stays open. Tunnels may close at any time. It knows neither map, keys, ports nor eviction.
- `SshTunnelPool` – request threads in `getOrOpen`, split at every access to the shared map, to
  `isConnected` and to the clock; `evict` as `ConcurrentHashMap.removeIf` runs it (read a value, test
  and close it, remove the mapping if it is still that value); opening, forwarding and dropping of
  sessions; the use of the port afterwards. `pool`, `status`, `pc`, `evict` correspond to the map,
  the JSch sessions, the threads' places in the code and the scheduler's place in the sweep. One SSH
  host and user are enough, since both are compared for equality only; a connection is its SSH port
  and its target. The history variable `overlapped` collects keys for which two calls ran at once. It implements
  `TunnelService`: a tunnel is given to a request (`Given`) when `isConnected` finds it alive or when it is
  opened, not when the call returns, since evict may close it in between.
- `MonitorStream` – one MonitorView, its `EventSource` objects with the events under way, and the
  worker that serves each. `es`, `timer`, `attempt`, `running` are the component's refs and state;
  `stray` counts timers its ref no longer names; `pending` counts `connectStream` calls that await
  the registration. An event's handler is one action. The deadline and the end of the stream both send
  `timeout`; the model tags the event with its cause, which no handler looks at. History: `raced` (a
  click, timer or stop came during a registration) and `regFailed`.
- `SessionStore` – what a stream needs of the session registry: a token leads to the connection it was
  given out for until the backend restarts, or until nobody has used it for half an hour.
- `SessionRegistry` – the concurrent map behind it: `get` is a read and an unconditional put (`got` holds
  what a request has read), the cleaner's `removeIf` a test and a removal of the value tested (`sweep`). It
  implements `SessionStore`: a get takes effect when it reads, so `Known(t)` is the entry in the
  map or, if the cleaner has just removed it, the one a request is about to put back.
- `PubSubStream` – one Pub/Sub tab on top of `SessionRegistry`, whose steps are parts of its own: the
  request of a stream is the registry's request of the same name. Unlike the monitor it registers
  once and reconnects with the same token, and it ignores the answer of a registration after a stop.
  The backend may die, with all tokens and responses, and start again. `startSubscribe`, `doConnect` and each event's handler
  are actions or parts of one; `es`, `timer`, `attempt`, `subscribed` are the refs and state. History: `raced`
  (Subscribe was clicked during a registration).
- `RedisEntries` – what a database holds under a key: a set of elements with a type and an expiry
  (`never`, `soon` for the last half second, in which TTL answers 0, and `later`). Hash, list and set
  are one type (`collection`): each is read in one command and written in one. What the client
  library makes of the elements is `Decode`: its codec is UTF-8 text, so other bytes come out changed.
  A stream may be without entries, a collection may not. Used by the next two modules.
- `KeyCopy` – a request for a list of keys; each Redis command is an action, and each may fail
  executed or not. Collections and sorted sets are written in one command, streams entry by
  entry, other types by DUMP and RESTORE. `aliased` says that both connections lead to one database.
- `DiskTransfer` – `exportToDisk` and then `importFromDisk` of the file into any database, command by
  command; deleting the file in between. `pc` is the next command, `names` and `todo` are what is
  left of the two loops, `snapshot` the list the export builds, `file` what it wrote. Unlike a copy, an
  import deletes the key even without replace (it has just seen that there is none), and writes
  sorted sets member by member; a member whose score is infinite cannot be written, since JSON has
  made a string of it. `BackendStops` ends an import anywhere.
- `KeysBrowser` – the Keys tab with its value panel and `scanKeys`. A handler is split at its await;
  the second half uses the database, selection and ticks of the render that started it. A pattern is
  the set of names it matches; `'*'` is the set of all. SCAN is two pages for `'*'` and a full scan,
  cut at `ScanCap`, for anything else; keys somebody has asked to delete may or may not be found. An
  open modal keeps the user from everything else; those of a bulk TTL, of Flush and of the deletion of one key
  can be closed while their request is on its way (`bulk`, `CloseBulk`, `CancelDelete`). The success of a bulk
  TTL then searches as the render that sent it would have, in that render's database (`TtlAnswer`). History: `raced`
  (two requests for the value panel at once, or a switch under one), `mixed` (the list reset under a scan) and
  `strayed` (a late bulk TTL has listed another database than the one selected).
- `Selection` – the selected database of a connection, and `changeDb`. Every tab of a dashboard is mounted
  all the time, so each sees every switch. Used by the next two modules.
- `Dashboard` – the statistics, the error and loading flags, and the key count in the sidebar, with the
  requests that set them: `fetch` is what the effect sends on a switch and aborts on the next; `refresh`
  comes from the button, the timer or a saved setting and is aborted by nothing; `health` follows an operation
  on keys, with the connection object of the render that started it, and aborts the health request before it.
  History: `late`, the requests with the old database that were on their way at the last switch.
- `KeyspaceStream` – the Notifications tab: the setting of the server as it is (`config`) and as it is shown
  (`status`), checks on their way with what they have read, `enableNotifications`, which asks and
  then checks, and `startStream`, whose EventSource goes through the `phase`s of a stream. An effect stops the
  stream and checks again whenever the connection object changes. History: `raced` (stopped during a
  registration) and `astray` (somebody else changed the setting, it could not be read, the answer of Enable
  was lost, or two checks overlapped), which a check that is sent alone ends.

- `Nothing` – declares `None` for all the modules that need it, so that they can be combined.
- `PartialConnection` – where a request comes to that sends a connection in part. A comparison is made by host, port,
  password and database (`getDiff`), a migration and an import send these four of their target (`handleRamMigrate`,
  `handleDiskImport`), a copy to another connection also the user, the authentication type and the URL
  (`CopyToModal`), and what the right side of a comparison sends as its password is the sealed text of the
  browser's storage (`loadConnections`). `Told` are the connections these fields tell: they are reached or not at
  all. Any other may lead anywhere (`Reached`). Used by `KeyDiff`, `MigrationView` and `KeyActions`, whose
  properties say of a connection that is not told no more than the code does.
- `Lists` – what `Array.filter` leaves of a list. Used by the next two modules.
- `KeptLists` – the five lists kept in localStorage, chosen by `kind`; each view reads the list when it
  appears and writes back its whole copy. The handlers differ in what they show and keep: the history of
  analyses shows more than it keeps, the console does not save an empty list of commands, and its starred
  commands are first overwritten by the empty list of the first render (`mounting`). A list belongs to a connection, and
  all its databases share it. History: `behind` are the views whose copy is out of date, `overwrote` says that one of them has written.
- `MemoryAnalysis` – the rows of the last analysis with their filters, order and pages, and the dialog of a row.
  The filters together are the set of names they let through. Several deletions and renamings may be on their way
  (`changes`), and each row carries the database its key is in. History: `overtaken` (an analysis was on its way at the
  last switch), `crossed` (a row got its name from a renaming in another database) and `shrunk` (rows left by a deletion or
  renaming since a page was chosen).
- `TextDiff` – `computeDiff`: `dp` is its table and a step of the walk back through it is an action. What it should
  find is stated without the table: `Pairings` are the sets of pairs of equal lines that do not cross.
- `KeyDiff` – the comparison tab. `effectiveLeft` and `effectiveRight` are computed as in the code from the
  connection of the tab, the one selected on it, and `isSwapped`. `half` chooses between comparing a key and
  copying a batch, which have only the sides in common. `diffs`, `sync`, `searches` are requests on their way; a
  result carries the places it was read from, and a copy the place it goes to, which are those of `PartialConnection`.
  History: `moved` and `drifted` (a side, key or pattern changed while an answer was awaited).
- `CliConsole` – panes with a command line, its suggestions, the command warned of and the requests on
  their way. `DANGEROUS` is the code's set of that name, `TwoWords` the commands it lists by two words, which the guard
  (`Warns`), going by the first word, never finds. `warned` is a history of what the last command of a pane was answered
  with, `unwarned` of the dangerous commands that ran without it.
- `ConnectionForm` – the fields that are filled in, what is shown of them (`FormShows`) and what
  `handleSubmit` hands over (`HandedOver`), for the six ways to connect, with TLS and SSH.
- `ConnectionStore` – what is saved, with its secrets sealed, and each page's copy; the file of an export,
  which may be taken to another browser, whose key is another; `saveRightDb`, by which the comparison
  tab changes the saved list alone. A secret that cannot be sealed (`btoa` takes Latin-1 only) is saved as it is, and so is
  the one in a URL, which an export never strips either (`Bare`, `WithoutSecret`). A connection is reached by a host, by
  nodes or a socket, or by a URL (`Ways`). History: `behind_store` (pages with an outdated copy), `chosen` (what the user
  chose last, or what an outdated copy made of it), `exported` (the connections the file was written from, wherever it is
  taken since) and `foreign` (the ones imported with a secret that another browser had sealed).
- `MigrationView` – the Migration tab with its three modes and the requests on their way (`jobs`). What the
  backend does for it is in `KeyCopy` and `DiskTransfer`. The flag `crossed` of a request, and then of
  its answer, says that what it went by was changed under it.
- `KeyActions` – the dialogs that change keys and the undo of a renaming. A request is sent, executed and
  answered in three steps, so Enter can send it twice, a dialog be closed and another opened before the
  answer. `shown` is what the dialog showed of the keys it takes, `late` the names that got a value
  after a search, `crossed` that the search stopped early or the pattern was changed.

The `MC` modules hold the instances: `MCPage` those of the tabs and parts of the page, `MCCopyTab` of `KeyCopy`
and `KeyDiff`, `MCDiskTab` of `DiskTransfer` and `MigrationView`, `MCKeysTab` of `KeysBrowser` and `KeyActions`;
the registry is checked within `PubSubStream`. In these four a variable (`tab`, `at`, `inDialogs`), chosen at
the start, says which part is used, while the others stay in an initial state: the parts share at most the
selected database, so their other steps commute, and no property speaks of two of them. The modules named
`...Proofs` hold the theorems. A definition whose name has a suffix such as `tunnelKey_IgnoresTarget` is a
plausible mistake in the operator before the underscore. It is used by no specification; each property is known
to fail when the mistake is put in its place.

## Runs

| Run | Properties | What it shows |
|---|---|---|
| `tunnel_pool` | `LivePortLeadsHome`, `LostOnlyByOverlap`, `ServesTunnels`, `EvictionClosesWhatItRemoves` | a live port leads to the Redis the request asked for; the pool implements `TunnelService`: a request gets a tunnel to its own destination that was open during its call; a tunnel leaks only if two `getOrOpen` of one key overlap; evict closes what it removes, even while requests replace it |
| `tunnel_pool_live` | `StaleEntriesLeave` | an idle entry is evicted or used again |
| `tunnel_in_use` | `NoTunnelEvictedInUse` (violated) | evict closes a tunnel a stream still reads through |
| `monitor` | `TypeOK`, `NothingOutlivesStop`, `RunningDoesOneThing`, `GivesUpWhenRedisIsGone` | stop is final and a running monitor does one thing, unless something came during a registration; reconnecting to a dead Redis ends |
| `monitor_auto_stop` | `AutoStopIsTheDeadline` (violated) | a Redis that goes away is shown as "Auto-stopped" |
| `pubsub` | `NothingOutlivesStop`, `OneThingAtATime`, `KeepsSessions`, `GivesUpWithoutBackend` | unsubscribing is final, and a subscription has one stream, a timer or an awaited token, unless Subscribe was clicked during a registration; the registry implements its abstract specification; a subscription whose backend is gone ends |
| `key_copy` | `ResultIsTrue`, `KeptWithoutReplace`, `LossIsReported`, `DiffIsOfTheSides`, `FoundInTheSource` | the result is true of every key nobody else touched; without replace nothing changes; a lost target key is reported. The comparison shown, from which a key is overwritten, is of the key and, for connections told by the fields sent, of the sides named; the keys a batch copies were found in the source it reads from |
| `disk_transfer` | `TypeOK`, `SnapshotIsTrue`, `RoundTrip`, `OnlyReportedKeysChange`, `OnlyInfinityFails`, `ShowsWhatItMigrates` | the file holds what the database held; what is reported as imported is what a copy would have left; an import changes only keys it reports; if no command fails, nothing fails but infinite scores. The Migration tab's keys and results are of the pattern, database, target (if the fields sent tell it) and commands it shows |
| `key_copy_alias` | `SourceSurvives` (violated) | with replace, a copy onto itself deletes its source |
| `keys_browser` | `BulkActsOnListedKeys`, `PanelShowsTheSelection`, `SavedWhereItWasRead`, `AllLoadedBelowTheCap`, `ActsAsShown` | bulk operations act on keys of the database selected now, unless a bulk TTL was answered after a switch; the panel and its editor belong to the selection unless two requests raced; "All keys loaded" is true below the cap. A dialog's request takes only keys the dialog showed, but for the exceptions the property names, and a copy is reported at the place it came to |
| `keys_browser_cap` | `AllKeysLoaded` (violated) | above the cap it is not |
| `page` | `TypeOK`, `StatsOfTheDatabase`, `SettledOnTheDatabase`, `ListensToTheDatabase`, `StatusIsTrue`, `KeepsWhatWasKept`, `TableIsTrue`, `DiffIsLongest`, `RunsOnlyWhatItWarnedOf`, `HandsOverWhatItShows`, `KeepsTheConnections` | statistics are of the selected database unless a refresh was on its way at the last switch, and settle there; the Notifications tab listens to the selected database only; the setting it shows is the server's, but for the exceptions `astray` names; lists and connections are kept as long as no outdated copy is written; the rows of an analysis are keys of the selected database, but for a late analysis or renaming, and the page shown has some; the line diff pairs as many lines as can be; a dangerous command that the code's guard finds runs right after its own warning only; a connection has what the form showed; an imported one with a host is what it was when the file was written, but for a secret another browser sealed |

Four runs end in a counterexample on purpose: each states what a comment or a text of the page says,
and the code does something else. They are listed under `findings` in `PROJECT.json`.
The type invariants of `SshTunnelPool`, `PubSubStream`, `KeyCopy`, `KeysBrowser`, `KeyDiff`, `MigrationView` and `KeyActions`
are stated in their modules and proved (see Proofs), so no run repeats them.

Met while modelling and stated by no run of its own. Where the text of the repository says otherwise the code
disagrees with it; the property concerned names the case as its exception, or speaks of what the code does:

| The repository says | The code does | In the model |
|---|---|---|
| `SCRIPT FLUSH` "require[s] confirming twice" (`GUIDE.md:105`; also `SECURITY.md:56-57`, `FEATURES.md:90`) | the first word alone is looked up, so no entry of `DANGEROUS` that has two words is ever found (`CliConsole.tsx:397`, `574-576`) | `TwoWords`, the exception of `RunsOnlyWhatItWarnedOf` |
| the connection list can be moved "between machines" (`README.md:69`, `FEATURES.md:31`, `383`, `GUIDE.md:173`) | an import skips every connection without a host, that is, by URL, Sentinel, cluster or socket (`App.tsx:233`; `FEATURES.md:392-393` calls it malformed), and a secret sealed by another browser comes out garbled | `ValidEntries`, `WithHost`, `foreign`: the exceptions of `KeepsTheConnections` |
| secrets that are included are "saved as plaintext in the file" (`App.tsx:361`) | they are written sealed with this browser's key (`App.tsx:22-57`) | `exportConnections`, `SealedElsewhere` |
| the credentials in a URL are "stored the same way as PASSWORD" (`SECURITY.md:79`), and secrets "are stripped by default" (`GUIDE.md:175`, `FEATURES.md:386`) | the URL is stored and exported as it is (`App.tsx:38`, `91`) | `Bare`, `WithoutSecret` |
| snapshots are kept "per connection+DB, last 30" (`FEATURES.md:443-444`, `MemoryView.tsx:735`) | one list per connection (`MemoryView.tsx:81`): those of one database push out those of another | `KeptLists` is that one list, and `KeepsWhatWasKept` speaks of the newest of all databases together |
| Migration supports every way to connect (`FEATURES.md:529`, `GUIDE.md:157`) | a migration and an import send host, port, password and database of their target (`MigrationView.tsx:180-184`, `241-246`), a comparison is made by the same four of both sides (`RedisService.java:313-326`); the right side's password is sent sealed (`KeyDiffView.tsx:8-13`) | `PartialConnection`; `Told` in `DiffIsOfTheSides`, `ShowsWhatItMigrates`, `ActsAsShown` |
| "the key list, search, and stats all follow the selected database" (`GUIDE.md:93-94`) | a bulk TTL answered after a switch lists the database it was sent for (`BulkTtlModal.tsx:64`, `keys/index.tsx:576`); a refresh sent before a switch shows the other database's statistics (`dashboard/index.tsx:93`) | `strayed`, `late` |
| the same sentence, and "Keys browser filters by selected database" (`FEATURES.md:219`) | for a connection by URL the selected database is not used at all: the URL names one (`RedisURIHelper.java:76-80`) | not modelled: every view and every request of the models names the database it works on, which is true of the other ways to connect |

Other behaviour that a reader of the views may not expect:

- Dashboard and notifications: a check that Redis refuses, or that cannot reach Redis, is answered as if
  notifications were disabled, since `keyspaceCheck` does not look at the error of `executeCommand`
  (`CheckUnreadable`); any setting that is not empty counts as enabled, although the stream needs `E` (`Truth`).
- Streams: a stop during the registration of a monitor or of the Notifications tab does not keep its stream from opening
  (`raced`), and a registration that fails leaves a monitor running with nothing to run (`regFailed`).
- Dialogs: the deletion by pattern takes the pattern that stands there now, searches again, and so takes keys
  the preview did not show (created since, past the 200000 of a preview, or of another pattern, typed
  while the search was under way); renaming, undoing and adding take whatever the new name holds; Enter sends a request
  again while the first is on its way; a negative expiry deletes the key; the expiry of a new key is a request
  whose failure nobody is told of; skipped keys count as copied, and the target can be replaced while
  keys are copied to it.
- Key diff and Migration: an answer is shown under whatever has been chosen meanwhile (`moved`, `drifted`, `crossed`);
  a switch of the database leaves the keys found, whose names are then copied from the other database; a deleted
  export stays offered for import; two files chosen one after the other are read in either order.
- Connections: a page with an outdated copy undoes what others saved.
- Console: a warning outlives a switch of the database. Cleared commands come back (`clearCommands`).
- Memory: deleting the last row of the last page leaves an empty page (`shrunk`); a renaming whose dialog was closed is
  answered by name, in the rows of whatever database is shown by then (`crossed`).

### Bounds

- Pool: two threads, two tunnels, two ports, three connections with two keys (two of them differ
  only in port 0 and 22), a clock of one tick with a TTL of 0 (an entry is stale as soon as the clock moved).
  Two tunnels are enough to lose one and to give its port to the other. The liveness run has one
  thread and a clock of two ticks.
- Monitor: two streams at once, `MAX_RECONNECT` 2, two registrations awaited. A third stream can
  only repeat what the second does; two reconnects include one that succeeds and one that is the last.
  One line of Redis at most waits to be delivered to each stream.
- Pub/Sub: two streams, so one can be open while the other's request is still served; two tokens, so a second
  subscription has its own; two reconnects; two registrations awaited. One connection: which
  connection a token leads to matters to `KeepsSessions` only, and the theorem covers any number.
- Copy: two keys, or one twice; one step of another client or of time (two steps give fifteen million states
  and no other result); each kind of value, a stream without entries among them, and all three expiries.
- Export and import: two keys, which SCAN lists once, twice or not at all; one step of another
  client or of time; at the source every kind of value, a sorted set with an infinite score, and a stream
  without entries; two values at the target. One meddling step is enough to change the type between
  TYPE and the read, or to put something at the target between the check and the write.
- Keys: two databases with the same two names, one on each page, a pattern and `'*'`, two requests in
  flight, of which one may be a bulk TTL or a flush; keys deleted from one database. A run is not followed past a state in
  which an exception of the panel (`raced`) and one of the list (`strayed`, `mixed`) hold at once (`NotBoth`): what the
  tab promises of the one is still checked with the exceptions of the other. `ScanCap` is 1; the run of the cap has a
  third name so that a pattern can match two.
- Dialogs: two keys, two requests at once, so that one can be sent twice or overtake another; one step of
  another client; a preview that stops after one key. Two keys are enough to rename one onto the other. Of three places
  to copy to, one is the dialog's own, one is told by what a copy sends of it, and one is not.
- Key diff: two databases, two connections, one of them told by what is sent of it, two keys or patterns, two requests of a
  kind. Migration: two databases, targets (one told), files of each kind, and requests; a pattern that is blank and one that
  is not.
- Page: two databases; three requests of the dashboard, so that a fetch, a refresh and a health request can
  overtake each other; two streams and two checks of the Notifications tab, as for the monitor; three entries for lists that
  keep two, in two views; two names on pages of one row, with two deletions or renamings on their way; texts of
  up to three lines over two different ones, so that both ways round
  a cell of the table occur, and ties; two panes with two dangerous commands that are warned of and one that is listed by two words, and two
  requests each; three filled fields of the form, as many as one way requires and another leaves behind; two pages with
  one connection at a time, reached by a host, by nodes or by a URL, its secret plain, not to be sealed, or none.
- Model values that are alike are declared symmetric where no liveness is checked; values of parts that
  are not used at a time have the same names, which keeps the permutations few.

Deadlock is checked except in the runs of `MonitorStream`, `PubSubStream`, `KeyCopy` and `DiskTransfer`: a page
without its monitor or subscription, and a copy or an import that is done, really stop.

### Fairness

- `SshTunnelPool!FairSpec`: weak fairness of `evict` only. Spring runs it every two minutes
  (`@Scheduled(fixedDelay)`) and each sweep ends. Nothing is assumed of requests or of the clock.
- `MonitorStream!FairSpec`: weak fairness of the reconnect timers, of the answers to registrations
  (`fetch` settles), of the delivery of events, and of a worker whose Redis is gone (a read returns or a
  connect times out after five seconds). Nothing is assumed of the user, of Redis' lines, nor of
  the browser's own reconnects.
- `PubSubStream!FairSpec`: weak fairness of the reconnect timer, of the delivery of each stream's events,
  and, while the backend is down, of the failure of requests and of registrations. Nothing is assumed of
  the user, of a backend that is there, or of the browser's own reconnects.

## Proofs

All theorems hold for every value of the constants under the assumptions declared with them: the
sentinel `None` differs from everything it stands in for, bounds are natural numbers, a database of
the keys browser and an analysis have finitely many names, and a list keeps at least one entry.

- `SshTunnelPoolProofs`: `TypeCorrect`; `PortLeadsHome`, from the invariant that no two live
  tunnels have the same port and that entries, threads and the sweep name tunnels opened for their
  own key (`PortInv`); `EvictionLosesNothing`, since between test and removal the entry the sweep
  holds is closed for good; `OnlyOverlapLoses`, whose inductive invariant says that for a key without
  overlap there is at most one caller, and what it has read is still in the map or was closed by evict.
  `PoolServes`, that the pool implements `TunnelService`: each step of the threads, of the sweep, of the SSH server and of the
  clock is a step of the service or leaves it alone. `isConnected` and `open` are where a request is given its tunnel, the
  first because the entry read names a tunnel of its own key (`PortInv`), though it may have left the map since.
  `NothingYet` says what a request has before it is given one: nothing. A connection goes
  through the given tunnel while that is open because no two live tunnels share a port.
- `MonitorStreamProofs`: `TypeCorrect`; `StopIsFinal` and `OneThingAtATime` from `QuietInv`, which
  relates the refs, the streams and the worker as long as nothing raced: a stream other than `es` is
  closed and silent, and the activities of a running monitor are one. The property alone is not
  inductive: it says nothing of the events of closed streams, whose handlers act on `es`.
- `PubSubStreamProofs`, of the registry: `TokensInUseStay`, that it implements `SessionStore`. The invariant says
  that whoever has read a token's entry has read the connection that is still there, if any is, and that
  the cleaner holds a value that was old; then a put changes nothing that is known, and a removal
  forgets only an idle token.
- `PubSubStreamProofs`, of the tab: `StopIsFinal` and `NeverTwice`, by one invariant in which each needs the
  other, together with: a closed stream has nothing left to deliver, at most one registration is
  awaited without a race, and a stream that is not over has a token. `TypeCorrect`, of which those are
  a part: the registry is asked by exactly the streams whose request is looked up. `SubscriptionsKeepTheirTokens`: every
  step of the tab and its backend is one of the registry's, so the registry's promise holds in
  the composition.
- `KeyCopyProofs`: `NothingReplaced`. The job looks at the target once and then writes
  without looking, so the invariant adds that past that look the current key was absent when the
  request began, or has been touched by somebody else. `ResultTellsTheTruth` and `LossesAreReported`, from an
  invariant (`CopyInv`) that follows the key at hand from command to command as long as nobody else touches it: past the
  look its target is empty; what was read is the source's value; what a stream has at the target and what is still to be
  written make up that value. The result says nothing of the key at hand, so the property alone is not inductive.
  `TypeCorrect`, by which a type is known past TYPE, and a value before RESTORE. `DiffTypeCorrect`, for which nothing may
  be awaited, shown or asked before a key was typed (`NoKeyYet`). `ComparesTheSides` and `CopiesFromTheSource`, for the tab that
  asks for copies: an answer is shown of what was asked for, so the invariant says of what is awaited what the
  properties say of what is shown; where it was read from, and where a copy goes, is the side named or none if the fields
  sent tell that side's connection (`ReachesTheSide`), and for any other the theorem claims nothing.
- `DiskTransferProofs`: `TypeCorrect`, which includes that the loops never run past the end of their
  lists; `ChangesAreReported`. Every command of an import writes the key at hand only, and that key is
  reported when the loop leaves it, unless it is skipped: the invariant adds that until the check of
  the target is past, the key at hand is as it was before the import. `ExportsASnapshot`: `ExportInv` follows
  a key from the list of names through TYPE and TTL into the file, so that a name listed twice does not arrive there twice.
  `ImportsWhatWasExported` and `FailsForInfinityOnly`, from one invariant (`RoundInv`) of the key at hand: cleared; or
  partly written, what is written and what is left making up the file's value, and of a stream the first below the second,
  which is why XADD accepts each id; or whole but for its expiry. `MigratesWhatItShows`, of the Migration tab:
  a request goes by what the tab shows or has been marked as crossed, and so has its answer, which is of the target named
  or of none if the fields sent tell it (`ReachedIsNamed`); and `MigrationTypeCorrect`.
- `ListProofs`: `WhatIsKept`, for all five kinds of list. The invariant (`KeptInv`) differs by kind: starred commands and bookmarks are
  never cut, so every copy that is not out of date is the list, but for the empty one a console starts with
  (`WholeInv`); of commands the newest of the user's are at the front of what is kept and of every such copy
  (`CommandsInv`); searches are the list itself (`SearchesInv`). A view shows more snapshots than are kept, and a deletion moves one
  of these into what is kept, so the invariant (`SnapshotsInv`) needs a set of entries that holds, with what is kept,
  the rest of every view and nothing removed. The lemmas about lists are proved by induction over the set of the
  lists for which they hold.
- `PageProofs`: of the Notifications tab `TypeCorrect`; `ListensToTheSelected`, from the invariant that at most one stream is
  awaited or there, which the property does not say and without which a second registration could open
  a stream beside the first; `ShowsTheServersStatus`: with no exception at most one check is on its way, and
  what it has read stays true until Enable changes the setting, which is followed by another check.
  `ShowsTheSelectedStats`: the invariant says of each request on its way what its answer will show, which is why a
  switch has to abort the fetch before it. `SettlesOnTheSelected`, by which the wait of a page without an error ends with the
  right numbers: while it loads, or does not yet show them, a fetch or a refresh is on its way, and what can change
  the key count was sent for the database selected. `WarnsBeforeItRuns`: a pane's pending command is the one its last
  output warned of, so what runs unwarned is what the guard never finds, a command listed by two words.
  `AddsWhatItShows`: two leftovers of the form are harmless, TLS that the chosen way does not show and
  SSH ticked for a way that cannot use it. `ConnectionsAreKept`: a page whose copy is not out of date holds
  what the user chose, and to open what is in localStorage, or in a file, gives what was chosen, or exported, but that a
  secret sealed by another browser opens garbled, which is remembered of the connections it was imported into (`foreign`).
  `TableShowsTheRows`: rows come from an analysis of the database selected, and a renaming gives a row of another database its
  name only when it is marked as crossed; a page other than the first is turned to only while nothing is analysed, and has rows until rows are taken
  away; sorting leaves as many names as the filters let through. `DiffIsALongest`: a cell of the table is at least
  the size of any pairing of the lines before it (induction over the cells' distance from the corner), and on the walk back the lines
  found plus the cell reached stay what the last cell says, so the walk attains that bound.
  `PageTypeCorrect` and `EveryPartKeepsItsPromise`: the ten invariants of the parts hold in the page that composes them,
  by the conjunction of the parts' invariants (`PageInv`) with the fact that a part which depends on the database and
  is not used is in an initial state for it, whichever part switches it.
- `KeysBrowserProofs`: `BulkIsSafe`. What a scan adds to the list is decided when it is sent, so the
  invariant adds that the scan in flight is of the current database and that a scan which will replace
  the list finds it empty, and so finds no tick. All of it holds unless a late bulk TTL has sent a scan of another database
  (`ListInv` is `~strayed => ListHere`), and again from the next search or switch on, which empty the list.
  `TypeCorrect`. `ShowsTheSelectedKey` and `SavesWhereItRead`, from one
  invariant (`PanelInv`): what is shown, what is edited and what is still read belong to the key selected until two requests
  race. `LoadsAllBelowTheCap`: `LoadInv` says that past the first page the list holds all of that page's names, and that
  of the names a deletion was sent for none counts any more, so the last page completes it; that a scan below its cap
  returns all that match is about cardinalities. `TakesWhatItShows`, for the dialogs: what was shown is handed on
  from the search to the preview and from there to the deletion, together with the names that got a value since;
  the invariant (`ActionInv`) says so of every request under way, and that a search is forgotten with its dialog. Then
  what each kind of request can take is compared with what it owes. `ActionTypeCorrect` is a part of it.

Only model-checked: the liveness properties (`StaleEntriesLeave`, `GivesUpWhenRedisIsGone`, `GivesUpWithoutBackend`), since liveness
under fairness is beyond TLAPS here. Every safety property of a passing run is a theorem. What a recursive function computes
(`dp` of `TextDiff`, the lists of `KeptLists`) is proved without the library's induction theorems that take an
operator: the least element of a set of numbers (`WFMin`) gives induction over a set (`NatInd`, `SeqInd` in
`ListProofs`). To that end `Filtered` in `Lists` is a recursive function and not `SelectSeq`.

## What the models leave out

Time is order only: no durations, no countdown, no distinction between a slow answer and a fast
one. Values are compared as wholes. The activity log but for its undo, the slow log, the lists of captured
commands, messages and events, charts, colours and formats are display. A cluster's and a sentinel's connections are not distinguished
from a standalone server's, except that a monitor refuses them. Views of a connection by URL, which stay in
the database its URL names whatever is selected, are left out but for the key diff, the migration and the copy, whose target is open. In `KeysBrowser` nobody
but this page deletes or adds keys, and the TTL of a value is left out; in `KeyActions` an expiry is known only when
it lies in the past. A secret's cipher is modelled by what becomes of the secret. Where a connection leads that the fields sent
do not tell is left open (`PartialConnection`): to any place, or to none.

Not modelled at all: the backend's table of commands, which passes its arguments on to Redis and keeps nothing; the
sampling behind the memory analysis, one pass of reads; the building of client options and TLS settings from a
connection; the request mapping; the configuration view; the widgets.

## Plan

1. The operations on elements and the chunks of a TTL batch, command by command, and their counts; a TTL that is read, edited
   and sent back.
2. What a stream promises the page (one stream, of what was subscribed last, ended by a stop), as one abstract specification that
   the monitor, the subscription and the Notifications tab implement.
