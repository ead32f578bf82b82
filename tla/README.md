# TLA+ models of comqtt-dashboard

This directory holds TLA+ modules for the parts of comqtt-dashboard that keep
state or run concurrently, TLC configurations that check them on small
instances, and TLAPS proofs of the most important results for instances of any
size. `PROJECT.json` lists components, runs, properties, the source lines of
every definition, hazards and theorems; this file explains them.

## 1. The system

comqtt-dashboard adds a web dashboard, per-node REST endpoints and a cluster
mirror to the comqtt MQTT broker. The broker itself is an external package.

| Component | State it keeps | Operations | Talks to |
|---|---|---|---|
| Event hub, `dashboard/sse/hub.go`, `hooks.go`; SSE handler, `handlers/events.go` | subscriber channels under an RWMutex, atomic `seq`, `drops`, `closed` | Publish, Subscribe, Unsubscribe, Close; five broker hooks; one stream per browser | called on the broker goroutine of each MQTT client; read by browsers; by the bridge |
| Cluster event bridge, `dashboard/sse/bridge_redis.go` | two goroutines, a dedup LRU | Start, Stop, publish to and receive from Redis | hub, Redis pub/sub, the bridges of other nodes |
| Session secret, `auth/secret_redis.go`, `dashboard.go` | one Redis key, one file per node | EnsureSecret, applyDefaults | Redis, environment, disk |
| Dashboard users, `auth/credstore_redis.go`, `credstore_file.go`, `handlers/users.go` | a Redis hash, or a JSON file under a mutex | Seed, CreateUser, DeleteUser, SetRole, SetPassword, ListUsers, Authenticate | handlers; Redis or disk |
| Login, `handlers/account.go`, `auth/lockout.go`, `session.go`, `middleware.go` | failures and locks per user in memory; signed cookies | LoginPost, LogoutPost, ChangePasswordPost, RequireAuth | the user store, the session secret |
| MQTT accounts, `mqttauth/{file,redis,sql}.go`, `handlers/mqtt_auth.go`, `mqtt_acl.go` | YAML ledger, Redis hashes or SQL tables | PutUser, DeleteUser, PutRule, DeleteRule, and reads | handlers; the broker's authenticator reads the same data |
| Per-node REST, `rest/` | none; reads and changes the broker's tables | four lists, the topic tree, three DELETEs | broker; called by the mirror |
| Cluster mirror, `cluster/rest/` | none; one fan-out per request | the same, merged over all members | the REST endpoints of every member over HTTP |
| Boot and shutdown, `cmd/*/main.go`, `Routes` in `dashboard.go` | what a node has opened and started; seeds in Redis and in the auth store | realMain from agent.Start to the deferred Close calls, seeding of the first admin and of the initial regex rule | everything above |
| Backend selection, `mqttauth/configloader.go`, `factory.go` | none | FromComqttConfig, New | the broker's configuration |
| Regex ACL rules, `handlers/mqtt_acl_regex.go` | an external backend shared by the nodes | create, update, delete, reorder | handlers; the broker's hook reads the rules |
| Blacklist, `handlers/blacklist.go` | `Server.Blacklist`, a slice without a lock | add, remove, list | the broker searches it when a client connects |
| Overview, `handlers/overview.go` | last counters, rates and five bounded histories under an RWMutex | one sampler goroutine | the broker's counters |
| Broker pages, `handlers/client_detail.go`, `sessions.go`, `retained.go`, `tools.go` | none; change the broker's tables | unsubscribe, end a session, clear and publish retained messages | broker; clients that do the same for themselves |
| Lists, templates, settings, sparklines, hashing, deployment | none of their own | | not modelled |

What is hard about it: hooks run on broker goroutines while browsers come, go
and stall; nodes boot together and must agree on a key; Redis fails, loses
replies and is shared; the checks and the writes of an admin's request are
separate calls; a process can die inside a save or between two steps of a boot;
a slice is shared without a lock; and the mirror asks nodes one by one while
clients move between them.

What each component must get right:

* hub: no panic, no blocked broker goroutine, losses counted, order per client, streams that end;
* bridge: no loops, duplicates only beyond the LRU's window, order per client of an origin, a Stop that returns and then is silent;
* secret: one key for all nodes that use Redis; a key on disk that survives;
* user stores: updates neither lost nor applied to another state than the one they were computed from; a last admin;
* login: exact threshold, locks that hold, no page under an initial password unless its owner keeps it;
* MQTT accounts: whole files, no user without a password, no rules inherited from a predecessor, lists of the operator kept;
* boot: seeds stored before anybody is served, deletions that last, a password somebody can read, stores that outlive their users;
* admin pages: a blacklist that is exact and keeps clients out, two records of a subscription that agree, rates that add up, reorders that undo nothing;
* mirror: rows that were there, no row missed, the online record wins, codes that say what happened.

## 2. Modules

| Module | Models | Correspondence |
|---|---|---|
| `Hub` | hub, hooks, SSE handler | one process per MQTT client, stream and closer; a step is one atomic operation, lock operation or critical section. `subs`, `seq`, `drops`, `closed` are the fields of `Hub`; `readers`, `writer` the RWMutex with its writer preference; `chan`, `buf` a stream's channel |
| `EventBridge` | bridge | per node: the calls of Hub.Publish under way (each has stamped its event and has still to send it to some subscribers), the publisher's channel, the message being sent, the LRU, the control state of both goroutines and of Stop; `merged` is what a stream of the node was sent. Redis pub/sub is external |
| `SessionSecret` | EnsureSecret, applyDefaults | `key` in Redis, `file` on disk, `cand`, `secret`, `source` of each node; one Redis command per step; `epoch` counts losses of the key, `unread` the nodes whose os.ReadFile failed in this boot |
| `CredUsers` | the user records and what each update does to one | operators shared by the two stores |
| `CredStoreRedis` | RedisStore and the handlers | the hash `users` with a WATCH `version`; one command per step |
| `AccountStore` | what a user store promises | abstract: each operation is one atomic step |
| `CredStoreFile` | FileStore and the handlers | `mu`, the file, load and the two halves of os.WriteFile, errors of each, crashes |
| `Login` | login, lockout, sessions, middleware | a clock, `failures`, `until`, cookies; LoginPost is three steps around the password check; a change may keep the password, `chosen` are the users whose last change set the first one again |
| `MqttAccounts`, `AuthBackend` | users with rules; the Backend interface | abstract: one atomic step for each method |
| `MqttLedger` | file backend and the handlers | `mu`, create, write and rename of the temporary file, failures, crashes, an operator's edits |
| `MqttTables` | Redis and SQL backends and the handlers | user and rule tables, one statement per step; `kind` selects how rules are identified |
| `ClusterRest` | mirror and REST endpoints | tables of each node, one request at the mirror, an answer per peer; a DELETE that timed out may be executed late. `Executes` is what a peer's handler does: `Unsubscribe` and `DeleteRetained` change its tables, `DisconnectClient` does not: the client's entry goes when its connection ends or its session expires (`Disconnect`) |
| `NodeBoot` | realMain, Routes, seeding, shutdown | EXTENDS `SessionSecret`: a node takes its steps while it is in applyDefaults. `stage` is where realMain is, `todo` what is left to stop, `running` and `open` its goroutines and store clients; one call of a store per step; a node can be killed anywhere |
| `DashboardUsers` | the choice of the user store in Routes | composes `CredStoreFile` and `CredStoreRedis` |
| `MqttBackends` | FromComqttConfig and New | composes `MqttLedger` and `MqttTables`; `kind` is the backend that was opened, or that none is wanted or could be |
| `Blacklist` | BlacklistAdd, BlacklistRemove, the admission of clients | the slice as Go lays it out: `ptr` and `len` of the header, `arrays` with their slots; each load, store and shift is a step |
| `BrokerPages` | unsubscribe, end session, retained messages | EXTENDS `Blacklist`; `trie` and `maps` are the two records of a subscription, one map for every session of a client |
| `RateSampler` | the sampler goroutine | the loads of the counters, the delta, the bounded history |
| `RegexRules` | the regex page | the backend's calls are atomic, a reorder is two of them |
| `AdminPages` | the pages of one node together | composes the four modules above; `Mixes` bounds the operations of each kind |
| `HubProofs`, `NodeBootProofs`, `DashboardUsersProofs`, `LoginProofs`, `MqttBackendsProofs`, `EventBridgeProofs`, `ClusterRestProofs`, `AdminPagesProofs` | | theorems, one module for each composition and the components in it |
| `MC*` | | constants and symmetry for TLC |

Data are abstracted to what the properties tell apart: an event is its number
and client, a password is a number, a client ID or filter of the mirror is a
number whose order is the order of the strings, a topic of the broker pages is a
number with its image under url.PathUnescape. Page rendering, JSON and
logging are left out. Pagination is modelled with the width of Go's `int`. Data
races on the blacklist slice are modelled by the single loads and stores of the
words, in every order; once two admin requests have overlapped the contents
count as undefined and nothing more is claimed.

## 3. Runs

Each passing run is exhaustive for its bounds (named constants in the cfg).

| Run | Bounds | Shows |
|---|---|---|
| `hub` | 2 clients, 1 stream, 2 closers, 2 hook calls in all (`MaxCalls`), channel of 1 | `NoPanic`, `EveryLossCounted`, `ClientOrder`; `PublishReturns`: a hook call returns although no browser reads; `StreamsEnd`: a stream whose browser reads ends once its context or its channel is done. A channel of one slot fills after one event, so drops happen at once; two closers race each other and the stream's own Unsubscribe. One stream is enough for the liveness properties, and the three invariants are proved for any number |
| `bridge` | 2 nodes, 2 clients, 2 events, LRU of 1, 2 lost or repeated PUBLISHes, 1 Stop, 1 restart | `DedupWindow`, `OriginOrder`, `OnlyDuplicatesDiscarded`, `QuietAfterStop`. Two clients let the calls of Publish overtake each other between the stamp and the sends; two peer events fill and overflow the LRU. A third node does not fit the time; the four properties are proved for any number of nodes and clients |
| `bridge_live` | 2 nodes, 1 client, 2 events, channel of 1, no faults, 1 Stop | `StopTerminates`, `EventuallyMerged` |
| `boot` | 2 nodes, 3 boots, 2 fresh keys, 1 fault of Redis or the disk inside applyDefaults (a key file that cannot be read included), 1 failed call elsewhere, 1 end (kill or exit) of a process that has begun applyDefaults and any number of earlier ones, 1 loss of the Redis data | `RedisAgreement`, `FileKeyStable`, `NeverServedUnseeded`, `DeletionSticks`, `InitialPasswordPrinted`, `StoresOutliveUsers`. Three boots are a cluster of two and a restart of one of them; all six are also proved for any number of nodes |
| `accounts` | 2 users, 2 requests at a time; file: 4 operations, 2 faults (a crash, a failing read or write), fresh or used site; Redis: 5 operations | `ImplementsAccountStore`, `MutateAtomic` |
| `cred_redis_toggle` | 2 admins, 2 toggles | **violated**: `AdminRemains`, see section 6 |
| `login` | 1 user, 3 concurrent logins, threshold 2, clock of 3, 2 passwords, 1 fault | `LateGuessesBounded`, `ThresholdLocks`, `InitialPasswordOnlyByChoice`, `LockHolds`. With two passwords a change sets another one, the same or the first again. The lockout keeps users apart, so one is enough |
| `login_expiry` | 1 user, 1 request, `PasswordExpiryDays` 0 | **violated**: `ZeroNeverExpires`, see section 6 |
| `mqtt_accounts` | every way and datasource of the configuration; 2 requests at a time, 1 fault; ledger: 2 subjects, 1 topic, 3 operations, 1 crash, 1 edit; tables: 1 subject, 2 topics, 5 operations | `ImplementsBackend`, `ListsPreserved`, `UsersHavePasswords`, `NoInheritedRules`, `BackendTypeOK` (the ledger is never partial; a temporary file stays only after a crash) |
| `cluster_rest` | 2 nodes, 2 clients, 3 filters, pages of 2, ints of 4 bits, 3 changes of the brokers | `ListedWhereSeen`, `NothingMissed`, `OnlineWins`, `PagesPartition`, `TreeAddsUp`, `DeletedEverywhere`, `NotFoundMeansUntouched`. Three retained messages on one node exceed its page; three changes are enough to connect, subscribe and move a client, before or during a request |
| `admin_pages` | 2 client ids, 3 processes, 3 topics, history of 2; each behaviour draws one of the mixes of `MCMixes` | `BlacklistExact`, `BlacklistedStaysOut`, `TrieMatchesMaps`, `SamplesAddUp`, `RulesAsIntended`. Three additions with a removal make the slice grow, shift and reuse its array under a connecting client; two connections let a client come back while a request holds its old object |
| `row_unsubscribed` | a client with two subscriptions | **violated**: `RowUnsubscribed`, see section 6 |

`CHECK_DEADLOCK FALSE` is set where a bound on operations lets a behaviour end;
`cluster_rest` is checked for deadlock.

Every property of a passing run has a mutant in `PROJECT.json`: a plausible
mistake in a modelled definition that the run detects. The mutants are the
definitions that stand before the one they replace and are used nowhere else
(`SaveWriteIgnoringError`, `RespondOnFirst204`, ...). The type invariants
(`TypeOK`, `NodeTypeOK`) say what the variables hold; all of them are
proved (section 5), and `BackendTypeOK` is also part of a run.

## 4. Fairness

`Hub`: a goroutine that can run does run (weak fairness of the steps of a
publisher and of the critical sections), and `sync.RWMutex` starves nobody
(strong fairness of its lock operations: a waiting writer bars new readers, and
Unlock admits the waiting readers first). Nothing is assumed of browsers:
`StreamsEnd` states for itself that the browser reads (`Reading`), and within
it that `select` does not pass over a ready case for ever. `EventBridge`: the two
goroutines run, as do the broker's goroutines inside Publish, whose sends never
block; `select` notices a cancelled context (strong fairness of the two exits), and
the caller of Stop waits. All other runs check safety only.

## 5. Proofs

The modules `*Proofs` are checked by TLAPS (SMT, Zenon and, for the temporal
steps, LS4). Every theorem holds for sets of any size and for any bounds, under the
named assumptions on the constants of its module: bounds and capacities are natural
numbers, capacities positive; marks such as `NoProc`, `Blank` or `Shared` are no
members of the sets they stand beside; the kinds of process are disjoint. The sets of
requests (`Login`) and of nodes, clients and filters (`ClusterRest`) are finite, as they
are in any process. `ClusterRest` also assumes that a filter's path is a finite sequence
of levels, and that the rows of a table and one page together are no more than 2^63 (`IntHalf`,
half the range of `int`): a Go slice, whose length is an `int`, could not hold them. Each
inductive invariant was checked by TLC on the bounds of its run before it was proved.

Every safety property of a passing run is a theorem. Besides, every type invariant is one,
or is a part of the inductive invariant that one states.

**Hub.**

* `HubTyped`: `Spec => []TypeOK`. `TypeOK` alone is not inductive: that a hook
  call decrements a positive count needs `HookBusy`, a client inside Publish has
  events left to publish.
* `HubNeverPanics`: `Spec => []NoPanic`. The invariant is `HubInv`: `SubscribedOpen`
  (a channel in `h.subs` is open) and `FanOutLocked` (while a publisher is in its
  fan-out loop it holds the read lock, and the channels it still has to visit are
  in `h.subs`). Together they say why no send can hit a closed channel: closing
  needs the write lock, which the read lock excludes.
* `HubKeepsClientOrder`: `Spec => []ClientOrder`. What a stream has received so far
  does not tell what a publisher is about to send, hence `StampsBehind` (no stamp is
  ahead of `h.seq`) and `NextIsNewer` (the event a client is publishing is newer than
  all its events on every stream that is still to get it). `NextIsNewer` is where it
  matters that a client waits for one hook call before the next.
* `HubCountsEveryLoss`: `Spec => []EveryLossCounted`. The invariant adds to `HubInv`
  that `h.subs` is finite, so that losses can be counted at all; the argument is that
  only a send to a full channel adds a loss, one at a time, and that it adds a drop.

**Session secret, boot and shutdown.**

* `SecretTyped`, `SecretAgreed`, `SecretFileStable`: `[]TypeOK`, `[]RedisAgreement`,
  and `FileKeyStable` (a usable key on disk is replaced only in a boot that could not read it). The invariant is `SecretInv`: `RedisSourced` (a node whose
  source is Redis is up and has a usable secret), `KeyCurrent` (no node's epoch is
  ahead of the number of losses, and a Redis-sourced node of the current epoch
  holds the key that is in Redis now) and
  `GenerateOnlyWithoutFile` (a node draws a key for its disk only when the disk
  has none or os.ReadFile failed), from which each step of the GET - SETNX - GET dance follows.
* `BootImplementsSecret`: `NodeSpec => Spec` of `SessionSecret`. Every step of a boot
  or a shutdown is a step of the secret or leaves it alone; a node that ends is a
  crash there. `BootAgrees` and `BootKeepsFileKey` carry the two properties over.
* `BootSeedsFirst`, `BootKeepsDeletion`: from `SeedInv`. `MarkAfterPut` says that the mark
  is set only after a rule was put and that a node is past the seeding only when the
  store is marked; `NobodyPuts` that after an operator's deletion the store is marked
  and nobody is about to put a rule.
* `BootPrintsPassword`: `InitialPasswordPrinted` is inductive with the types of the
  three variables it reads: an HSET makes the password of its own node the current
  one, and that node is then about to print it.
* `BootClosesLast`: `StoresOutliveUsers`, from `StopInv`, which says for each suffix of
  the stop order who is still there: the HTTP listener until server.Close, the bridge
  until dashCleanup, the stores until the deferred calls.
* `BootTyped`: `NodeTypeOK`, from all of these invariants together.

**Dashboard users.**

* `FileLocked`, `FileImplementsAccountStore`: `CredStoreFile` implements `AccountStore`.
  The invariant is `FileInv`: next to the types, `LockInv` says that a request between
  load and the end of its save holds `s.mu`, that what it is about to write is its
  operation applied to what it loaded, and that until it truncates the file still holds
  what it loaded. So only the write shows, as one atomic operation, and a crash or an
  error of the disk shows only when it leaves the file torn.
* `HashWatched`, `HashMutatesAtomically`: `MutateAtomic` of `CredStoreRedis`. `SnapshotFresh`
  says that an EXEC whose WATCH version is still current holds the record that is in the
  hash; every write moves the version on, so it holds for those that go through.

**Login.**

* `LoginKept`, `FirstPasswordOnlyByChoice` (`InitialPasswordOnlyByChoice`), `FewLateGuesses`, `LocksHold`.
  `LateGuessesBounded` is not inductive: `GuessesLeft` counts, during a lock, the guesses already made together with
  the requests that have passed the lockout check and not yet had their password
  checked. `Replaced` says that MustChange is cleared only by a change of the password, to another
  one or by choice to the first again,
  `LockShort` that no lock reaches beyond `Duration`.
* `ThresholdIsExact`: `ThresholdLocks`. Record forgets the failures that have left the
  window, and the property is about all of them. `WindowInv` relates the two: what the
  lockout remembers is a suffix of the failures since the last lock or login, in order
  of time, and those it has forgotten are out of every window that a later failure can
  open (`KnownOf`); and fewer than `Threshold` of them lie in any one window.
* `LoginTypes`: `TypeOK`, whose last part bounds the memory of the lockout: the failures it
  keeps of a user are always fewer than `Threshold`, since the one that makes them as many
  locks and clears them.

**MQTT accounts.**

* `LedgerLocked`, `LedgerKeepsLists`, `LedgerImplementsBackend`: `ListsPreserved`, and `MqttLedger`
  implements `AuthBackend`. From `LedgerInv`: whoever holds `b.mu` is saving what his operation
  makes of the accounts in the file, what he renames is all of it, and the lists in his
  hands are the operator's last unless an edit came in between. Only the rename shows.
* `TablesKept`, `TableUsersHavePasswords`, `TableRulesNotInherited`: `UsersHavePasswords`,
  `NoInheritedRules`. `TableInv` adds `RuleIds` (each rule is found under an id of its own,
  whatever the backend makes of it) and `Prepared` (a request about to write a user has
  a password for him, however old its read).
* `BackendsTyped`: `BackendTypeOK` of the composition.

**Cluster event bridge.**

* `BridgeKept` is `BridgeInv`. `Turns` says that each client of the broker, and the bridge's
  subscriber, has one call of Publish under way at a time. `FromHub` and `OneEvent` say
  where copies of events come from and that an id names one event; `InOrder` that from the
  calls under way through the hub, the publisher, the inbox and the peer's calls to its
  stream no event overtakes another one about the same client of its node, while events
  about different clients may; `Window` that an event on its way to
  a node that has shown it already is still in the LRU or has had `LruCap` peer events
  after it; `KeysNameEvents` that until a node restarts a key names one event. From these:
  `NoDuplicatesInWindow` (`DedupWindow`), `EventsInOriginOrder` (`OriginOrder`), `OnlyShownDiscarded`
  (`OnlyDuplicatesDiscarded`), for any LRU and channel capacity. `StoppedBridgeIsQuiet`
  (`QuietAfterStop`) follows from `Exited`.

**Cluster mirror.**

* `RestKept`, `NotFoundTouchesNothing`, `BroadcastReachesAll`: `NotFoundMeansUntouched` and
  `DeletedEverywhere`. `RestInv` consists of `PeersDone` (a peer that answered a DELETE is done
  with the target: it does not hold it unless it came anew, or, when a session is to be
  cleared, it has disconnected the client it found; one that did not see the client in its
  table has not missed it), `ActsReported` (who removed something has said so or was booked as
  failed) and `CodeOfAnswers`.
* `ListsKept`, `RowsWereThere`, `NothingIsMissed`, `OnlineRecordWins`: `ListedWhereSeen`, `NothingMissed`,
  `OnlineWins`. `ListInv` says of every peer that its rows were true of it at some moment,
  and that a full answer holds what was true all the time (`ItemsRight`); between the two
  looks of listSessions, that what it read from the client table is right in the same
  sense (`SeenRight`). Both survive any change of the brokers, since what ever held only
  grows and what always held only shrinks. The rest is about operators: `SortedRows`
  (ranking rows with distinct keys gives a sequence of all of them), `FirstPage` (page 1
  is a prefix, and the whole of a list that fits), `FirstIsOne` (a first node in any
  order of the members), `RowRight` (the row that the merge keeps is one some peer sent).
* `PagesPartitionLists`: `PagesPartition`. `ListInv` gives that the merged list is a sequence
  no longer than its table (`MergedRight`, `RowsFit`), so that `page * size` does not wrap for
  a page the property speaks of (`IntPages`). `PageIs` says which piece of the list
  ApplyPagination cuts out: page i of size k ends at `CutAt(i)`, the smaller of `i * k` and
  the length. `PageEnds` says that these ends rise from 0 to the length, and `PiecesFlatten`
  that a sequence cut at rising ends is put together again by `FlattenSeq`.
* `TreesKept`, `TreeCountsAddUp`: `TreeAddsUp`. `TreeInv` says of each peer's tree what
  `TreeAddsUp` says of the merged one: a path counts at least the node's subscriptions that were
  there all the time, and at most those that were there at some moment (`CountedOn`). A
  node's own tree counts exactly the ones it has (`LocalCounts`); a change of the brokers can
  only widen the two bounds (`CountKept`). `RoundsCount` follows the loop of topicsTree over
  the members: after each round the counts lie between the sums for the nodes merged so
  far, because the facts of two nodes are disjoint (`OneMore`) and mergeTopic adds
  (`CountsAdd`); a peer without an answer is passed over. This is where it matters that no
  member occurs twice in the list.
* `MirrorTypes`: `TypeOK`. Its part about peers says that no peer panics while it slices
  its page and that none sends more than `MaxPageSize` rows.

**Admin pages.**

* `ListIsExact`, `ListedStaysOut`: `BlacklistExact`, `BlacklistedStaysOut`. `BlInv` describes, as
  long as no two admin requests have overlapped, what the slice and its backing array
  hold at each stage of an addition or removal (`StageOK`), that a connecting client's
  scan still has the listed id before it (`ChecksKept`), and which sessions an addition
  leaves (`SessionsGone`).
* `RecordsOfSubscriptionsAgree`: `TrieMatchesMaps`. `PagesInv` says who may be at work on a
  subscription at a time and which of the two records he has changed (`Agrees`), and that
  the last object of a client is the one online (`SessionsKept`).
* `EverySampleCounts`: `SamplesAddUp`, by an induction over the history of samples.
* `RegexRulesAsIntended`: `RulesAsIntended`. `HeldFresh`: what a reorder is about to put back is
  the rule as it is, moved, unless somebody wrote the rule in between.

Where an argument needs induction over the naturals (`ThresholdLocks`, `SamplesAddUp`,
`FirstIsOne`, `PagesPartition`, `TreeAddsUp`) it goes through the least element of a set of
counterexamples (`LeastNat`, `UpTo`), since the induction rules themselves take an operator
as parameter. A recursive function is a CHOOSE, of which nothing is known until a
function with its equation is shown to exist; `PiecesFlatten` does that for the
accumulator in `FlattenSeq`, with the prefixes of the list, and `RoundsExist` for the loop of
topicsTree, extending the function for k rounds to one for k + 1. Three helpers were written so that they can
be reasoned about: `InWindow` of `Login` and the loop of `MirrorTree` as recursive
functions, and `Sorted` of `ClusterRest` by rank.

Only model-checked:

* the liveness properties `PublishReturns`, `StreamsEnd`, `StopTerminates`, `EventuallyMerged`,
  which depend on fairness, and for which the prover has no rules;
* the three violations of section 6.

## 6. Findings and limits of the code

The run `cred_redis_toggle` shows that two concurrent demotions of the last two
admins leave none, against "Refuses to demote the last admin"
(`dashboard/handlers/users.go:101`).

The run `login_expiry` shows that `PasswordExpiryDays` 0 does not turn expiry off, against
"0 = never expire" (`dashboard/dashboard.go:63`) and "0 disables" (`README.md:98`):
applyDefaults replaces it by 90. Only a negative number, which no document mentions,
turns expiry off.

The run `row_unsubscribed` shows that the unsubscribe button of a row whose topic
contains a percent sequence acts on another topic, against "matches the REST
handler" (`dashboard/handlers/client_detail.go:115`): the handler decodes a path value
that the router has already decoded. Clearing a retained message does the same
(`retained.go:106`).

Met while modelling, and stated where a property had to be qualified:

* Across clients `Seq` is not monotonic on a stream: it is stamped outside the lock (`hub.go:59`). The models stamp and send in separate steps, and claim order per client only (`ClientOrder`, `OriginOrder`).
* A node whose key file cannot be read at a boot (any error of os.ReadFile) draws a new key and writes it over a usable one: all its cookies become invalid (`dashboard.go:335`).
* The password page accepts the current password as the new one and clears MustChange: an account can go on under its initial password (`account.go:165`), against "password rotation on first login" (`README.md:21`), "force-rotate" (`middleware.go:26`) and "Choose a new one to continue." (`templates/account/password.html:16`).
* A session that is cleared stays in the list of its node until the connection's goroutine has ended, a persistent one until it expires (`rest/sessions.go:87`), although the mirror has answered 204.
* A restarted node stamps from 1 again; while its old keys are in a peer's LRU its events are discarded (`bridge_redis.go:119`).
* Two nodes that seed at once both print a password, and only one works (`credstore_redis.go:71`).
* A node that ends between HSET and println, or whose HSET took effect although its reply was lost, leaves a fresh cluster with an admin whose password nobody has seen; later boots find the hash filled and print nothing (`credstore_redis.go:71`).
* A boot that fails at the HTTP listener does not call dashCleanup: the bridge runs on a closed Redis client until the process exits (`cmd/comqtt-cluster-dashboard/main.go:281`).
* The initial regex rule may be put twice (put, crash, put); a second node that found the store unseeded may put it after an operator has deleted the first (`cmd/comqtt-dashboard/main.go:207`).
* Overlapping requests to the blacklist lose updates, and a client that connects during a removal may be admitted although it is listed (`blacklist.go:66`, `:88`).
* An unsubscribe from the page that overlaps the client's own subscribe or reconnect can leave topic trie and client map different for good (`client_detail.go:137`).
* A reorder of a regex rule puts back the whole rule it read: it reverts an update and revives a deletion made in between (`mqtt_acl_regex.go:146`).
* The messages of the first busy second appear in no rate (`overview.go:198`).
* A `dashboard:` section without `enabled` turns the dashboard off, although without the section it is on (`cmd/comqtt-dashboard/config.go`).
* A toggle that races with a password change in Redis or SQL restores the old password (`mqttauth/redis.go:134`).
* An operator's edit of the ledger between load and rename is overwritten (`mqttauth/file.go:145`).
* The mirror sees at most 500 rows of a node (`cluster/rest/aggregate.go:25`); 204 does not mean that a peer that failed has deleted its copy; with a failed peer and 404 from the others it answers 502; `?online=false` lists clients that are online on another node; clearing a session that is only stored answers 204 and leaves it.
* A page number whose product with the size exceeds `int` makes the slice expression of `ApplyPagination` panic (`rest/pagination.go:35`).

## 7. Not modelled

* Lists, templates, settings, sparklines, topology: they read and render. The copy of the blacklist for its page is one of these reads.
* The route table; which wrapper guards a route. What the wrappers do is in `Login`.
* initAuth, initStorage and initBridge beyond their failing: they install hooks of the broker.
* Parsing of the configuration, the adapter for comqttauth, password hashing, deployment files.
* A session secret from the configuration file (applyDefaults then does nothing) and `DASHBOARD_INITIAL_PASSWORD` (the seeded password is then one the operator knows).
* SetLockedUntil, IncrementFailures, ResetFailures of the user stores and the replacing form of PutRule: no caller in the repository.
* The second filter of the list of subscriptions, `?topic=` (`rest/subscriptions_list.go:24`); its `?clientid=` and the filters of the other lists are modelled.
* Changes of the member list during a request of the mirror.

## 8. Plan

Done, in this order: hub, session secret, bridge, user stores, login, MQTT
accounts, mirror; then the boot and shutdown of nodes, the selection of stores
and backends, the admin pages (blacklist, broker pages, sampler, regex rules);
the proofs about hub, secret and boot; and the proofs about the user stores, the
login, the MQTT backends, the bridge, the mirror and the admin pages, at last those
of its pages, its topic tree and its types. No safety property is left to prove.

Next, modelling: a composition of `Login` with `CredStoreRedis` and
`SessionSecret`: cookies that one node signs and another verifies, with a role or
password changed in between.
