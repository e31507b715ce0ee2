# Open Remote Commander in TLA+

TLA+ models of Open Remote Commander, the TLC runs that check them and the TLAPS
proofs about them. `PROJECT.json` is the index: components, runs, the mutants that
show each property can fail, the source lines of every definition, hazards and
theorems.

## The system

A gateway (`cmd/orc-server`) exposes tools of remote machines over MCP. On each
machine an agent (`cmd/orc-agent`) holds one WebSocket to the gateway and runs
the tools.

```
MCP client --HTTP--> mcpserver.callTool --> relay.Hub.Call ==WebSocket==> agent: executor
                        |      |                ^                          |-- processmgr
                     authn   audit.Writer       | Register / Disconnect    |-- searchmgr
                                |               |                          `-- files
                              store <---- controlplane (pairing, connect, revoke)
```

| Part | State | Operations that change it |
|---|---|---|
| `relay.Hub` | routing map; per connection a semaphore, pending calls, `done`, once-guarded close | Register, Disconnect, Call, readLoop, close |
| `ws` | write lock, the bytes in flight, the reader's fragments | writeFrame, WriteMessage, Close, ReadMessage |
| agent connection | socket, deadlines, back-off | connect, ping, read, handleCall, reconnect |
| agent start | credentials file | load, pair, save |
| `controlplane.HTTP` | rate limits | start, approve and consume a pairing; connect; revoke |
| `store` (Memory, NeonHTTP) | devices, pairings, audit rows | create, approve, consume, authenticate, revoke, audit |
| `processmgr` | sessions, active count, ring buffer | Start, Read, Write, Terminate, exit, expiry |
| `searchmgr` | sessions, results, cursor | Start, run, GetMore, Stop, timers |
| `executor`, `pathpolicy` | the files | write_file, edit_block, move_file, create_directory, kill_process |
| `mcpserver`, `authn` | introspection cache, tokens in circulation | serveHTTP, Mint, Verify |
| `audit.Writer` | queue | Record, loop, Close |
| `limiter` | token buckets | allow |

What is hard: the close of a connection runs in separately scheduled steps
while calls, the reader, a newer connection and a revocation act on it;
deadlines outlive the write they were set for and cut frames in the middle;
handlers span the store and the hub with no common lock, and a statement may be
committed though its answer is lost; a pairing request may succeed at a server
whose client has given up, or whose agent dies before its file is written; a
child process has pipes that outlive it; file tools run concurrently with no
lock, on paths with links.

## Modules

An `MC` module beside a module gives values to constants that a `.cfg` cannot
express, and symmetry sets.

| Module | Models | State and steps |
|---|---|---|
| `RelayHub` | `internal/relay/hub.go`, write lock and close of `ws.go` | One step per critical section, and one per action outside a lock. `pc` follows `Hub.Call`, `closing` the body of `once.Do`, `reader` the read loop, `reg` and `old` Register. The device is unconstrained: it answers any call at any time, twice or never. |
| `RelaySystem` | the hub with the agent's `connectAndServe` and `handleCall` | Adds frames in transit, agent goroutines, disconnects and crashes. |
| `RemoteCall` | abstract: what a caller is promised | A call is refused or open until it returns; the tool runs at most once; a result comes only after the run. |
| `DeviceAccess` | `agentConnect` and `revokeDevice` | Extends `RelayHub`; each handler in its store and hub steps. `RevokeLost` is a revocation that Neon commits and whose answer is lost. |
| `KeepAlive` | deadlines, heartbeat, back-off | Ticks of 10 s; a deadline is absolute and stays in force. |
| `WsFrames` | `writeFrame`, `WriteMessage`, `Close`, `readFrame`, `ReadMessage` | One direction of a connection, byte by byte: writers that take the lock, a header and a payload that a deadline can cut short at any byte, masking, a peer that fragments and pings, the reader, who has nothing but the bytes, and the loop behind it. |
| `Pairing` | start, approve, consume, both stores, the agent's loop and its credentials file | `neon` says which store the server was started with; `clock` distinguishes before, at and after `expires_at`, and `parses` says whether `timePtr` can read Neon's timestamps. The agent crashes at any step and starts again from its file. |
| `IPLimiter` | `ipLimiter.allow` | Buckets with tokens and time in one unit; `spent` remembers every grant and is what `ExactLimit` compares with. |
| `McpEndpoint` | `LoadServer`, the loopback middleware, `HMACVerifier`, `serveHTTP` | Configurations, minted tokens with a clock that is off, requests with at most one flaw, the status of the answer. |
| `ToolCalls` | `callTool`, `audit.Writer`, end of `main` | Handlers, queue, writer goroutine, shutdown. |
| `IntrospectionCache` | `IntrospectionVerifier.Verify` | Clock, cache, requests in progress, a server that may revoke. |
| `ProcessManager` | `internal/processmgr` with os/exec and the child | Session lock, wait goroutine, output copier, context watcher, child and descendants. The copiers of stdout and stderr are one. |
| `OutputRing` | `ring.write`, `ring.read`, `outputWriter` | Byte sequences; a client that follows the output with cursors. |
| `SearchManager` | `internal/searchmgr` | A walk of an endless tree that may be held up anywhere; counts stand for results. `age` and `look` time the two timers, which fire whatever the walk does. |
| `FileOps` | `writeFile`, `editBlock`, `moveFile`, `atomicWrite` | A content is the set of calls whose text it holds, or torn. A rename and the answer that reports it are two steps; the removal of a temporary file may fail. |
| `PathPolicy` | `internal/pathpolicy`; `createDirectory`, `writeFile`, `moveFile` as far as they use it | A tree of directories, files and links the user makes; the lookup of the operating system is external. |

Composition: `DeviceAccess` and `RelaySystem` extend `RelayHub` and conjoin its
actions with theirs, so the hub is written once. `RelaySystem` implements
`RemoteCall` under the refinement mapping at its end. `MCLibraries` puts five
packages that do not interact side by side: a behaviour picks one and leaves the
others in their initial state, so their state spaces add up.

Abstractions a reader may ask about:

- `WsFrames` has the frame format of the code with a smaller byte: fin bit and
  opcode or reserved bit, mask bit and length or tag, longer lengths in big-endian
  bytes, a mask of four. After a cut the reader takes for a header whatever comes
  next, as `readFrame` does. A message decodes if it begins with a brace.
- `SearchManager` counts a walk that has been in one file or directory for as long
  as the two timers are apart (`HeldUp`, 13 minutes in the code) separately: its
  session is forgotten while it runs, and `Start` no longer counts it.
- `Pairing` leaves open whether `timePtr` reads the timestamps, which depends on
  the form in which Neon's proxy sends them.
- `PathPolicy` resolves a path and acts on it in one step. The comment on
  `ResolveForCreate` (`pathpolicy.go:62-65`) sets aside what another program does
  in between, and so does the model.
- `McpEndpoint` has the locally signed tokens; introspection is in
  `IntrospectionCache`. A token is one that was minted or is not: signatures and
  encodings are data.
- `IPLimiter` counts in the unit a bucket earns per tick, where the floating
  point of the code is exact.
- Credentials given by the environment skip pairing and its file altogether.
- `ToolCalls` sees a relay call as a step that ends at any time.

## Runs

| Run | Checks | Distinct states |
|---|---|---|
| `RelayHub` | `ClosedHasNoPending`, `NoOrphanConn`, `OfflineOnlyWhenDone`, `ClosingFailsCalls`, `RegisterCompletes` | 179,570 |
| `RelaySystem` | `ImplementsRemoteCall`, with a reconnect | 326,898 |
| `RelaySystem_shared` | `InFlightBounded`, `ImplementsRemoteCall`, for calls that share a connection | 1,158,906 |
| `DeviceAccess` | `RevokedOnlyStale`, `RevokedGoesOffline` | 31,306 |
| `KeepAlive` | `LinkIsKept`, `CutIsNoticed` | 8,958 |
| `Pairing` | `OneDevicePerPairing`, `CredentialsStored`, `NoOrphanDevice`, `ApprovedIsServed`, `ApprovedGetsPaired` | 744,110 |
| `ProcessManager` | `ChildrenBounded`, `ExitMeansAllOutput`, `SessionEnds`, `CallsReturn` | 64,921 |
| `SearchManager` | `WalksBounded`, `DoneIsFinal`, `SearchEnds` | 556,481 |
| `ToolCalls` | `AuditIsExact`, `ShutdownEnds` | 14,160 |
| `IntrospectionCache` | `RevocationTakesEffect`, `CacheBounded` | 1,878,780 |
| `FileOps` | `AllOrNothing`, `LostOnlyToOverlap`, `ReplacesOnlyNew` | 297,960 |
| `Libraries` | `OutputRing`: `FollowerIsExact`; `IPLimiter`: `ExactLimit`, `GrowthIsRecent`; `WsFrames`: `ReadsWhatWasWritten`, `RefusesOnlyBroken`; `PathPolicy`: `ToolsStayInside`, `MadeIsFound`; `McpEndpoint`: `AnswersAreDue`, `FreshTokenWorks` | 570,570 |

Each property's comment says what it means for the code. Some are conjunctions
that belong together, and have a mutant for each part: `AllOrNothing` (no torn
file, only the text of calls whose rename was done),
`AuditIsExact` (every event written once, dropped or still queued; none lost by
Close), `LinkIsKept` (neither end gives up a working connection, but for the
expired deadline below), `FollowerIsExact` (the ring is the tail of the output,
and a client that follows it misses nothing without being told).
At-most-once execution is part of `ImplementsRemoteCall`: a second run would take
a call out of `ran`, which no step of `RemoteCall` does. Type invariants document
the state; the ones that proofs rest on are proved.

### Where the code and the documents differ

These came up while modelling. No run of the project states the document's
sentence; where a checked property spells out the exception, it is named.

| What the repository says | What the code does | Exception stated in |
|---|---|---|
| live connections of a revoked device are disconnected (`docs/SPEC.md:48`) | a connect that authenticated before the revocation registers after it and stays; tool calls are still refused, since `GetDevice` is asked for each | `RevokedOnlyStale`, `RevokedGoesOffline` |
| the same sentence | when Neon commits the revocation and its answer is lost, `revokeDevice` answers 404 without asking the hub, and a retry finds nothing to revoke (`neonhttp.go:184`, `http.go:214`) | `RevokedOnlyStale`, `RevokedGoesOffline` |
| ping and pong are liveness frames (`docs/SPEC.md:145`) | a call's write deadline (`hub.go:126`) stays set, later pongs fail unnoticed (`hub.go:169`), and the agent gives a healthy idle connection up | `LinkIsKept` |
| 428 until approved, 410 when expired or used (`docs/API.md:19`) | with Neon, and timestamps that `timePtr` parses, an approval between the two queries gives 400, which ends the agent's loop | `ApprovedIsServed`, `ApprovedGetsPaired` |
| the same sentence | `timePtr` (`neonhttp.go:108`) gives no time for a text that is not RFC 3339, such as Postgres writes by default: with such timestamps an expired or used pairing is answered 428, never 410 or 400, and the agent polls on until its own limit | none |
| process runtime is bounded (`docs/SPEC.md:188`) | a descendant that holds the pipes keeps `cmd.Wait`, the session and its slot for as long as it lives | `SessionEnds` |
| existing destinations are preserved (`internal/mcpserver/server.go:431`) | the destination is checked before the rename, not with it | `ReplacesOnlyNew` |
| an exited process frees its slot (`internal/processmgr/manager_test.go:71`) | the exit is visible (`manager.go:161`) before the slot is free | none |
| shutdown fails or finishes pending relay calls (`docs/SPEC.md:206`) | `main` exits ten seconds after the signal; a call may take ninety | none |

### Bounds

- Two connections of one device are what displacement needs; a third
  (`DeviceAccess`) lets a device reconnect after a displaced one. One call is
  enough for the hub's liveness; its safety is proved for any number. In
  `RelaySystem_shared` two of three calls are pending together and the third
  waits for a place.
- Two pairings, two requests and two faults in `Pairing` allow an abandoned
  request to race the one that replaces it, and an agent that crashed to pair
  again. Two subjects allow a second approval.
- Two sessions for one place make the limits of processes and searches bite. The
  deadline of a walk is one tick and its session is kept for three, so a walk can be
  held up past either timer, or look at its context in between.
- `KeepAlive` has the periods of the code (30 s, 90 s, 10 s) in ticks of 10 s.
- Three file calls are the fewest in which an edit lost to one overlapping edit
  can be followed by another.
- The clock of `IntrospectionCache` covers two cache lifetimes.
- `Libraries`: a ring of three with chunks shorter than, equal to and longer than
  it meets every branch of `ring.write`, and three read limits those of
  `ring.read`. One bucket is the table's limit for two addresses, and the clock
  goes past the cutoff, so buckets are swept while they are in use. Frame lengths
  change their encoding at 6 and 16 in place of 126 and 65536, in one and two further
  bytes in place of two and eight, with messages on both sides of each and one message
  over the limit; the peer splits a message before its first byte or within it; two
  frames are begun, by two writers or one, and each may be cut at any byte.
  Three entries of the user are enough for a link to a link and a link out
  of the root, and the paths asked for have `..` behind a link. Tokens are minted
  by clocks behind, equal to, and ahead of the server's by less and by more than
  the leeway.

### Fairness

- `RelayHub`: goroutines that can run do run; a write ends only where a call has
  set a write deadline on the connection. Devices owe nothing.
- `DeviceAccess`: handlers and the hub go on; the close frame, written without
  a deadline, need not end.
- `KeepAlive`: time passes and what is due happens.
- `Pairing`: the agent's ticker fires and the server answers. An agent that
  crashed need not be started again.
- `ProcessManager`: the runtime limit fires, and goroutines waiting for the
  session's lock get it in turn (strong fairness: Go's mutex hands over to a
  starving waiter). The child need not write, read or exit by itself.
- `SearchManager`: time passes, timers fire when they are due, and the walk runs on
  in the end; the tree need not end.
- `ToolCalls`: the writer and `main` run; handlers owe nothing.

Deadlock checking is on but for `Libraries`; the states in which an instance is
used up have an explicit stuttering step. The packages of `Libraries` only ever
wait for a caller, and each of them stops when its bounded input is used up.

## Proofs

Every theorem holds for all values of the constants that the named assumption of
its module admits; the assumptions say that counts are natural numbers, that
limits are positive, that sets which are counted are finite and that markers such
as `NoConn` are no members of the sets they are added to. Two say more.
`LimiterAssumption` has `Burst <= Cutoff`: a bucket is full before it is old
enough to be swept. The code's buckets fill in 25 s and 10 s (`http.go:48`), and
the cutoff is 30 minutes; without it the sweep would hand out a second burst.
`HubAssumption` gives each connection one device and each device one owner.

| Module | Theorem | Property |
|---|---|---|
| `RelayHubProofs` | `TypeCorrect`, `InFlightSafe`, `CloseDrains`, `RoutingSafe`, `OfflineSafe` | `TypeOK`, `InFlightBounded`, `ClosedHasNoPending`, `NoOrphanConn`, `OfflineOnlyWhenDone` |
| `RelaySystemProofs` | `RelayImplementsRemoteCall` | `ImplementsRemoteCall` |
| `DeviceAccessProofs` | `RevocationMissesOnlyStale` | `RevokedOnlyStale` |
| `PairingProofs` | `PairingMakesOneDevice`, `CredentialsWork`, `OnlyLossOrphans`, `ApprovalIsServed` | `OneDevicePerPairing`, `CredentialsStored`, `NoOrphanDevice`, `ApprovedIsServed` |
| `AgentToolsProofs` | `FilesAreWhole`, `OnlyOverlapsHurt`, `OnlyNewFilesReplaced` | `AllOrNothing`, `LostOnlyToOverlap`, `ReplacesOnlyNew` |
| | `SearchDoneIsFinal`, `SearchWalksBounded` | `DoneIsFinal`, `WalksBounded` |
| `ProcessManagerProofs` | `OutputBeforeExit`, `SessionsBounded` | `ExitMeansAllOutput`, `ChildrenBounded` |
| | `RingIsExact` | `FollowerIsExact` |
| `GatewayProofs` | `AuditIsComplete` | `AuditIsExact` |
| | `RevocationIsBounded`, `CacheStaysBounded` | `RevocationTakesEffect`, `CacheBounded` |
| | `EndpointAnswersAreDue`, `EndpointTakesFreshTokens` | `AnswersAreDue`, `FreshTokenWorks` |
| `LibraryProofs` | `LimiterIsExact`, `LimiterTableStaysRecent` | `ExactLimit`, `GrowthIsRecent` |
| | `DeadlinesKeepLink` | `LinkIsKept` |
| | `LengthRoundTrip`, `LengthIsCanonical` | what `EncodeLen` and `DecodeLen` compute |

The arguments:

- **Hub.** `IInv` joins `TypeOK`, `CallInv`, `SlotInv`, `ClosedHasNoPending` and
  `NoOrphanConn`. The bound on calls in flight is not inductive alone: releasing a
  token lowers the count safely only if the caller held one, so `SlotInv` says
  that the semaphore equals the number of calls between acquire and release, and
  `CallInv` ties a call's progress to the connection it looked up and to its
  pending entry. Steps are sorted by what they leave alone (`ConnStepFrame`,
  `CallStepFrame`).
- **Refinement.** Every step of `RelaySystem` is a step or a stutter of
  `RelayHub` (`SysStepIsHubStep`), so `IInv` carries over. `JobInv` says that a
  call is in one place on its way to the tool: not written yet, once in the frames
  of its own connection, or with a `handleCall` goroutine; that is why `Execute`
  finds it has not run. `ResultInv` follows a result back through the frames, the
  reader, the channel and the outcome: wherever it is, its tool has run. Then each
  step of `Hub.Call` is one step of `RemoteCall` or none (`HubCallRefines`),
  `Execute` is `Run`, and all others change nothing of it.
- **Revocation.** `LinkInv` says that a routed connection went through
  `agentConnect` for that device, and that one which authenticated before the end
  of a revocation was counted as stale by it. So what a `Connect` adds later is
  stale, and what a lost answer leaves behind was registered and counted.
- **Pairing.** `StoreInv` ties a consumed pairing to the one request that consumed
  it, which is never used again; `AgentInv` and `DiskInv` tie what the agent and
  its files hold to that request; `LossInv` says what is only possible after a
  loss or a crash. `RaceInv` says that, while nothing is lost, a
  request which was sent after the approval still finds its pairing approved, and comes
  to Neon's second query only when the pairing has expired; `UnusedWhileAsked` gives
  that nobody else has used it. So a 400 belongs to a request that was under way when
  the approval came.
- **Files.** `FileInv` relates a call's temporary file to its progress and its text
  to calls whose rename was done, reported or not. `OverlapInv` remembers, for a call in progress, which calls
  it has seen: one that succeeds meanwhile is in nobody's past.
- **Audit.** An event is in one place: once in the queue, in the writer's hand, or
  written; when the writer is done, only events recorded after Close are queued.
- **Processes and searches.** `LifeInv` orders the life of a session (output ends
  after the child, `Wait` returns after that, the slot is freed last), and the
  counters are the number of sessions that hold a slot. For searches `BoundInv` bounds
  the listed sessions that are not done, and `TimeInv` ties the timers to the list: a
  walk whose session is gone has not looked at its context since the deadline, so it
  is held up (`UncountedIsHeldUp`).
- **Ring.** `RingInv` states byte by byte what `FollowerIsExact` states with `SubSeq`:
  `ring.write` keeps the tail in each of its three branches (`WriteKeepsTail`), and
  what `ring.read` returns ends at the next cursor (`ReadIsExact`), so that a read
  from the client's own cursor continues what it has (`ReadContinues`).
- **Deadlines.** `LinkInv` bounds the age of a read deadline by the time since the
  ticker last fired: the hub's while the path works, the agent's while in addition
  the write deadline has not passed.
- **Introspection.** A check with a positive answer began before the revocation, and
  an entry outlives the beginning of the check that stored it by the cache's
  lifetime at most; eviction makes room before a store.
- **Limiter.** A bucket holds what its tightest window leaves, and a swept bucket is
  one that would be full by now.
- **Endpoint.** Flooring to seconds on both sides never prolongs a token, and costs
  it less than a second.

Only model-checked: everything that must eventually happen (liveness under fairness
is out of the prover's reach), `PathPolicy` (its lookup is recursive) and the reading
side of `WsFrames`. What a recursive definition computes for every input needs an
induction that the installed provers cannot instantiate.

What the code does not promise, and no property says: past a frame of which only a
part was written, the reader may put a message together from the bytes of others; and
a temporary file stays behind when its removal fails or the agent dies.

## Not modelled

- The WebSocket handshake (`Upgrade`, `Dial`) is string handling without state; it
  is one step of `DeviceAccess` and `RelaySystem`, which fails or succeeds.
- `Frame.Validate` is a check without state; a frame that fails it ends a read
  loop, and that is a step of the models.
- `kill_process` and the listing of processes are single requests to the operating
  system; tools and MCP methods that only read change nothing.
- Encoding of rows and answers (but for the parsing of timestamps), API types, the token tool (one call of `Mint`), and
  the parts of the configuration that only refuse a start or set a limit.
- The web page, the scripts and the schema are static; the unique keys of the schema
  are what makes device and pairing identities distinct in `Pairing`.
- Composing `ToolCalls` with `RelayHub`, to compare an audit row's status with a
  call's outcome, would multiply two state spaces for what `callTool` copies in one
  assignment.
