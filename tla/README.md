# A TLA+ verification of tg-ws-proxy-go

tg-ws-proxy-go is an MTProto proxy: Telegram clients connect to it over TCP, and
it carries their traffic to Telegram over WebSockets (from a pool of ready
connections), over Cloudflare workers, over Cloudflare-proxied domains, or over
plain TCP.  This directory holds TLA+ models of the parts of the Go program
(`src/src/*.go`) in which goroutines meet or bytes are transformed, TLC runs that
check them on small instances, and TLAPS proofs for instances of every size.

`PROJECT.json` is the machine-readable index: components, runs, the mutants that
show each property can fail, the map from definitions to source lines, hazards
and theorems.

## 1. Inventory

| part | state | operations | meets |
|---|---|---|---|
| WebSocket pool, `pool.go`, `state.go` | buckets of idle connections per DC, media flag and IP; which keys are being refilled; routes with retry delays; the fronting mode | `getForDC`/`get`, `scheduleRefill`, `refill`, `rotate`, `warmup`, `Close` | sessions, its own refill goroutines, the rotator, the shutdown |
| Worker pool, `worker_pool.go` | one idle connection per DC and destination; refilling marks | `get`, `refill`, `warmup`, `Close`, `connectWorker` | sessions in `cfWorkerFallback`, refill goroutines, the dial limits of the domains |
| Cloudflare domains, `cfproxy_domains.go` | the list, the active domain (overall and per DC), cooldowns, dial counters | `cfproxyDomainsForTry`, `beginFallbackDial`, `finishFallbackDial`, `promoteCFProxyDomain`, `setCFProxyDomains` | sessions in `cfproxyFallback`, worker dials, the hourly refresh |
| TCP fallback, `tcp_backoff.go` | per address: connecting, delay, retry time | `begin`, `finish`, `connectTCPFallback` | sessions, the shutdown's `AfterFunc` |
| Bridge, `transport.go`, `diagnostics.go` | two pumps, pending statistics, last activity, the first read of a pooled connection | `bridgeWS`, `tcpFallback`, watchdog, observer | both peers, the shutdown |
| Splitter, `splitter.go` | the start of an incomplete packet; switched off or not | `split`, `flush` | the up pump |
| Server, `server.go` | listener, session semaphore, accept pause, contexts, background goroutines | `main`, `serve`, `handleClient`, `handleMTProtoClient` | everything above |
| Fake TLS, `fake_tls*.go` | a read deadline, a read buffer, the size learnt from the masking host | `acceptFakeTLSClient`, `parseFakeTLSClientHello`, `buildFakeTLSServerHello`, `proxyToMaskingDomain`, `fakeTLSConn.Read`/`Write`, `probeFakeTLSConn` | the client, the masking host, the shutdown, the bridge |
| MTProto handshake and ciphers, `crypto.go` | four key streams and their positions | `tryHandshake`, `generateRelayInit`, `buildCiphers` | the session, both pumps |
| Log rotation, `logging.go` | the open file, a counter of writes, the backups on disk | `Write`, `rotate`, `initLogger` | the file system, the next process |
| Configuration, limits, dialers, TLS | | start-up code, formatting, calls into the network stack | |

What makes the program hard is that nearly every operation is several critical
sections with a network call in between: a refill checks the length of a bucket,
dials and appends; a fallback reserves, dials, writes, gives back and promotes;
an `AfterFunc` closes a connection at any moment and nobody waits for it; a
shutdown can arrive between any two of these steps, and three parties close a
session's sockets.  On the byte path, buffers, records, packets and key streams
each have boundaries of their own, and none of them coincide.  The hazards are listed with their lines in `PROJECT.json`.

What makes each part correct, in a sentence: a pool never lends a connection
twice, loses none, never overfills, keeps filling, and is empty when `Close` has
returned; a domain or an address is dialled no more often than its limit and its
backoff allow, and its reservation always comes back; a bridge that returns has
left no pump, watchdog or reader running and lost no byte; records, ciphers and splitter together are
transparent, and every WebSocket message is one packet; a Fake TLS hello never
breaks the parser and is answered to fit, and the masking relay passes on what the
host says and ends; a rotated log is in order and complete; the server never has more sessions than slots, tries every route
before giving up, and leaves nothing behind.

## 2. Modules

    ConnPool  <= WSPool      <- MCWSPool, WSPoolProofs
              <= WorkerPool  <- MCWorkerPool, WorkerPoolProofs
    Permits   <= CFProxy     <- MCCFProxy, CFProxyProofs
    Server                   <- MCServer, ServerProofs
    TCPBackoff               <- MCTCPBackoff, TCPBackoffProofs
    Bridge                   <- MCBridge, BridgeProofs
    Splitter, TLSRecords, Ciphers <- DataPath <- MCDataPath
    ClientHello <- FakeTLS   <- MCFakeTLS, FakeTLSProofs
    LogRotation              <- MCLogRotation, LogRotationProofs

`<=` reads "is implemented by" (INSTANCE ... WITH, checked as a property and proved), `<-`
"is extended by".  `ConnPool` says what a pool promises its callers; `Permits`
says what a limit on simultaneous use is.

In all modules an action is one critical section, or one step outside a mutex
that another goroutine can observe (a dial that returns, a socket closed).  A
goroutine's position is a program counter (`gpc`, `cpc`, `pc`...) whose values
are named after the step that comes next.  Deadlines and delays are Booleans or
sets that the environment clears or adds to at any time, so a property never
depends on how long something takes; a clock value the code keeps
(`now := time.Now()`) is a copy of that set made at that point.  Definitions named
`Bad...` are faulty variants that nothing uses; each shows, put in the place of
the definition after it, that a property can fail.

**WSPool.**  `idle`, `refilling`, `closed`, and `known`/`delay`/`backoff` (the
fields of `poolRoute`) are the fields of `wsPool`; `fronting` is
`frontingActive()`.  Connections have identities: `open` is the set that was
dialled and not closed, `hand[p]` what process p holds in a local variable,
`target[c]` the key c was dialled for.  `Request`, `GetMiss`, `GetPop`,
`GetFresh`, `GetStale` are `getForDC` and `get`; `RefillCheck` to `RefillExit`
the refill goroutine; `Warmup`, `RotateTick`, `RotateLocked`, `RotateClose`,
`RotateStop` the rotator; `CloseLocked`, `CloseItem`, `CloseWait` `Close`.
`Schedule` is `scheduleRefill`, part of every action whose code calls it.

**WorkerPool.**  The same for `workerPool`, with the session side
(`cfWorkerFallback`) from `Get` over the init write to its own dial and
`workers.refill` (`Restock`).  `connectWorker` is a loop of dials that may fail.

**CFProxy.**  A caller's snapshot (`todo`, `head`), its reservation (`dials`), the
dial, the init write, the release of the reservation and the promotion are
separate steps; with the connection in use its local variables are cleared; `RefreshRound` replaces the list at any time.  `known` is
`cfProxyKnownDCs`: in the behaviours in which it leaves a DC out, the active domain of
that DC can be gone from the list.

**TCPBackoff.**  `begin`, dial, init write with its `AfterFunc`, `finish`.
`closer` holds the `AfterFunc` goroutines that have started and not yet closed;
`fails` is a history variable that counts the failures in a row.

**Bridge.**  Both pumps, the caller, the watchdog, the observer, the `AfterFunc`
and the reader `newPooledWS` started.  Bytes are counted.  What the splitter
keeps back is an arbitrary number of bytes, so Bridge holds for any splitter that
loses nothing, which is what `DataPath` shows.  The order in which each closer
closes (`CloseBoth`) and `pooledWS.Close`'s wait for the first read (`"await"`) are
kept, since that is where a session could hang.  An `AfterFunc` that `stop()` came too late
for may outlive the call; it only closes ends that are closed, and `AllGone` leaves it out.

**DataPath** composes three modules of pure operators and follows the bytes of one
session.  `Splitter` is `split` and `flush` with the header arithmetic of the three
protocols; `TLSRecords` is `fakeTLSConn`: `Read` with `readTLSPayload` and its buffer,
`Write` with `wrapFakeTLSRecords`; `Ciphers` is the handshake and the four key streams.
A byte is its value and the set of key stream bytes it was combined with, so that
encrypting twice at the same position cancels out and a byte that is one position off
is never readable; a key is the pair of prekey and secret.  The layout of the
handshake is the code's with shorter fields.  The two ends (what the client and
Telegram encrypt and how they read) are external definitions that follow the obfuscated
transport, not the proxy: `EndToEnd` compares what each end reads with what the other
wrote.  `ReadHandshake` is one read of the handshake's `io.ReadFull`, `Up` and `Down` are
one round of a pump.  Segments and records arrive cut in every way, with other
records before them, or cut short.  Writes succeed here: failures are Bridge's.

**FakeTLS.**  `acceptFakeTLSClient` step by step.  A hello is a record of what
`verifyFakeTLSClientHello` computes of it (`mac`, `skew`...) and its bytes from the session
ID on; `ClientHello!Step` is one round of `parseFakeTLSClientHello`'s loops, in which a
slice expression that needs more than the slice has becomes the state `"panic"`
(`Reading`, in every state of the parser).  The field `offer` is what the
client meant, if the hello is well-formed: `Agreed` compares the answer with it, not with
what was parsed.  `Build` chooses the
answer's parameters with the record size `probeFakeTLSConn` found in the masking
host's answer.  The masking relay is the session (`WaitFirst` to `Return`), its two
copies, the `AfterFunc`s, and peers that may hang up or stop reading.

**LogRotation.**  `rotatingWriter`, one file operation per action, each of which may
fail; `Restart` is a process that dies anywhere and the `initLogger` of the next one.

**Server.**  The accept loop with its errors, the semaphore, a session as the
sequence of routes it tries, and the shutdown: `cancelled` is the signal's context
(which is also `cfg.context()`), `ctx` the one `serve` derives from it.

## 3. Runs

All runs finish within about three minutes with two workers.

| run | instance | shows |
|---|---|---|
| WSPool_safety | 1 key, PoolSize 2, 1 session, 5 connections, room for 2 refill goroutines | no connection shared or leaked (`Ownership`), one refill per key (`OneRefill`), buckets never overfull (`IdleBound`), the descriptors `fitsFDBudget` reserves suffice (`FDBound`), `Close` complete and final (`CloseComplete`, `NothingAfterClose`) |
| WSPool_routes | 1 DC with 2 IPs, one route with 2 domains | the right route (`RouteMatch`), silence during backoff (`BackoffQuiet`), both modes of every domain tried (`AllModesTried`), refinement of ConnPool |
| WSPool_liveness | 1 key, fair | `Replenished`, `StaleLeaves`, `CloseReturns` |
| WorkerPool | 1 key, 2 sessions, 3 connections, 2 goroutines, fair | `Ownership` (also after `Close`), refinement of ConnPool, `CloseReturns` |
| CFProxy | 2 domains, 1 worker domain, 1 DC that is known or not, 2 callers, 1 dial at a time, 2 attempts, fair | `Reservations`, `ActiveListed`, refinement of Permits, `Answered` |
| TCPBackoff | 2 addresses, 3 sessions, delays 2, 4, 7, fair | `OneAttempt`, `DelayTracksFailures`, `CleanHandover`, `Freed` |
| Bridge_safety | pooled, worker and TCP upstream, 2 bytes per direction | `AllGone`, `Delivered` (stream and statistics) |
| Bridge_liveness | pooled upstream, 1 byte per direction, fair | `Returns`, `IdleEnds` |
| DataPath | chains of 1 to 3 pieces per protocol, plain and Fake TLS, with and without splitter, every chunking, packets up to 12 bytes, records up to 2 bytes downwards, buffers of 5 | `EndToEnd`, `Framed` |
| FakeTLS | 32 offers, 2 of them cut anywhere and with any byte changed, strangers, 6 answers to the probe, 2 chunks from the host, fair | `InBounds`, `Agreed`, `Transparent`, `Ends` |
| LogRotation | 0 to 3 backups, 14 lines, rotation at 2, a look every 2 writes, 3 restarts, 1 failure | `Kept`, `Bounded` |
| Server | 2 connections, 1 slot, all 8 configurations, fair | `SlotsCounted`, `CleanExit`, `RoutesExhausted`, `Exits` |

Four things these runs show that are worth knowing.  `Ends` holds up to a
masking host that neither reads nor closes: the copies of the relay write without a
deadline, and such a host keeps a session's slot until the shutdown; everything else
ends with the read deadline the relay inherits from the handshake.  `Transparent`
exempts every end of the client's direction: when the client closes or half-closes, when
that deadline passes, or when the host refuses a write, the code closes both connections
and the rest of the host's answer is cut off.  What it excludes is that the session or the
down copy does so by itself.  `Bounded`
has a term for the restarts: the counter that decides when the size is looked at
starts over with the process, so one that never writes 32 lines never rotates.
`Kept` has one as well: a process that dies between two renames leaves a gap in the
numbers of the backups, and with three backups or more the next rotation overwrites the
oldest one before it gets to the gap, so that a backup's worth of lines is gone while a
place is free.  With two backups this cannot happen, and a run with two would not show it.

**Bounds and why they are enough.**  Two goroutines of a kind are enough for
a race between them, and every bound is one above or at the limit the code
enforces: two refill goroutines where one may run, one connection more than the
reserved descriptors, two callers where one may dial (any number of
either is proved, section 5), two connections for one slot, and delays whose cap is not a power of two times
their minimum.  WSPool_safety uses a bucket of two, so that a bucket can be
neither empty nor full; its retry delay has one value, since its properties do not
depend on it, and one session: all of its properties are proved for any number of
them (section 5).  `FlushBytes` equals the bytes of a direction in
Bridge_safety, so that a flush happens on the way, at the end, and not at all.  The
splitter's limit of 12 bytes lets one packet fit exactly and the next not; a buffer
of 5 bytes is smaller than a record or a packet and larger than a header.  In
FakeTLS session IDs and hybrid shares are 1 and 2 bytes long.  LogRotation writes
enough lines to fill three backups and rotate again.
Identities of closed connections are reused, so the number of connections bounds
only how many are open at once.  Symmetry is used where identities are
interchangeable and no liveness is checked.  Where a property is also proved
(section 5), it holds without any bound.

**Deadlock** is checked for both pools, which serve for ever, or until Close has
returned and sessions go on.  The other runs switch the check off because the
program really ends there: a bridge returns, a stream ends, a handshake or a relay is
over, main exits, a log reaches its bound, and after the shutdown no fallback is
begun.

## 4. Fairness

Weak fairness of a goroutine's steps stands for the Go scheduler and for the
deadline the code puts on every dial (`poolConnectTimeout`, `wsConnectTimeout`,
`tcpDialTimeout`) and init write (`wsWriteTimeout`).  Tickers tick and retry times
pass.  The rotator's `select` chooses at random among its ready cases; that it takes
`ctx.Done` at some point although the ticker is ready as well is strong fairness
of `RotateStop`.  In FakeTLS the read
deadline passes and each goroutine goes on when it can; a write to a peer that does not
read cannot.  Nothing is assumed of clients, of upstreams, of the refresh or of the
signal: a session may last for ever, and the liveness properties say what holds
nevertheless.

`Replenished` is worth a word: a get that empties the bucket after refill found
it full and before its deferred `delete(p.refilling, key)` starts no new refill, so
that the bucket stays empty without further requests.  The rotation repairs
this because it schedules every known route, and not only those it took something
from (the mutant `BadDue`).

## 5. Proofs

tlapm checks every proof to the last leaf; the constants are arbitrary apart from
the named assumptions of the modules (the sets of routes, connections, sessions
and domains may be infinite, sizes and limits any natural number).  Every
invariant the runs check is proved but the two of DataPath, and so are the action
property and the three refinements; what is left to TLC is at the end of this section.

Some of the definitions are recursive (the delay after n failures, the concatenation of
the log files).  The induction theorems of the library cannot be used here, so these
proofs go by the least counterexample (`LeastNumber`, from the well-foundedness of < on the
naturals); `Iterate` gives the function a primitive recursion defines, and
with it the recursive definition unfolds (`DoubledDef`, `LogDef`).

None of the invariants is inductive by itself.  Each module states the
strengthening it needs as a conjunction of named parts, and has one lemma per action
or group of actions that move the same state; the theorems follow from them.

**WSPoolProofs.**  `TypeOK`, `IdleBound`, `OneRefill`, `Ownership` and `CloseComplete`
rest on `IInv`, which adds

- `HandShape`: what a process holds follows from its program counter, one
  connection or none (without it a step that stores "its" connection could store
  two, or forget one);
- `Room`: a goroutine that passed the length check still finds room, because no
  other goroutine appends to its bucket.  This is why the check and the append may
  be in different critical sections, and it rests on `OneRefill`;
- `ClosedShape`, `Quiesced`: a closed pool has empty buckets, and once
  `wg.Wait` returned nothing runs;
- `WantShape`: a session inside get has a key.

`ScheduleFacts` says once what `scheduleRefill` does to marks and goroutines, `Frame`
and `CloseHeld` what follows for the connection invariants if a step moves no
connection or closes what one process holds.  On top of `IInv`:

- `BackoffQuiet` and the action property `NothingAfterClose` follow step by step;
- `AllModesTried` needs `Rounds`: after n attempts a goroutine has tried exactly the
  first n div 2 domains in both modes and, if n is odd, the next one in the mode it
  read at its start, however often others changed the mode since;
- `RouteMatch` needs `RouteShape`: a connection keeps the key it was dialled for in
  the dialler's hands and in its bucket;
- `FDBound` needs `Budget`: a bucket together with what Close still has to close, and
  what the rotator took out, are each at most PoolSize, and a refill under way was let in
  when there was room.  That is twice PoolSize, the half of `fitsFDBudget`'s reserve for
  an IP that one of its two buckets may use;
- the refinement of ConnPool: `Visible` and `Flows` say which steps a client of the pool
  can see, and each of them is a step of the contract.

**WorkerPoolProofs** proves `Ownership` and the refinement of ConnPool along the same
lines.  The pool has no length check; `Marked` takes the place of `Room`: a goroutine
that may still assign `p.idle[key]` has the key's mark, alone, and the place is free.

**CFProxyProofs** proves `Reservations`, `ActiveListed` and the refinement of Permits.
`Flights` says that a caller in flight has a key of its own kind and that the callers of a
key can be counted; `OneMore` and `OneLess` are what `beginFallbackDial` and
`finishFallbackDial` do to that count.

**TCPBackoffProofs** proves `OneAttempt`, `Quiet`, `CleanHandover`, `NoLeak` and
`DelayTracksFailures`.  For the last one `DelayStep` says that one more failure doubles what n
failures call for, up to `BackoffMax`; `SaturationAssumption` says that the history counter
`fails` is large enough to get there, which the model needs and the code does not
(it keeps no counter).  For the others the strengthening is `Handover`: an `AfterFunc` goroutine exists only after a
cancellation that found the write under way, so an attempt that read
`ctx.Err() == nil` after `stop()` has none.

**BridgeProofs** proves `AllGone` and `Delivered`.  `Balance` keeps the books of a pump:
what it read is in the statistics or pending, and was written, is in hand or held back by
the splitter.  `Counting` relates the done channel to the pumps: messages there and
messages taken are the pumps that have ended, so the caller that has taken two is
alone.  `Ending` follows each closer through its list and the first read of a
pooled connection.

**ServerProofs** proves `SlotsCounted`, `CleanExit` and `RoutesExhausted`, with `Owned`
(whose a client connection is), `Progress` (what each step of the shutdown has
left behind) and `RouteSteps` (the routes that failed and those still planned are the
configured ones, none of them twice).

**FakeTLSProofs** proves `InBounds`, `Agreed` and `Transparent`.  `Fits` is what each state of the
parser relies on: the bytes it reads without a look of its own were counted by the state
before; it holds for hellos of any length and content.  For `Agreed`, `Encodes` says
what it means that bytes encode an offer, without the parser: the layout of a
ClientHello, with the offsets of the extensions and shares.  `OfferAssumption`: a hello that
comes with an offer encodes it (of other hellos only `InBounds` and the size of the answer are
claimed).  `Reads` says where the parser is in these bytes and what it has noted: at extension
i or share i, having seen exactly those before.  It has one lemma per state of the
parser, and holds for any number of suites, extensions and shares.  `HInv` carries it to
`Build`, where the first hybrid share (`Noted`) and the first preferred suite are
what decides.  For the relay, `Endings` says
that whatever ends first (a copy, the session, either connection), an undisturbed relay
has delivered the whole answer by then.  It needs that a message in the done channel
comes from a copy that is gone, and that an `AfterFunc` starts with the shutdown only.

**LogRotationProofs** proves `Bounded`, from `Growth`, which relates the size to the writes
since the last look in each step of a rotation, and `Renames`, the order of the renames:
the log file itself comes last.  `OInv` says of the files what `Kept` says of their
concatenation: in order always, and without a gap unless an operation failed, since a rename
overwrites the last backup or nothing (`Targets`).  `LogHolds` and `LogIsTail` carry this over to
the concatenation.  For how much is kept, `Stocked` says that a backup is full or does not
exist, and `FewHoles` counts the missing ones: `Holes` are numbers without a backup below one
that exists, and but for the one a rotation is just moving, every one of them is what a
restart has left.

**Only model-checked**

- Liveness: `Replenished`, `StaleLeaves`, `CloseReturns`, `Freed`, `Answered`, `Returns`,
  `IdleEnds`, `Ends`, `Exits`.  Fairness and ENABLED are outside this prover.
- `EndToEnd` and `Framed`: what `split`, `wrapFakeTLSRecords` and the key streams make of a
  whole stream.  Each of the three is recursive over the data, and the property is about
  their composition in both directions; the lengths in packet headers are a fold with an
  operator argument (`LE`), which none of the provers unfolds.

## 6. Not modelled

- AES, SHA-256 and HMAC: symbolic (Ciphers, ClientHello).  The bytes of the
  ServerHello, of the probe's own ClientHello and of the links that are printed.
- Dialers, TLS settings, error classification: a dial succeeds or fails.
- The text of the domain list (decoding, validation): a refresh delivers any list
  of at least `defaultCFProxyRefreshMinValidDomains` domains, or nothing.
- Configuration: sequential start-up code that turns text into what is a CONSTANT
  here.  Statistics output, the domain censor of the log and packaging: text.
- pprof: in Server, one of the background goroutines.
- Three staleness effects the code accepts, without a property of their own: `get` reads
  the clock once for all connections it pops, so one may expire while another is being
  closed (the bridge copes with a dead connection, `Returns`); a dial that fails after a
  refresh leaves a cooldown for a domain that is gone until the next refresh; the active
  domain of a DC outside `cfProxyKnownDCs` may be gone from the list (it is then not put
  first, and all others are tried: `ActiveFor` in CFProxy).
- The slice a bucket is: buckets are sets, so that `rotate` filters one in place is only seen
  in which connections it keeps.  Ciphers over several routes: Server has none, and DataPath
  follows a session with one route.
- The sum in `fitsFDBudget`: only the share of one IP is checked.

## 7. Plan

1. (done) WSPool with ConnPool; TCPBackoff; CFProxy with Permits; WorkerPool; Bridge;
   Server; the first proofs.
2. (done) The byte path as a composition (DataPath); Fake TLS with parser, answer and
   masking relay; log rotation with failures and crashes.
3. (done) Proofs of every component: all invariants but the two of DataPath, the
   action property, the three refinements.
4. Open: lemmas about one round of the splitter and of `fakeTLSConn.Read` (no byte lost
   between what is buffered and what is returned), which a proof of `EndToEnd` would rest on.
