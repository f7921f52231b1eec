# Verification of hood

hood is a firewall box built from a TLS proxy in C++ (`src/proxy`) and a set of
Python and shell services (`src/scripts`).  This directory holds TLA+ models of
its concurrent parts, the TLC runs that check them and the theorems TLAPS proves
about them.  `PROJECT.json` lists runs, mutants, hazards and the source lines
every definition stands for.

Contents: 1 the system, 2 hazards, 3 plan, 4 modules, 5 runs and bounds,
6 fairness, 7 proofs, 8 disagreements with the documentation, 9 not modelled.

## 1. The system

A client's TCP connection to an allowed port is redirected by nftables to
`hood-tls-proxy`.  The proxy reads TLS records from the client, checks the
ClientHello against its policy, asks the certificate check for trusted endpoints
of the host named there (which asks `hood-name-service.py` over UDP, and makes
handshakes with the addresses it gets), connects to one of them and relays
records in both directions, looking at each until its sender starts to encrypt.

| component | state it keeps | operations | what is hard |
|---|---|---|---|
| certificate check (`tls_check_certificate.cpp`) | `cached_results_`: per host name trusted endpoints and their time; `pending_handlers_`: per name who waits | `CheckCertificateOf`, `DoResolve` and its callback, `WorkerResultHandler` | requests that arrive while a check is under way; two maps kept by different functions; a fallback name; a bounded cache with expiry |
| certificate check worker (`tls_check_certificate_worker.*`) | endpoints, `callback_countdown_` | `Start`, `CheckEndpoint`, `CallHandler` | all endpoints are checked at once and end in any order; the last one must say so |
| name service client (`name_service_client.cpp`) | buffer, timer, socket, `attempts_` | `Start`, `Attempt` and the handlers in it | timer against answer, retries, cancellation that comes too late |
| message reader (`message_reader.hpp`) | growing buffer, offset, size, size of the record awaited, `status_` | `Start`, `Stop`, `DoReadStream`, `DoReadUdp` (no caller) | arithmetic on unsigned sizes; the loop calls a handler that may call `Stop` |
| context (`tls_context.*`) | `paired_`, write queue, `writing_`, socket, reader, two encryption flags; `host_name_` | `Start`, `Stop`, `Queue`, `DoWrite`, `HandleUserMessage`, `HandleServerMessage`, `DoConnectHost`, destructor | two contexts that hold each other, stopped from handlers, loops and destructors; records that arrive before there is a server |
| server (`server.cpp`) | acceptor, number of contexts | `DoAcceptTls` | the accept handler blocks in nested `run_one` at 10000 contexts |
| policy, decoder, encoder (`tls_security_policy`, `tls_message_decoder`, `tls_message_encoder`) | none | pure functions over bytes | cursor arithmetic over nested lengths; which versions and suites pass |
| network filter (`network.*`) | blocked subnets | `RemoveV6AndBlockedEndpoints`, `IsBlockedAddress` | the subnet test |
| configuration, engine, logging, main | options, the `io_context` | start-up | one thread runs everything: a handler is atomic |
| name service (`hood-name-service.py`, `hood-resolve.py`) | clients with a `busy` flag, a cache of answers, the address of the last query | UDP server, `DnsOverHttpsClient.resolve`, `HoodResolve` | asyncio tasks that share `self.addr` and `busy` across `await`; retry against a late answer |
| http handler, expose (`hood-http-handler.py`, `hood-expose.py`) | two streams per connection | request head, a forwarder per direction | one direction ends or fails while the other has data |
| actor (`hood-actor.py`) | threads, task queues, one event, delayed tasks, the actors' task graph | `HoodExecutor`, `play_in_action` | lost wake-ups, a worker that dies, countdowns |
| dispatcher (`02-hood-dispatcher`, nftables files, udev rule) | files with the handles of rules, marks per interface, an address counter | interface up, down, pre-up | an event is handled when the port behind its name may be another; a run is killed while it waits, or repeated; files and the kernel's rules must agree |
| time synchronisation (`hood-timesync.py`) | the clock, an anchor file | three attempts in a fixed order | an attempt fails half way |
| network configuration (`hood-netconfig.py`), runner, install scripts, prototype | - | process start, copying | - |

Interactions: server creates contexts; a context calls the certificate check and
is called back through a handler that holds it; the certificate check calls the
name service client and creates workers; the name service client speaks UDP with
`hood-name-service.py`; everything in the proxy shares one `io_context`.  The
scripts meet the proxy through nftables, the name service's port and files.

What makes each component correct, and where it is stated:

* certificate check: every handler is called once, with endpoints that were
  found good recently under that very name (`HostTrust`, `FreshTrust`,
  `WaitersArePending`, `AnsweredAtMostOnce`, `EveryRequestAnswered`); the cache
  is bounded; the two maps never hold the same name.
* worker: one report per endpoint, "finished" with the last (`CountdownExact`); what
  is handed out came in one answer with a peer that passed the handshake for that
  host (`VouchedByPeer`).
* name service client: at least one call-back, at most four, then silence
  (`LookupContract`); no wait without a deadline.
* message reader: no access outside the buffer; records whole, in order, all of
  them (`BufferInBounds`, `BufferHoldsStream`, `RecordsWhole`,
  `EveryRecordDelivered`); no wait for bytes the peer has no reason to send.
* context: what a peer is sent is what the other has sent, in order, without a
  gap, never what was refused (`RelayedInOrder`, `NothingRefusedIsSent`); a
  server is sent nothing behind a hello for another host (`MismatchIsLast`); a
  stopped connection releases everything (`StopReleasesAll`).
* decoder: an accepted record was decoded from its own bytes, decoding inverts
  encoding, no length keeps a loop where it is (`AcceptedWithinRecord`,
  `RoundTrip`, `Consumes`).
* name service: no request reads another's answer from a connection, every
  lookup ends, no blacklisted address is connected to (`ReadsOwnAnswer`,
  `EveryLookupEnds`, `NeverToBlocked`).
* http handler and expose: connections are closed only when one stream was passed
  on whole (`ClosedAfterWholeStream`).
* actor: every node of a plan runs once and after what it waits for
  (`TaskGraph`); no wake-up is lost (`QueueHasWorker`); a plan ends
  (`EveryPlanEnds`).
* dispatcher: rules and handle files agree (`RulesOnFile`), networks are distinct
  (`NetworksApart`), "down" leaves nothing behind (`DownClears`).

## 2. Hazards

`PROJECT.json` lists them with the line where each bites and the properties that
would catch it.  The heaviest: requests that overlap with a running check;
call-backs that come after the answer (a lookup's retry); a check that goes on
under another name; the reader's loop that goes on after `Stop`; the pair of
contexts as a cycle of owners; buffer arithmetic; writes queued before there is
a socket.

## 3. Plan

Done, in the order of importance: the proxy's path from the accepted connection to
the relayed record (`HostTrust`, `CertificateCheck`, `NameServiceClient`,
`LookupContract`, `MessageReader`, `TlsContext`); what the proxy looks at
(`TlsDefinition`, `TlsEncoder`, `TlsPolicy`, `TlsDecoder`); the executor of the
actor (`TaskGraph`, `HoodExecutor`); the name service and who asks it
(`HoodNameService`, `HttpHandler`); the dispatcher (`Dispatcher`).

Left, in this order:

1. Nested runs: `LimitTaskQueueSize` and the admission limit of `Start`, which
   run other handlers from inside one (`tls_context.cpp:268`,
   `tls_context.hpp:39`).  They need a context model in which a handler is not
   atomic.
2. The subnet test of `network.cpp` and of `hood-name-service.py`; the reading
   of `configuration.hpp`.

Every safety property that a passing run checks is also proved (section 7).

## 4. Modules

**`HostTrust`** is the abstract promise of `CheckCertificateOf`: handlers are
called with endpoints that have been vouched for under the name asked for, or
with none; all waiters of a name are served together.

**`CertificateCheck`** implements it.  The two maps are total functions
(`trusted`, `created`; `pending`), a name being absent when its value is empty:
an entry is only ever created together with its first endpoint.  `AskCached`,
`AskPending`, `AskResolve`, `AskTooLong` are the four ways through
`CheckCertificateOf` after the stale entry is dropped; `ResolveCallback` is the
lambda in `DoResolve`, `ResolveFallsBack` its call of itself with the fallback
name; `WorkerResult*` are the branches of `WorkerResultHandler`.  A worker is a
record with a phase per endpoint.  `Connected(w, e, c)` has a peer `c` that may
differ from `e`: `async_connect` is given the whole list.  OpenSSL is the choice
between `HandshakeGood` and `HandshakeFailed`.  `goodAt`, `resolved` (the lists a
host's lookups gave to workers), `verified` (the peers that passed the handshake
under a name) and `redirected` are histories.  `VouchedByPeer` relates `answers` to
two of them: the code reports an endpoint whose connection may have gone to another
of the list, so that this is the most it promises of an endpoint.  A lookup may call back repeatedly, which
`NameServiceClient` shows it does.

**`NameServiceClient`** has `ready`, the queue of completions of this client:
asio runs them in order, a cancelled operation that is already queued stays
queued with its result, and the reactor appends sockets before timers.  That is
how a retry can happen after the answer.  **`LookupContract`** is what
`CertificateCheck` relies on, and `ImplementsLookupContract` relates the two.

**`MessageReader`** is `DoReadStream`.  A byte is its position in the stream, so
the buffer's contents say where each came from, and a stream is given by the
positions behind its records.  `MoveToFront`, `Enlarge` and
`Fits` are the three ways to make room, `Deliver` and `NeedMore` the iterations
of the loop, `ReadDone(n)` an `async_read` with `transfer_at_least`, which may
bring anything up to the free space.

**`TlsContext`** is one client connection: context 0 is the client's, 1 and up
are the server contexts created for it (a loop that goes on after `Stop` creates
another).  `Stop`, `Queue`, `DoWrite`, `Pair`, `Start` are functions from the
contexts before to those after, so that a handler composes them as the code
calls them.  The reader is reduced to whole records: `ReadDone` brings some, and
nothing else runs until the loop has handed them over (`Busy`).  Records are
positions in their sender's script.  `Release` is the destructor: when nobody
holds the client context any more it is stopped.  A dereferenced null `paired_`
sets `crashed`, after which nothing happens.  Operations of asio end in any
order, as completions that were collected together may.  A second `Start` of a
context whose reader still runs keeps that reader on its old stream (`stray`).

**`TlsDefinition`** holds the messages and the sizes of the packed structures,
**`TlsEncoder`** the encoder as operators from messages to bytes, **`TlsPolicy`**
the suites, the versions and the verdicts of both handlers on a decoded record.
**`TlsDecoder`** reads a buffer byte by byte position: every function of
`tls_message_decoder.cpp` is a few actions, one per piece that is read.  The
functions' local offsets become `from`, `mend`, `offset` and `eend`; `reach` is a
history of the farthest byte read, and `beyond` is what a read behind the
record finds, since the code does read there (`DecodeHandshake` a header,
`DecodeSuite`, `DecodeServerName`) before a later check refuses the record.
`limit` is the record's end, which all inner functions use, also for a message
that ends earlier.  Actions keep three early returns that look unintended: an
empty server_name ends the whole section, a vector that does not fill its
extension ends it with the vector's result, which is good, and the loop goes on
at the message's end although its hello may have been read beyond it.
**`TlsCodec`** puts encoder and decoder together: `Sent` are the messages that are
encoded, any that the C++ types can hold (`IsMessage`, `IsHello`, `IsExtension`) and
`Encodable` lets through, and `RoundTrip` says what decoding makes of them.
`MCTlsDecoder` makes the records with the encoder and damages them.  The encoder
is in no build and would not compile (`Message` has no alternative
`handshake::Message`); `Encodable` collects what `SAFE_SET_INT` refuses and stops at
the 2048 bytes that `Encode` reserves, behind which its header pointers dangle.

**`TaskGraph`** is what `play_in_action` asks for: each node of a graph is begun
once, after all it waits for, and the caller goes on after the last.
**`HoodExecutor`** implements it.  A step is what a thread does between two
accesses to shared state; a block under a lock is one step.  `Start`, `End`,
`Action`, `Done` are the nodes `play_in_action` builds; `InitialWaiting` counts
`waiting` as the code does, apart from the lists of dependants, so that the
refinement compares the two.  `pc` names the line a worker is at; `threading.Event`
wakes those who wait when it is set, even if another thread clears it before
they run (`Woken`).  A task's `delay` puts it in `delayed`, `Elapse` is the passing
of its time, `already` is `already_delayed_tasks`.  `__del__` ends in a NameError
after it has woken everybody (`pool` is no name there), so that `os._exit` is not
reached; a worker that has passed its test of `deleted` may then clear the event
others wait for, and an action file without tasks makes `play_in_action` wait for
ever.

**`HoodNameService`** is `hood-name-service.py` in both roles.  A coroutine runs
alone between two awaits; a datagram is known by the socket `<<c, k>>` it came
from.  `UseClient` is the search for a client and the setting of `busy`, between
which nothing suspends when the connection is free; `HeadGood`, `HeadRefused`,
`NothingFound`, `AddressesFound`, `AliasFound`, `RequestFails`, `ServerCloses` are
the ways a request goes.  `unread` says whose answer is still on a connection.
An address is a model value; the order of addresses and the cache's clock are
left out (an entry may be found expired at any time).

**`HttpHandler`** composes it with the connections of `hood-http-handler.py` and,
for callers in `Exposed`, of `hood-expose.py`, a process with a loop of its own.
Phases follow `handle_connection`; `Forward`, `Drained`, `EndOfStream`, `DrainFails`,
`ReadFails` are one forwarder, for each side.  A stream is a number of chunks.

**`Dispatcher`** is the script together with NetworkManager, which runs it for one
event after the other, and with whoever pulls plugs.  `todo` is what the running
script has still to do: `Plan` gives the functions that a branch calls, each of
which is one step (`Add`, `AddProxy`, `Revoke`, `WaitOver`), so that a device may be
gone in the middle; a script that waits may be `Killed`.  `Role` is
`is_wan_port`, asked when the script runs and not when the event happened.  It has
two ways, and `wan_port_path`, chosen at the start, says which: where the path of the
WAN port is known (given, or a Raspberry Pi 2 or 4) the device behind the name
decides, and its mark when there is none; where it stays "auto-built-in-eth"
(`Guessing`) a name in `BuiltIn` (eth0, eno1) is the WAN port, and so is any name as
long as there is one interface only.  `ports` and `roles` are histories of what was
behind a name and of what `is_wan_port` said of it.
`Tether` starts the script again for every gadget, from within another.  The
rules of one call are one group with one handle.  NetworkManager's side
(`Connect`, `Prepared`, `Disconnect`, `StartScript`) is external: it waits for
pre-up, does not for up and down, and does not manage gadgets
(`system-connections/usb0.nmconnection`, autoconnect=false).  Another port
appears under a name only between scripts or while one waits.

The `MC...` modules give the constants that a `.cfg` cannot write.

## 5. Runs and bounds

Every property has a mutant in `PROJECT.json`: a change of the model that a
plausible bug would make and that the run then catches.

| run | question | bounds |
|---|---|---|
| `check_promise` | does the check keep `HostTrust`, lose no handler, stay within its cache? | two requests, two names with their fallbacks, one of them too long; two addresses of which one is refused; cache limit 0, so that one entry more than the limit and an eviction both happen; two ticks with a lifespan of 1, so that an entry is fresh, of exactly the lifespan, and expired; two call-backs of a lookup |
| `check_workers` | do workers with two endpoints count right, is what they report vouched for, does everybody get an answer? | two requests, two names, so that a handshake for one host could be taken for the other's; two good addresses, so that the peer may not be the endpoint that is reported; lifespan 1 and two ticks, so that a second worker starts while the first has not finished; fair |
| `lookup` | does a lookup keep its contract? | the code's own limit of three attempts; one name that is refused; datagram and timer alone, together, or never |
| `reader` | is the buffer safe, are all records delivered? | every stream of three records of 2, 3, 5 or 8 bytes with a two-byte header, every cut into reads; 7 is the largest size the type holds, and a record of 2 bytes is shorter than `LongRecords` asks for |
| `context` | what is relayed while everything may fail? is a stopped connection released, an undisturbed one relayed? | every client stream of up to three records of six kinds (the first hello is for `a`, since hosts differ in name only) against three server streams, where any operation may fail; the same and two handshakes of four records from a client that sends a second hello only after it was answered, with and without failures; one server context per record is the most the code can create; fair |
| `decoder` | does decoding stay in the record, invert encoding, and move on? | eight messages with every extension the code knows, pairs of them in a record, other records; every byte but the lengths of the record replaced by 0, 1, 2, 3, 10, 43 or 255; every cut, two wrapped sizes; three bytes beyond; random shortened to two bytes |
| `executor` | are wake-ups, delays and countdowns right, does a plan end? | two workers and four plans: two delayed actions with resources beside an empty task, two tasks side by side, two in sequence written down on both sides, one that raises |
| `http` | do lookups end, answers stay apart, streams stay whole? | one connection of the http handler with the code's three attempts, one of expose with two; two servers, a cache of one entry; a name with a blacklisted and a good address, an alias, a blocked and a malformed name |
| `dispatcher` | do files and rules agree, are networks distinct, does "down" clear? | two names that either port may have and one gadget; the path of the WAN port known, or guessed with eth0 built in and eth1 not, so that the role of eth1 and of the gadget depends on the number of interfaces; five plugs or connections: enough for a name to change its port, for a gadget to be prepared twice and, with two subnets, for the counter to come round |

Two requests are enough for the certificate check because handlers for one name
are only appended and called together: the second request takes the part of
"others". Three records are enough for a context to be stopped, re-paired and
fed again; a fourth is added for a hello for another host behind a
change_cipher_spec, which is encrypted and not looked at. `CHECK_DEADLOCK FALSE`
is said everywhere because all these systems may stop: no more requests,
connection over.

Bounds that are no part of the code: `MaxTime`, `MaxCallbacks`, `MaxServers`,
`MaxMoves` (plugs and connections; `Subnets` is 254 in the code),
the lengths of scripts (at most 8 records, so that `LimitTaskQueueSize` finds
nothing to do); `Attempts` of the caller of expose, which is 3 in the code, and
`Unreachable`: the address that only the forwarders of expose could reach accepts
no connection, so that streams are explored for one connection; `Chunks`.
`CacheLimit` is 512 in the code: with one entry, a name that is cached and one
that is not cached any more both happen.  Two callers are enough for a reply to
go to whoever asked last, and two servers for all of them to be lost.

Preconditions that are part of a property: `ReadsWithinRecord` and
`EveryRecordDelivered` need records of at least twice the header less one
(`LongRecords`): with shorter ones `read_size`, which is a whole header even if
part of it is in the buffer, asks for bytes of the record after the next, and
the reader waits for what the peer may send only after an answer. With TLS's
header of 5 bytes the limit is 9: a change_cipher_spec (6 bytes) is shorter, but
more of the same sender follows it; a plain alert (7 bytes) is shorter too, and
one that arrives with its header cut is not handed over before more comes.
`MismatchIsLast` speaks of hellos that are looked at, those that no
change_cipher_spec comes before, and needs a client that waits for the server
before its second hello (`polite`): without it a hello for another host that is
read together with the first is queued behind it, and may be written (section
8). `EveryRecordRelayed` speaks of `WellBehaved` scripts on a network without
failures.

## 6. Fairness

The proxy has one thread in `io_context::run`, which runs whatever is ready:
weak fairness of the loop over buffered records (`Loop`), of acceptance and of
ready completions.  That operations become ready is not the proxy's doing:

* `LookupFairness` rests on `LookupContract`, which `lookup` checks under
  fairness of handlers and of the reactor only: the name service need not answer,
  the timer does it.
* `PeerFairness` (connects and handshakes end) is an assumption about the network:
  the code sets no timer there.  Without it a silent peer keeps a request for ever.
* `TlsContext` assumes only that as long as something can happen something does
  (weak fairness of `Next`): what was sent arrives, and who has nothing left to send
  closes.  A peer is not made to send what it has no reason to send (`Sends`).  This
  starves no part of a connection, which does finitely many steps.
* `EveryPlanEnds` rests on weak fairness of every thread, which the operating
  system gives, on the passing of time and on actions that return; the 600
  second timeout of the scheduler is not needed.
* `EveryLookupEnds` rests on the caller's timers only.  Nothing is assumed of the
  network, of the servers or of the name service, which may be stuck.
* A liveness property is never claimed of `Spec` alone.

## 7. Proofs

`CertificateCheckProofs` proves, for every set of requests, names, ports and
addresses (names and endpoints finite) and every bound, under the assumptions
named in `CertificateCheck`:

* `TypeCorrect`: `Spec => []TypeOK`.
* `CacheAndPendingAreDisjoint`, `NoHandlerIsLost`, `HandlersAreCalledOnce`:
  `PendingExcludesCache`, `WaitersArePending`, `AnsweredAtMostOnce`.

The last three come from one inductive invariant, `CoreInv`: their conjunction
with `NothingBeforeAsked` (a request that has not been made has no answer).  No
conjunct is inductive alone.  That a handler is called once needs that the list
of a name holds only those without an answer; that the list is exact needs, when
a request is answered from the cache at once, that nobody is in the list then,
which is the disjointness of the two maps; and a request that is being made must
not have an answer yet.  One lemma per operation (`DeliverCore`, `GoodCore`,
`FinishedCore`, `AskCore`, `ResolveCore`, `CheckCore`) carries it, on top of
lemmas that say what each helper does to the functions it updates
(`AnswerEffect`, `DeliverEffect`, `RememberEffect`, `ForgetEffect`,
`CalledEffect`).

Its second part sorts every step into four kinds (`StepKinds`: a
request, a failure, a good result, none of these) and adds `TrustInv`: a trusted
endpoint was reported good under its name, and one of them at the entry's
creation time.  With `CoreInv` this gives

* `KeepsHostTrust`: `Spec => ImplementsHostTrust`.  A request maps to `Ask`, a
  good result to `Vouch`, a failure to `GiveUp`, all else to a stutter.  That a
  failure gives *nothing* although the code passes the cached endpoints needs
  the disjointness of the two maps: who still waits has no cache entry.
* `OnlyFreshIsGiven`: `FreshTrust`, for every lifespan.

Its third part says where a worker can come from (`WorkerKinds`) and
proves `CountdownIsExact`, `NoRefusedAddress` (by
`FilterInv`: what is checked, cached or handed out has passed the filter) and
`CacheStaysBounded` (dropping something makes room for one more).

* `NothingUnvouchedIsGiven`: `VouchedByPeer`.  `BackInv` says of every worker that its
  endpoints are one of the lists that a lookup of its name brought, and that it is
  in the handshake with one of these only; and that what is cached or was
  handed out is `Backed`, in such a list with a verified peer.  A good result
  is backed by the peer its check had, whichever endpoint it is reported for.
  That answers stay backed needs that both histories grow and that the host of a
  request that was answered stays the same; that they are backed under the right
  name, through the fallback too, needs `WaitersArePending`.

* `NobodyWaitsForNothing`: `PendingHasRunner`, which is inductive by itself given
  the types.  Each step that takes a lookup or a worker away is followed to where
  it serves the list of that name, starts a worker for it, or redirects it to the
  fallback name; the redirected are the exception the property names.

`NameServiceClientProofs` proves, for every set of names and every limit of
attempts, `WaitsHaveDeadlines` (`WaitHasDeadline`), `QueriesAreNames`
(`QuerySpoiltByAnswerOnly`) and `KeepsLookupContract`: initial states and steps
map to those of `LookupContract`, the safety half of the refinement; the other half
is fairness.  `StageInv` lists what the completions that are ready, the socket and
the timer are together: nothing under way (`Quiet`), a query being sent, alone or
behind the aborted receive of the attempt before (`Sending`, `SendingBehind`), given
up (`GivenUp`), waiting (`Waits`), something arrived with or without the timer
(`Heard`), the timer over (`Expiring`).  Each stage carries the budget of calls that
are left: an attempt calls the handler once at most, and only while it may still do
so may the next begin (`EarlyCalls`, `LateCalls`, `BehindCalls`).  Without the
budgets the bound of the contract (`MaxAttempts + 1` calls) is not inductive, since
a retry follows from the timer and a call from the datagram.

`TlsContextProofs` proves all six safety invariants of the context for all hosts
and all sets of streams within the bound of section 5 (`ContextAssumption`: at most
eight records and a server context for each): `TypesHold`, `PairsAreMutual`
(`PairedMutually`), `CrashNeedsStop` (`CrashOnlyAfterStop`), `RelaysInOrder`
(`RelayedInOrder`), `SendsNothingRefused` (`NothingRefusedIsSent`), `MismatchEndsIt`
(`MismatchIsLast`).  A handler calls several methods one after the other, `Queue`
and then `Stop` or `WriteDone` and then the destructor, and the properties do not
hold between them of the variables, which change only at the end.  So the invariant
`Sound` is stated of any contexts `cx`; each method (`Pair`, `Queue`, `Stop`,
`Start`, `DoWrite`, `Release`) has lemmas of its own, and the proof of a handler
chains them.  Its parts, and why none can be left out:

* `Born`: what has not been created or started is blank.
* `Links`: a server context holds the client only if the client holds it, and one
  that is held but does not hold back has been given nothing to send.  The orphans
  that a `Stop` leaves are what this is about.
* `ToServer`: sent, in flight and queued for a server are, each behind the other, a
  stretch of the client's stream without a gap; `Complete` up to what was
  handled as long as the pair holds.  A socket that was closed under a write keeps
  `writing_` set for ever (`Jammed`) and its queue may then grow in any way,
  because none of it is sent.  Records without content (`Skipped`) are not
  queued, so a gap is allowed to hold those only.
* `ToClient`: what the client is sent is the server's stream from its beginning.
* `Open`: until `Stop` there is one server context at most, and it is paired both
  ways or nobody has asked for its host.  `RelayedInOrder` is this, `ToServer`
  and `Echo` together; `CrashOnlyAfterStop` follows because the code dereferences
  `paired_` only for a pair that `Open` says is there.
* `Encrypts`: `encrypted` is set by a change_cipher_spec only, so that what is not
  looked at is what the peer has encrypted.

For `MismatchIsLast` a second invariant, `PoliteInv`, stands on the first.  `Spaced`:
a polite client's second hello comes after something was sent to it.  `Asked`: there
is one lookup or connect at a time, for the host of the first hello.  `Civil`:
all that a server context sends is addressed to the host that was checked; a hello for
another host is the last of what it sends; and a context that has such a hello is
neither open nor held by the client any more (`Dead`), so nothing is queued behind
it.  While a handler runs one context may be about to be stopped, which is the
last argument of `Civil`.

`MessageReaderProofs` proves every safety invariant of the reader for every
header size, every length type and every set of streams (`ReaderAssumption`: the
positions behind the records increase, by at least a header and at most a header
and the largest length): `TypeCorrect`, `BufferNeverOverrun`, `NoByteIsLost`,
`RecordsAreWhole`, `ReadsStayInRecord`.  The inductive invariant `ReaderInv` is
the conjunction of these properties with `InStep`, the order of what was sent,
arrived and received, and `MessageIsNext`: `tcp_message_size_` is zero or the
size of the record that is incomplete.  The argument goes round: because the
buffer holds the stream and the loop stands at a record's first byte, the header
it looks at is a record's (`KnownIsNext`, with `HeaderTellsSize` for the stream);
hence the size it waits for is right, hence a record is handed over whole and
the loop stands at the next one; and because a read asks for the size less what
is there, which is positive, `RoomMade` gives it its room.  A stream is given by
the positions behind its records, not by their sizes, so that no sum over a
sequence has to be reasoned about.

`TlsDecoderProofs` proves, for every buffer and whatever lies behind it,
`AcceptedRecordsAreRead` and `DecodingConsumes`.  The invariant `IInv` is `Types`,
`Within` (what has been read ends in the record, except between a server's suite
and the check of the extensions behind it, which refuses what lies beyond) and
`Tiled` (messages lie one behind the other, and the one that is read ends in the
record, as does its extension section).  A read that nothing guards does not
break `Within` otherwise, because the step that makes it refuses the record.

`DecodingInvertsEncoding` is `RoundTrip`, for every set `Sent` of messages as
`SentAssumption` has them: of either hello, of any other type, with any vectors
and extensions.  `RoundInv` says of each message that the record encodes that
decoding goes `Along` it: it stands at the place of the part that it reads next, has
found the parts before with their values, and has refused nothing.  The
place of every part is the sum of the lengths before it (`HelloPlaces`); of
an extension it is where `FlattenSeq` puts it (`Positions`, `ExtensionPlaces`).  At
each place `Has` says which bytes are there: `RecordParts` and `HasParts` take the
encoded record apart, `BytesVector` and `WordsVector` read a vector back,
`ExtensionDecoded` one extension of any kind.  What `SAFE_SET_INT` refuses is
needed throughout, because a length that does not fit its bytes is read back as
another; so is an empty supported_versions, which the decoder would refuse.
The proof takes `RandomSize` to be what `RetryHead` and `RetryTail` are long together.

`HoodExecutorProofs` proves `NoWakeUpIsLost` for any number of workers.
`QueueHasWorker` is inductive by itself once every worker is somewhere: who clears
the event is about to look at the queue, who queues is about to set it, and a
worker gives up only after it has found the queue empty.

Its second part is `RunsTheGraph`, the refinement of `TaskGraph`, for every set of
plans and any number of workers.  `ExecutorAssumption` is what the source of a plan
gives: its tasks are the keys of a dictionary, so none is there twice, and a name
in `before` or `after` that is no task ends in a KeyError before anything is
queued.  Names may be repeated in these lists, and a task may wait for itself.
The proof has two halves.

* The plan.  `InitialWaiting` counts what a node waits for and `Dependants` lists who
  waits for it, built apart from each other in the code.  `LinkCount` shows that they
  agree for every plan: the number that is set is the number of places in the
  lists of dependants where the node stands (`Links`).  The lists come from
  `FlattenSeq` and `Kept`, of which `FlattenIs` and `KeptIs` say which element stands
  where.  `AllBeforeDone`: a set of nodes that has with each what it waits for, and has
  `Done`, has them all, so that the caller goes on after the last.
* The run.  `Counts` is the heart of the invariant `GraphInv`: a node's countdown is the
  number of its links from nodes that have not been counted.  One that has ended is not
  counted yet while its worker is between the end and the countdown
  (`Counting`).  For a node to be begun once, `Stages` has each that is queued,
  delayed or in a worker's hands at zero and not begun, and `NoneTwice` and `Apart` that
  it is in one place only.  Two workers may count the same node down; only the one
  that reaches zero queues it (`LastIs`), and the count is down by as many as the
  links it has (`CountdownKeeps`).  `Quiet` is the time before the plan is queued,
  `BatchQueued` the scheduler between its two locks, `Ends` the event of the caller.

`HttpHandlerProofs` proves three invariants for any callers, servers, zone and
heads.  `AnswersAreNotMixedUp`: a client that failed stays busy, hence is never
given out again, and a query is with one client at most; the second needs that
only a query that is being asked or answered has a client.  `BlockedStaysBlocked`:
`CleanInv` follows addresses through the cache, replies, results and targets;
every way into the cache or a reply goes through the filter, so that a
misdirected reply is clean too.  `StreamsAreNotCut`: `StreamInv` says that as long
as nothing is closed a forwarder that reads has passed on all it has taken, and
one that drains has too unless the other side is broken, in which case it never
comes to read again; hence who finds the end of its stream has passed on
all of it.

`DispatcherProofs` proves, for every set of interfaces and gadgets and every number
of subnets, `FilesNameTheRules` and `NetworksStayApart`.  `RuleInv` adds to
`RulesOnFile` that a handle is given once, without which a revoke could delete a
rule of another file.  `CounterTells` says that as long as fewer than all
networks have been given since an interface got its own, the distance of the
counter from it, plus all networks if the counter has come round, is that number;
so that the counter is at it again only after as many.

`DownLeavesNothing` is the action property `DownClears`.  `DownInv` adds to `RuleInv`
that rules tell what their name has been: those a WAN port gets are on `WanNames`
(marked, or taken for WAN where the script guesses), those a LAN port gets on
`LanNames` (names that had one, or were taken for LAN; `RulesTell`, `PortsKnown`;
`ServersTell` for dnsmasq), also of the steps still to be done (`StepsFit`).  What "down" has
planned to revoke then covers all that a name of one kind can have, in whichever
role the script runs, also after the device is gone; `DownOrdered` carries this
through its steps, until the last one leaves nothing (`LastRevoke`).  `StepsInOrder`
is needed because a device may appear while a script waits: no step for a LAN port is
behind a wait.

`TlsDecoderProofs` and `HoodExecutorProofs` need facts about every element of a list that a recursive
function builds (`FlattenSeq`, `Kept`).  The induction theorems of the library are
stated for any predicate, which the provers cannot instantiate.  The induction is
done with sets instead: `LeastNumber` says that a set of numbers with a member has
a least one, and `UpTo` applies it to the numbers of which the fact does not hold.

Only model-checked: all liveness, that is `EveryRequestAnswered`,
`EveryRecordDelivered`, `StopReleasesAll`, `EveryRecordRelayed`, `EveryPlanEnds`,
`EveryLookupEnds` and the fairness that `LookupContract` demands, because the
provers do not handle fairness.
`TypeOK` of the certificate check and of the reader need no run, since they are
proved.

## 8. Disagreements with the documentation

Each is a run that TLC must find violated, with one property that states the
document's words.

* `check_fallback_doc`: after all addresses were refused the check goes on under
  the fallback name, and who waits under the original one waits for ever, with
  all who ask for it later (`process-tls-proxy.puml:15`).
* `context_unsafe_doc`: a refused ServerHello is to block the connection
  (`paper.tex:350`); with another record behind it in the same read the process
  dereferences a null `paired_`.  The same happens at `tls_context.cpp:260` when
  the client's connection fails while its connect is running;
  `CrashOnlyAfterStop` says that it happens on stopped connections only.
* `policy_version_doc`: `HardenVersions` works on a copy of the hello, drops the
  answer of `HardenVersionsInternal` and returns true: no hello is discarded for
  its version (`paper.tex:331`).

Seen while modelling, without a run of their own:

* an endpoint becomes trusted without a handshake with it, because each check of
  a worker is given the whole list and connects to the first that accepts
  (`tls_check_certificate_worker.cpp:171`, `paper.tex:348`);
* the cache and the waiting lists do not know ports, so that a connection to one
  port is given endpoints on another (`tls_check_certificate.cpp:148`,
  `paper.tex:1063`);
* an end of stream is not reported (`message_reader.hpp:169`): after an ordinary
  close of both sides the two contexts and their sockets stay;
* the hello for another host that is "discarded" (`tls_context.cpp:127`) has been
  queued, and may have been sent;
* the three tails of `HelloRetryRequestSpecialValue` are equal, so that a retry is
  one for TLS 1.3 or of an unknown version;
* the name service answers to the address of the last datagram it got
  (`hood-name-service.py:274`), so that a caller may be given the addresses of a
  name it has not asked for;
* a result that is an alias is a coroutine nobody awaits
  (`hood-name-service.py:242`): no reply is sent; a single address of at most seven
  characters is taken for none (`:360`);
* `busy` stays set after every failure (`:138`): the client is lost, and when all
  are, each query spins with `sleep(0)`.  This is also what keeps answers apart,
  as the mutant of `ReadsOwnAnswer` shows;
* the eviction of the cache (`:246`) is not reached, since the cache stops growing
  at 512; `error_received` (`:368`) calls a `LOG` that does not exist there, so that
  it is like a lost datagram; each attempt but the last leaves its socket open;
* `readline` returns nothing at the end of a stream and does not suspend: a client
  that closes before the empty line stops the loop of `hood-http-handler.py` for
  all connections (`:91`), a server that does so stops the name service;
* the early returns of `handle_connection` (no host, two hosts) and its exceptions
  close nothing, and a forwarder that fails closes nothing;
* every "up" of the WAN port starts another dnsmasq for each gadget
  (`02-hood-dispatcher:252`), and "down" kills the last one only; a name that was
  the WAN port's keeps its mark (`del`, `:277`), so that the "down" of a LAN port
  that is gone may revoke the WAN port's rules and leave its own
  (`paper.tex:572` says that all are removed).  These are two exceptions in
  `DownClears`;
* where the path of the WAN port is not known, which is how the installer leaves it
  (`install.sh:19`) on anything but a Raspberry Pi 2 or 4, a name that is not
  built in has the role that the number of interfaces gives it at the moment
  (`02-hood-dispatcher:172`), although nothing behind the name changes.  A sole
  `enp3s0` is WAN at pre-up and up; its "down" runs as LAN once a second
  interface is there, and also when the only one was pulled out, because none is
  left then: the dhcp and internet rules stay.  The other way round a LAN port that is
  gone gets the "down" of a WAN port when one interface is left, and keeps its proxy
  rules and its dnsmasq.  This is the third exception in `DownClears`: there a name
  that `is_wan_port` has called both (`roles`).  Names it always gave one answer
  for are cleared.

## 9. Not modelled

In the context: bytes of TLS messages (a record has a kind; `TlsDecoder` has the
bytes).  Certificates and OpenSSL, logging,
configuration; `DoReadUdp` and the handler results nobody returns; builds with
`NO_CHECK_CERTIFICATE`; the assert of debug builds on `read_size`
(`message_reader.hpp:144`), which aborts when a header has arrived alone and announces
the largest length its type holds (a release build has no such check); the nested `run_one` of a full queue and of a full
server; the sender of a UDP answer; the subnet test (the filter is one set of addresses).
HTTP, JSON, HTML and JSON action files are data.  Of `02-hood-dispatcher` the
netdev filter, which is added once and never removed, and the reboots for an
upgrade are left out; `hood-timesync.py` is three attempts in one thread with no
state but the clock; `hood-netconfig.py`, the install scripts and the prototype have no
state that another part reads back and are left out.
