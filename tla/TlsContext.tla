----------------------------- MODULE TlsContext -----------------------------
(***************************************************************************)
(* One client connection of hood-tls-proxy: the tls::Context of the client *)
(* and the server contexts it creates (tls_context.cpp, tls_context.hpp).  *)
(*                                                                         *)
(* A record is its position in the stream of the peer that sent it, so the *)
(* histories say which record went where.  The reader is the one of module *)
(* MessageReader, reduced to whole records: a completed read brings some   *)
(* records, the loop hands them to the handler one by one, and no other    *)
(* completion handler runs before the loop ends.                           *)
(*                                                                         *)
(* A connection sends at most eight records per direction here,          *)
(* so that LimitTaskQueueSize finds nothing to do.                         *)
(***************************************************************************)
EXTENDS Integers, Sequences

CONSTANTS Hosts,         \* host names of a ClientHello
          NoHost,        \* a ClientHello without one
          MaxServers,    \* bound: server contexts
          Worlds         \* what may be around a connection

(* "bad" is whatever the decoder or the policy refuses, "empty" a record   *)
(* whose size is 0 in the uint16_t the handler gets.                       *)
Record == [kind : {"hello"}, host : Hosts \cup {NoHost}] \cup
          [kind : {"ccs", "data", "bad", "empty"}, host : {NoHost}]

(* What the client sends and a server sends, what may fail, and whether    *)
(* the client's next hello awaits an answer to the one before.             *)
World == [client : Seq(Record), server : Seq(Record),
          failures : SUBSET {"check", "connect", "read", "write"},
          polite : BOOLEAN]

ASSUME ContextAssumption ==
  /\ NoHost \notin Hosts
  /\ Worlds \subseteq World
  /\ \A w \in Worlds : Len(w.client) <= MaxServers /\ Len(w.server) <= 8
  /\ MaxServers \in 1..8

None == -1
Client == 0
Servers == 1..MaxServers
Contexts == {Client} \cup Servers

VARIABLES world,
          ctx,        \* the contexts' own fields
          created,    \* how many server contexts have been created
          hostName,   \* host_name_ of the client context
          connected,  \* its CONNECTED_TO_HOST
          checks,     \* per host: handlers in CheckCertificateOf
          connecting, \* per host: running async_connect
          read,       \* per context: records the reader has got
          taken,      \* per context: records the handler has been given
          wrote,      \* history, per context: what its peer has been sent
          crashed     \* a null paired_ was used: the process is gone

requests == <<hostName, connected, checks, connecting>>
vars == <<world, ctx, created, hostName,
          connected, checks, connecting, read, taken, wrote, crashed>>

(* The fields of a Context; see Blank.                                     *)
Fields == [socket    : {"none", "open", "closed"},
           remote    : Hosts \cup {NoHost},
           reader    : {"idle", "reading", "rejected", "loop", "ended"},
           running   : BOOLEAN,
           stray     : BOOLEAN,
           paired    : Contexts \cup {None},
           queue     : Seq(Nat),
           writing   : BOOLEAN,
           flying    : Seq([rec : Nat, to : Hosts \cup {NoHost}]),
           encrypted : BOOLEAN]

(* A context that has been created but not started.                        *)
Blank == [socket    |-> "none",  \* "none", "open" or "closed"
          remote    |-> NoHost,  \* whose endpoints the socket was given
          reader    |-> "idle",  \* "idle", "reading", "rejected" (by a closed
                                 \* socket), "loop" or "ended"
          running   |-> FALSE,   \* message_reader_.status_
          stray     |-> FALSE,   \* the reader's stream is not socket_
          paired    |-> None,    \* paired_
          queue     |-> <<>>,    \* write_task_queue_
          writing   |-> FALSE,   \* writing_
          flying    |-> <<>>,    \* running async_write
          encrypted |-> FALSE]   \* CLIENT_ / SERVER_ENABLED_ENCRYPTION

Init == /\ world \in Worlds
        /\ ctx = [c \in Contexts |-> Blank]
        /\ created = 0
        /\ hostName = NoHost
        /\ connected = FALSE
        /\ checks = [h \in Hosts |-> 0]
        /\ connecting = [h \in Hosts |-> 0]
        /\ read = [c \in Contexts |-> 0]
        /\ taken = [c \in Contexts |-> 0]
        /\ wrote = [c \in Contexts |-> <<>>]
        /\ crashed = FALSE

clientScript == world.client
serverScript == world.server

Script(c) == IF c = Client THEN clientScript ELSE serverScript

-----------------------------------------------------------------------------
(* The methods of Context, each from the contexts before to those after    *)

With(cx, c, x) == [cx EXCEPT ![c] = x]

(* Mutant: writing_ is not looked at.                                      *)
DoWriteAlways(cx, c) ==
  LET x == cx[c] IN
  IF x.queue = <<>> \/ x.socket = "none" THEN cx
  ELSE With(cx, c, [x EXCEPT !.writing = TRUE, !.queue = Tail(@),
                             !.flying = @ \o
                               IF x.socket = "open"
                               THEN <<[rec |-> Head(x.queue), to |-> x.remote]>>
                               ELSE <<>>])

(* A closed socket loses the task, and writing_ stays set.                 *)
DoWrite(cx, c) ==
  LET x == cx[c] IN
  IF x.writing \/ x.queue = <<>> \/ x.socket = "none" THEN cx
  ELSE With(cx, c, [x EXCEPT !.writing = TRUE, !.queue = Tail(@),
                             !.flying = @ \o
                               IF x.socket = "open"
                               THEN <<[rec |-> Head(x.queue), to |-> x.remote]>>
                               ELSE <<>>])

Pair(cx, c, d) == With(cx, c, [cx[c] EXCEPT !.paired = d])

Queue(cx, c, from, i) ==
  IF cx[c].paired = from
  THEN DoWrite(With(cx, c, [cx[c] EXCEPT !.queue = Append(@, i)]), c)
  ELSE cx

Closed(x) == [x EXCEPT !.running = FALSE, !.paired = None,
                       !.socket = IF @ = "none" THEN "none" ELSE "closed"]

(* Mutant: the paired context is unpaired but not stopped.                 *)
StopAlone(cx, c) ==
  [d \in Contexts |-> IF d = c THEN Closed(cx[d])
                      ELSE IF d = cx[c].paired
                      THEN [cx[d] EXCEPT !.paired = None] ELSE cx[d]]

(* Mutant: the paired context keeps its pointer.                           *)
StopKeepingPair(cx, c) ==
  [d \in Contexts |-> IF d = c THEN Closed(cx[d])
                      ELSE IF d = cx[c].paired
                      THEN [Closed(cx[d]) EXCEPT !.paired = cx[d].paired]
                      ELSE cx[d]]

(* Stop also stops the paired context, which is unpaired before, so that   *)
(* the recursion ends there.                                               *)
Stop(cx, c) ==
  [d \in Contexts |-> IF d \in {c, cx[c].paired} THEN Closed(cx[d]) ELSE cx[d]]

(* Mutant: what has been queued before the connection is not written.      *)
StartSilently(cx, c, remote) ==
  LET x == cx[c]
  IN With(cx, c, [x EXCEPT !.socket = "open", !.remote = remote,
                           !.running = TRUE,
                           !.stray = x.running,
                           !.reader = IF x.running THEN @ ELSE "reading"])

(* A reader that is running already keeps its old stream.                  *)
Start(cx, c, remote) ==
  LET x == cx[c]
  IN DoWrite(With(cx, c, [x EXCEPT !.socket = "open", !.remote = remote,
                                   !.running = TRUE,
                                   !.stray = x.running,
                                   !.reader = IF x.running THEN @
                                              ELSE "reading"]), c)

(* The reader of c ends.                                                   *)
Ended(cx, c) ==
  With(cx, c, [cx[c] EXCEPT !.reader = "ended", !.running = FALSE])

(* Who holds a shared_ptr to the client context: its reader's handler, a   *)
(* write, a check, a connect or the context that is paired with it.        *)
Held(cx, waiting) ==
  \/ cx[Client].reader \in {"reading", "rejected", "loop"}
  \/ cx[Client].flying # <<>>
  \/ \E h \in Hosts : waiting[h] > 0
  \/ \E s \in Servers : cx[s].paired = Client

(* ~Context of a client context nobody holds.  A server context is held by *)
(* the client context, or has been stopped already.                        *)
Release(cx, waiting) == IF Held(cx, waiting) THEN cx ELSE Stop(cx, Client)

Waiting(cs, cn) == [h \in Hosts |-> cs[h] + cn[h]]

-----------------------------------------------------------------------------
(* The loop of MessageReader: the handler gets its next record.            *)

Busy == \E c \in Contexts : ctx[c].reader = "loop"

Given(c, kinds) ==
  /\ ~crashed
  /\ ctx[c].reader = "loop" /\ taken[c] < read[c]
  /\ Script(c)[taken[c] + 1].kind \in kinds
  /\ taken' = [taken EXCEPT ![c] = @ + 1]
  /\ UNCHANGED <<world, read, wrote>>

(* A server context for a client context that has none.                    *)
Fresh == created + 1

Paired == IF ctx[Client].paired = None THEN Pair(ctx, Client, Fresh) ELSE ctx

Create == created' = IF ctx[Client].paired = None THEN Fresh ELSE created

UserEmpty == Given(Client, {"empty"}) /\ UNCHANGED <<ctx, created, requests,
                                                      crashed>>

(* Once the client encrypts nothing is looked at any more.                 *)
UserEncrypted ==
  /\ Given(Client, {"hello", "ccs", "data", "bad"})
  /\ ctx[Client].encrypted
  /\ ctx' = Queue(Paired, Paired[Client].paired, Client, taken'[Client])
  /\ Create
  /\ UNCHANGED <<requests, crashed>>

UserBad ==
  /\ Given(Client, {"bad"})
  /\ ~ctx[Client].encrypted
  /\ ctx' = Stop(Paired, Client)
  /\ Create
  /\ UNCHANGED <<requests, crashed>>

UserData ==
  /\ Given(Client, {"data", "ccs"})
  /\ ~ctx[Client].encrypted
  /\ LET ccs == clientScript[taken'[Client]].kind = "ccs"
         cx  == With(Paired, Client,
                     [Paired[Client] EXCEPT !.encrypted = ccs])
     IN ctx' = Queue(cx, cx[Client].paired, Client, taken'[Client])
  /\ Create
  /\ UNCHANGED <<requests, crashed>>

(* The server context is paired and the hello is in its queue before the   *)
(* host name is looked at.                                                 *)
HelloQueued ==
  LET s == Paired[Client].paired
  IN Queue(Pair(Paired, s, Client), s, Client, taken[Client] + 1)

UserHello ==
  /\ Given(Client, {"hello"})
  /\ ~ctx[Client].encrypted
  /\ Create
  /\ UNCHANGED crashed

(* Mutant: the host name of a later hello is not compared.                 *)
HelloAgainUnchecked(h) ==
  /\ connected
  /\ ctx' = HelloQueued
  /\ UNCHANGED requests

HelloAgain(h) ==
  /\ connected
  /\ ctx' = IF h = hostName THEN HelloQueued ELSE Stop(HelloQueued, Client)
  /\ UNCHANGED requests

HelloWithoutHost(h) ==
  /\ ~connected
  /\ h = NoHost
  /\ ctx' = Stop(HelloQueued, Client)
  /\ UNCHANGED requests

(* CheckCertificateOf may answer at once: with endpoints from its cache,   *)
(* or with none if the name is too long.                                   *)
HelloChecked(h) ==
  /\ ~connected
  /\ h # NoHost
  /\ hostName' = h
  /\ \/ /\ checks' = [checks EXCEPT ![h] = @ + 1]
        /\ ctx' = HelloQueued
        /\ UNCHANGED connecting
     \/ /\ connecting' = [connecting EXCEPT ![h] = @ + 1]
        /\ ctx' = HelloQueued
        /\ UNCHANGED checks
     \/ /\ "check" \in world.failures
        /\ ctx' = Stop(HelloQueued, Client)
        /\ UNCHANGED <<checks, connecting>>
  /\ UNCHANGED connected

UserFirstHello ==
  /\ UserHello
  /\ LET h == clientScript[taken'[Client]].host
     IN HelloAgain(h) \/ HelloWithoutHost(h) \/ HelloChecked(h)

HandleUserMessage ==
  UserEmpty \/ UserEncrypted \/ UserBad \/ UserData \/ UserFirstHello

(* paired_->Queue, without a look at paired_.                              *)
ServerData(s) ==
  /\ Given(s, {"hello", "data", "ccs", "bad"})
  /\ ctx[s].encrypted \/ serverScript[taken'[s]].kind # "bad"
  /\ crashed' = (ctx[s].paired = None)
  /\ LET ccs == serverScript[taken'[s]].kind = "ccs"
         cx  == With(ctx, s, [ctx[s] EXCEPT !.encrypted = @ \/ ccs])
     IN ctx' = IF ctx[s].paired = None THEN cx
               ELSE Queue(cx, ctx[s].paired, s, taken'[s])
  /\ UNCHANGED <<created, requests>>

(* Mutant: what is refused is forwarded all the same.                      *)
ServerBadForwarded(s) ==
  /\ Given(s, {"bad", "empty"})
  /\ ~ctx[s].encrypted
  /\ ctx' = IF ctx[s].paired = None THEN ctx
            ELSE Queue(ctx, ctx[s].paired, s, taken'[s])
  /\ UNCHANGED <<created, requests, crashed>>

ServerBad(s) ==
  /\ Given(s, {"bad", "empty"})
  /\ ~ctx[s].encrypted \/ serverScript[taken'[s]].kind = "empty"
  /\ ctx' = Stop(ctx, s)
  /\ UNCHANGED <<created, requests, crashed>>

HandleServerMessage == \E s \in Servers : ServerData(s) \/ ServerBad(s)

(* The loop is over: the next async_read.                                  *)
ReadOn(c) ==
  /\ ~crashed
  /\ ctx[c].reader = "loop" /\ taken[c] = read[c]
  /\ ctx' = With(ctx, c, [ctx[c] EXCEPT !.reader =
                            IF ctx[c].socket = "open" \/ ctx[c].stray
                            THEN "reading" ELSE "rejected"])
  /\ UNCHANGED <<world, created, requests, read, taken, wrote, crashed>>

Loop == \/ HandleUserMessage \/ HandleServerMessage
        \/ \E c \in Contexts : ReadOn(c)

-----------------------------------------------------------------------------
(* Completion handlers *)

Completion == /\ ~crashed /\ ~Busy
              /\ UNCHANGED <<world, created, taken>>

(* The acceptor's handler in server.cpp: create and Start.                 *)
Accept ==
  /\ Completion
  /\ ctx[Client].reader = "idle"
  /\ ctx' = Start(ctx, Client, NoHost)
  /\ UNCHANGED <<requests, read, wrote, crashed>>

(* What a peer has reason to send: a server after it was sent something, a *)
(* polite client another hello after it was answered.                      *)
Sends(c, i) ==
  IF c = Client
  THEN \/ ~world.polite \/ wrote[c] # <<>>
       \/ clientScript[i].kind # "hello"
       \/ \A j \in 1..(i - 1) : clientScript[j].kind # "hello"
  ELSE wrote[c] # <<>>

(* A read that was completed before Stop finds the reader stopped.         *)
ReadDone(c, n) ==
  /\ Completion
  /\ ctx[c].reader = "reading"
  /\ n \in 1..(Len(Script(c)) - read[c])
  /\ \A i \in (read[c] + 1)..(read[c] + n) : Sends(c, i)
  /\ \/ /\ ctx[c].running
        /\ ctx' = With(ctx, c, [ctx[c] EXCEPT !.reader = "loop"])
        /\ read' = [read EXCEPT ![c] = @ + n]
     \/ /\ ~ctx[c].running
        /\ ctx' = Release(Stop(Ended(ctx, c), c), Waiting(checks, connecting))
        /\ UNCHANGED read
  /\ UNCHANGED <<requests, wrote, crashed>>

(* eof: the handler is not told.                                           *)
ReadEof(c) ==
  /\ Completion
  /\ ctx[c].reader = "reading"
  /\ read[c] = Len(Script(c))
  /\ ctx' = Release(Ended(ctx, c), Waiting(checks, connecting))
  /\ UNCHANGED <<requests, read, wrote, crashed>>

(* operation_canceled by Stop: the handler is not told.                    *)
ReadCancelled(c) ==
  /\ Completion
  /\ ctx[c].reader = "reading"
  /\ ctx[c].socket = "closed" /\ ~ctx[c].stray
  /\ ctx' = Release(Ended(ctx, c), Waiting(checks, connecting))
  /\ UNCHANGED <<requests, read, wrote, crashed>>

(* Mutant: an error of the socket is not reported to the handler.          *)
ReadFailedQuietly(c) ==
  /\ Completion
  /\ \/ ctx[c].reader = "rejected"
     \/ ctx[c].reader = "reading" /\ "read" \in world.failures
  /\ ctx' = Ended(ctx, c)
  /\ UNCHANGED <<requests, read, wrote, crashed>>

(* Any other error: the peer has reset the connection, or the socket had   *)
(* been closed when the read started.                                      *)
ReadFailed(c) ==
  /\ Completion
  /\ \/ ctx[c].reader = "rejected"
     \/ ctx[c].reader = "reading" /\ "read" \in world.failures
  /\ ctx' = Release(Stop(Ended(ctx, c), c), Waiting(checks, connecting))
  /\ UNCHANGED <<requests, read, wrote, crashed>>

(* The k-th running async_write is over; there is one at most.             *)
WriteDone(c, k) ==
  /\ Completion
  /\ k \in DOMAIN ctx[c].flying
  /\ wrote' = [wrote EXCEPT ![c] = Append(@, ctx[c].flying[k])]
  /\ LET rest == SubSeq(ctx[c].flying, 1, k - 1) \o
                 SubSeq(ctx[c].flying, k + 1, Len(ctx[c].flying))
         cx == With(ctx, c, [ctx[c] EXCEPT !.flying = rest, !.writing = FALSE])
     IN ctx' = Release(DoWrite(cx, c), Waiting(checks, connecting))
  /\ UNCHANGED <<requests, read, crashed>>

(* writing_ stays set.                                                     *)
WriteFailed(c) ==
  /\ Completion
  /\ ctx[c].flying # <<>>
  /\ ctx[c].socket = "closed" \/ "write" \in world.failures
  /\ LET cx == With(ctx, c, [ctx[c] EXCEPT !.flying = Tail(@)])
     IN ctx' = Release(Stop(cx, c), Waiting(checks, connecting))
  /\ UNCHANGED <<requests, read, wrote, crashed>>

(* CheckCertificateOf calls DoConnectHost.                                 *)
CheckAnswered(h) ==
  /\ Completion
  /\ checks[h] > 0
  /\ checks' = [checks EXCEPT ![h] = @ - 1]
  /\ \/ /\ connecting' = [connecting EXCEPT ![h] = @ + 1]
        /\ UNCHANGED ctx
     \/ /\ "check" \in world.failures
        /\ ctx' = Release(Stop(ctx, Client), Waiting(checks', connecting))
        /\ UNCHANGED connecting
  /\ UNCHANGED <<hostName, connected, read, wrote, crashed>>

(* Mutant: a failure is reported when no connect is running.               *)
ConnectFailedAgain(h) ==
  /\ Completion
  /\ "connect" \in world.failures
  /\ connecting' = [connecting EXCEPT ![h] = @ - 1]
  /\ ctx' = Release(Stop(ctx, Client), Waiting(checks, connecting'))
  /\ UNCHANGED <<hostName, connected, checks, read, wrote, crashed>>

ConnectFailed(h) ==
  /\ Completion
  /\ connecting[h] > 0
  /\ "connect" \in world.failures
  /\ connecting' = [connecting EXCEPT ![h] = @ - 1]
  /\ ctx' = Release(Stop(ctx, Client), Waiting(checks, connecting'))
  /\ UNCHANGED <<hostName, connected, checks, read, wrote, crashed>>

(* paired_->Start, without a look at paired_: Stop may have cleared it.    *)
Connected(h) ==
  /\ Completion
  /\ connecting[h] > 0
  /\ connecting' = [connecting EXCEPT ![h] = @ - 1]
  /\ crashed' = (ctx[Client].paired = None)
  /\ ctx' = IF ctx[Client].paired = None THEN ctx
            ELSE Release(Start(ctx, ctx[Client].paired, h),
                         Waiting(checks, connecting'))
  /\ connected' = (connected \/ ctx[Client].paired # None)
  /\ UNCHANGED <<hostName, checks, read, wrote>>

Read(c) == \/ \E n \in 1..8 : ReadDone(c, n)
           \/ ReadEof(c) \/ ReadCancelled(c) \/ ReadFailed(c)

Write(c) == WriteFailed(c) \/ \E k \in 1..8 : WriteDone(c, k)

Connect(h) == CheckAnswered(h) \/ ConnectFailed(h) \/ Connected(h)

Next == \/ Loop \/ Accept
        \/ \E c \in Contexts : Read(c) \/ Write(c)
        \/ \E h \in Hosts : Connect(h)

Spec == Init /\ [][Next]_vars

(* The io_context runs what is ready, and peers answer or close: as long   *)
(* as something can happen, something does.  A connection has finitely     *)
(* many records, so that no part of it is starved.                         *)
FairSpec == Spec /\ WF_vars(Next)
-----------------------------------------------------------------------------
(* Properties *)

TypeOK == /\ world \in Worlds
          /\ ctx \in [Contexts -> Fields]
          /\ created \in 0..MaxServers
          /\ hostName \in Hosts \cup {NoHost}
          /\ connected \in BOOLEAN
          /\ checks \in [Hosts -> Nat] /\ connecting \in [Hosts -> Nat]
          /\ read \in [Contexts -> Nat] /\ taken \in [Contexts -> Nat]
          /\ wrote \in [Contexts -> Seq([rec : Nat, to : Hosts \cup {NoHost}])]
          /\ crashed \in BOOLEAN

Records(writes) == [i \in DOMAIN writes |-> writes[i].rec]

(* Everything c has been given to send, oldest first.                      *)
Out(c) == Records(wrote[c]) \o Records(ctx[c].flying) \o ctx[c].queue

(* The client's records from its first hello on, as far as handled.        *)
FromHello == {i \in 1..taken[Client] :
                /\ clientScript[i].kind # "empty"
                /\ \E j \in 1..i : clientScript[j].kind = "hello"}

(* While nobody has called Stop, what one side has sent is with the other  *)
(* side's context, sent, in flight or queued: nothing is lost, duplicated  *)
(* or overtaken while the server is being looked up, checked and connected.*)
RelayedInOrder ==
  \A s \in Servers :
    ctx[s].paired = Client /\ ctx[Client].socket = "open" =>
      /\ {Out(s)[k] : k \in DOMAIN Out(s)} = FromHello
      /\ \A j, k \in DOMAIN Out(s) : j < k => Out(s)[j] < Out(s)[k]
      /\ Len(Out(Client)) = taken[s]
      /\ \A k \in DOMAIN Out(Client) : Out(Client)[k] = k

(* Refused by the decoder or the policy: not yet encrypted.                *)
Refused(c, i) == /\ Script(c)[i].kind = "bad"
                 /\ \A j \in 1..(i - 1) : Script(c)[j].kind # "ccs"

(* Whatever stops, resets or is re-paired by a loop that goes on after     *)
(* Stop: what a peer has been sent is a stretch of the other peer's stream *)
(* without a gap (a client's begins with a hello), and holds no record     *)
(* that was refused.                                                       *)
NothingRefusedIsSent ==
  /\ \A i \in DOMAIN wrote[Client] : wrote[Client][i].rec = i
  /\ \A s \in Servers :
       /\ wrote[s] # <<>> => clientScript[wrote[s][1].rec].kind = "hello"
       /\ \A i \in 2..Len(wrote[s]) :
            LET before == wrote[s][i - 1].rec
            IN /\ before < wrote[s][i].rec
               /\ \A j \in (before + 1)..(wrote[s][i].rec - 1) :
                    clientScript[j].kind = "empty"
  /\ \A c \in Contexts : \A i \in DOMAIN wrote[c] :
       ~Refused(IF c = Client THEN 1 ELSE Client, wrote[c][i].rec)

(* A server context forwards only to the client context that holds it, so  *)
(* an orphan left over from before a Stop never reaches the client.        *)
PairedMutually ==
  \A s \in Servers : ctx[s].paired = Client => ctx[Client].paired = s

(* After a polite client's hello for another host than the one the server  *)
(* was checked for this server is sent nothing more.  What follows a ccs   *)
(* is encrypted and not looked at, whatever it is.                         *)
MismatchIsLast ==
  world.polite =>
    \A s \in Servers : \A i \in DOMAIN wrote[s] :
      LET sent   == wrote[s][i].rec
          record == clientScript[sent]
      IN /\ record.kind = "hello" /\ record.host # wrote[s][i].to
         /\ \A j \in 1..(sent - 1) : clientScript[j].kind # "ccs"
         => i = Len(wrote[s])

(* The null paired_ is reached on connections only that have been stopped. *)
CrashOnlyAfterStop == crashed => ctx[Client].socket = "closed"

Over(c) == /\ ctx[c].socket # "open" /\ ctx[c].paired = None
           /\ ctx[c].reader \notin {"reading", "rejected", "loop"}

(* Once a connection is stopped all its sockets, readers and pairs go,     *)
(* also those that a loop which was still running created again.           *)
StopReleasesAll ==
  ctx[Client].socket = "closed" ~> crashed \/ \A c \in Contexts : Over(c)

(* Both sides keep to the protocol and the policy, and every hello of the  *)
(* client is for the same host.                                            *)
WellBehaved ==
  /\ clientScript # <<>> /\ clientScript[1].kind = "hello"
  /\ clientScript[1].host # NoHost
  /\ \A i \in DOMAIN clientScript :
       \/ clientScript[i].kind \in {"ccs", "data"}
       \/ clientScript[i] = clientScript[1]
  /\ \A i \in DOMAIN serverScript : serverScript[i].kind \notin {"bad", "empty"}

(* A well-behaved connection on a network without failures is relayed to   *)
(* the end in both directions.                                             *)
EveryRecordRelayed ==
  WellBehaved /\ world.failures = {} =>
    <>(/\ Len(wrote[1]) = Len(clientScript)
       /\ Len(wrote[Client]) = Len(serverScript))

-----------------------------------------------------------------------------
(* What the documentation says and the code does not do *)

(* paper.tex:350, after an unsafe ServerHello "the connection will be      *)
(* blocked": the connection, and not the proxy.                            *)
BlockingKeepsTheProxy == ~crashed
=============================================================================
