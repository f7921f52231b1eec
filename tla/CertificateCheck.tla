-------------------------- MODULE CertificateCheck --------------------------
(***************************************************************************)
(* The certificate check of hood-tls-proxy: the result cache, the lists of *)
(* waiting handlers and DoResolve of tls_check_certificate.cpp, and the    *)
(* workers of tls_check_certificate_worker.cpp.  One asio io_context runs  *)
(* all of it on one thread, so every completion handler is one action.     *)
(*                                                                         *)
(* The two maps of the code are total functions here: a name has a cache   *)
(* entry iff trusted[name] # {} (an entry is created by the push_back of   *)
(* its first endpoint) and is in pending_handlers_ iff pending[name] # {}. *)
(* Vectors of endpoints are sets.  An address the policy refuses, IPv6 or  *)
(* blocked, is one outside Acceptable.                                     *)
(***************************************************************************)
EXTENDS Integers, FiniteSets, Sequences

CONSTANTS Requests,        \* calls of CheckCertificateOf
          Names,           \* host names, with and without ".hood-proxy"
          NoName,
          Fallback,        \* name -> name ".hood-proxy", NoName if it has it
          TooLong,         \* names longer than max_length_of_a_domain
          Ports,
          NoPort,
          Addresses,
          Acceptable,      \* addresses RemoveV6AndBlockedEndpoints keeps
          Lifespan,        \* cache_lifespan_
          CacheSizeLimit,  \* cache_size_limit_
          MaxTime,         \* bound: the clock stops here
          MaxCallbacks     \* bound: how often one Resolve may call back

ASSUME NamesAssumption ==
  /\ IsFiniteSet(Names) /\ NoName \notin Names
  /\ Fallback \in [Names -> Names \cup {NoName}]
  /\ \A n \in Names : Fallback[n] # n
  /\ TooLong \subseteq Names

ASSUME AddressAssumption ==
  Acceptable \subseteq Addresses

ASSUME PortAssumption == NoPort \notin Ports

ASSUME BoundAssumption ==
  /\ Lifespan \in Nat \ {0} /\ CacheSizeLimit \in Nat
  /\ MaxTime \in Nat /\ MaxCallbacks \in Nat \ {0}

Endpoint == [addr : Addresses, port : Ports]

ASSUME EndpointAssumption == IsFiniteSet(Endpoint)

(* A lookup is a name_service::Client; redirect tells the one that asks    *)
(* for the fallback name apart from the one it was started by.             *)
Lookup == [starter : Requests, redirect : 0..MaxCallbacks,
           name : Names, port : Ports, calls : 0..(MaxCallbacks - 1)]

(* Where one CheckEndpoint stands: not among endpoints_, connecting, in the *)
(* handshake with the endpoint that accepted the connection, or done.      *)
Absent == [at |-> "absent"]
Connecting == [at |-> "connecting"]
Handshaking(c) == [at |-> "handshake", peer |-> c]
Done == [at |-> "done"]
Phase == {Absent, Connecting, Done} \cup {Handshaking(c) : c \in Endpoint}

(* A CertificateCheckWorker; left is callback_countdown_, the first three  *)
(* fields say which callback of which lookup created it.                   *)
Worker == [starter : Requests, redirect : 0..MaxCallbacks,
           call : 1..MaxCallbacks, name : Names, left : Int,
           check : [Endpoint -> Phase]]

EndpointsOf(w) == {e \in Endpoint : w.check[e] # Absent}

VARIABLES now,       \* steady_clock::now()
          host,      \* per request: the host_name argument, NoName before
          port,      \* per request: the port argument
          answers,   \* per request: what its handler was called with
          trusted,   \* cached_results_: trusted_endpoints
          created,   \* cached_results_: creation_time
          pending,   \* pending_handlers_
          lookups,   \* running name service clients
          workers,   \* running workers
          goodAt,    \* history: when (name, endpoint) was last reported good
          resolved,  \* history: per name, the lists workers were given
          verified,  \* history: per name, the peers that passed a handshake
          redirected \* history: names DoResolve gave up for their fallback

cacheVars   == <<trusted, created>>
requestVars == <<host, port>>
vars == <<now, host, port, answers, trusted, created, pending, lookups,
          workers, goodAt, resolved, verified, redirected>>

Never == -1

Init == /\ now = 0
        /\ host = [r \in Requests |-> NoName]
        /\ port = [r \in Requests |-> NoPort]
        /\ answers = [r \in Requests |-> <<>>]
        /\ trusted = [n \in Names |-> {}]
        /\ created = [n \in Names |-> 0]
        /\ pending = [n \in Names |-> {}]
        /\ lookups = {}
        /\ workers = {}
        /\ goodAt = [n \in Names |-> [e \in Endpoint |-> Never]]
        /\ resolved = [n \in Names |-> {}]
        /\ verified = [n \in Names |-> {}]
        /\ redirected = {}

-----------------------------------------------------------------------------
(* The cache *)

Cached == {n \in Names : trusted[n] # {}}

(* Mutant: the comparison with cache_lifespan_ is off by one.              *)
FreshTooLong(n) == now - created[n] <= Lifespan

Fresh(n) == now - created[n] < Lifespan

Expired == {n \in Cached : now - created[n] > Lifespan}

(* Mutant: a full cache drops expired entries only.                        *)
KeptUnlessExpired(n) ==
  IF n \in Cached \/ Cardinality(Cached) <= CacheSizeLimit THEN {Cached}
  ELSE {Cached \ Expired}

(* The sets of names that may remain when an entry is made for n: a full   *)
(* cache first drops its expired entries, or else the one at begin(), here *)
(* any one, as the order of the names is left out.                         *)
Kept(n) ==
  IF n \in Cached \/ Cardinality(Cached) <= CacheSizeLimit THEN {Cached}
  ELSE IF Expired # {} THEN {Cached \ Expired}
  ELSE {Cached \ {m} : m \in Cached}

Remember(n, e) ==
  \E kept \in Kept(n) :
    /\ trusted' = [m \in Names |-> IF m = n THEN trusted[n] \cup {e}
                                   ELSE IF m \in kept THEN trusted[m] ELSE {}]
    /\ created' = [m \in Names |-> IF m = n THEN now
                                   ELSE IF m \in kept THEN created[m] ELSE 0]

Forget(n) == /\ trusted' = [trusted EXCEPT ![n] = {}]
             /\ created' = [created EXCEPT ![n] = 0]

-----------------------------------------------------------------------------
(* WorkerResultHandler *)

Answer(R, endpoints) ==
  answers' = [r \in Requests |-> IF r \in R THEN Append(answers[r], endpoints)
                                            ELSE answers[r]]

(* Mutant: pending_handlers_.erase is missing.                             *)
DeliverKeepingList(n, endpoints) == /\ Answer(pending[n], endpoints)
                                    /\ UNCHANGED pending

(* Every handler waiting for n is called and the list is erased.           *)
Deliver(n, endpoints) == /\ Answer(pending[n], endpoints)
                         /\ pending' = [pending EXCEPT ![n] = {}]

(* Mutant: the handlers are called when the worker has finished only.      *)
WorkerResultGoodQuiet(n, e) ==
  /\ Remember(n, e)
  /\ goodAt' = [goodAt EXCEPT ![n][e] = now]
  /\ UNCHANGED <<answers, pending>>

WorkerResultGood(n, e) ==
  /\ Remember(n, e)
  /\ Deliver(n, trusted[n] \cup {e})
  /\ goodAt' = [goodAt EXCEPT ![n][e] = now]

WorkerResultFinished(n) ==
  /\ Deliver(n, trusted[n])
  /\ UNCHANGED <<trusted, created, goodAt>>

(* flags == error, not the last endpoint: nothing happens.                 *)
WorkerResultError == UNCHANGED <<answers, pending, trusted, created, goodAt>>

-----------------------------------------------------------------------------
(* CheckCertificateOf and DoResolve *)

(* A fresh entry: the handler is called before CheckCertificateOf returns. *)
AskCached(r, n) ==
  /\ n \in Cached /\ Fresh(n)
  /\ Answer({r}, trusted[n])
  /\ UNCHANGED <<trusted, created, pending, lookups>>

DropStale(n) == IF n \in Cached THEN ~Fresh(n) /\ Forget(n)
                                ELSE UNCHANGED cacheVars

(* Mutant: the list is replaced, not appended to.                          *)
AskPendingAlone(r, n) ==
  /\ DropStale(n)
  /\ pending[n] # {}
  /\ pending' = [pending EXCEPT ![n] = {r}]
  /\ UNCHANGED <<answers, lookups>>

(* A check of the name is under way: the handler joins its list.           *)
AskPending(r, n) ==
  /\ DropStale(n)
  /\ pending[n] # {}
  /\ pending' = [pending EXCEPT ![n] = @ \cup {r}]
  /\ UNCHANGED <<answers, lookups>>

AskResolve(r, n, p) ==
  /\ DropStale(n)
  /\ pending[n] = {}
  /\ n \notin TooLong
  /\ pending' = [pending EXCEPT ![n] = {r}]
  /\ lookups' = lookups \cup {[starter |-> r, redirect |-> 0, name |-> n,
                               port |-> p, calls |-> 0]}
  /\ UNCHANGED answers

(* Client::Start refuses the name and calls back before it returns, so the *)
(* handler has been called and unlisted when CheckCertificateOf returns.   *)
AskTooLong(r, n) ==
  /\ DropStale(n)
  /\ pending[n] = {}
  /\ n \in TooLong
  /\ Answer({r}, {})
  /\ UNCHANGED <<pending, lookups>>

CheckCertificateOf(r, n, p) ==
  /\ host[r] = NoName
  /\ host' = [host EXCEPT ![r] = n]
  /\ port' = [port EXCEPT ![r] = p]
  /\ \/ AskCached(r, n)
     \/ AskPending(r, n)
     \/ AskResolve(r, n, p)
     \/ AskTooLong(r, n)
  /\ UNCHANGED <<now, workers, goodAt, resolved, verified, redirected>>

(* Mutant: the addresses are not filtered.                                 *)
KeepEveryEndpoint(endpoints) == endpoints

RemoveV6AndBlockedEndpoints(endpoints) ==
  {e \in endpoints : e.addr \in Acceptable}

(* The lookup l has called back; more says that it will do so again.       *)
AfterCallback(l, more) ==
  (lookups \ {l}) \cup
  (IF more /\ l.calls + 1 < MaxCallbacks THEN {[l EXCEPT !.calls = @ + 1]}
                                         ELSE {})

(* Mutant: the failure of a lookup is reported without "finished".         *)
ResolveFailedQuietly(l, more) ==
  /\ lookups' = AfterCallback(l, more)
  /\ WorkerResultError
  /\ UNCHANGED <<workers, redirected>>

(* An error, or an answer without an address.                              *)
ResolveFailed(l, more) ==
  /\ lookups' = AfterCallback(l, more)
  /\ WorkerResultFinished(l.name)
  /\ UNCHANGED <<workers, redirected>>

(* Mutant: the countdown starts one too low.                               *)
CreateWorkerShort(l, endpoints) ==
  [starter |-> l.starter, redirect |-> l.redirect, call |-> l.calls + 1,
   name |-> l.name, left |-> Cardinality(endpoints) - 1,
   check |-> [e \in Endpoint |->
                IF e \in endpoints THEN Connecting ELSE Absent]]

CreateWorker(l, endpoints) ==
  [starter |-> l.starter, redirect |-> l.redirect, call |-> l.calls + 1,
   name |-> l.name, left |-> Cardinality(endpoints),
   check |-> [e \in Endpoint |->
                IF e \in endpoints THEN Connecting ELSE Absent]]

ResolveStartsWorker(l, more, endpoints) ==
  /\ endpoints # {}
  /\ lookups' = AfterCallback(l, more)
  /\ workers' = workers \cup {CreateWorker(l, endpoints)}
  /\ UNCHANGED <<answers, pending, trusted, created, goodAt, redirected>>

(* Every address is refused: DoResolve again with the fallback name, which *)
(* from here on is the name the results are reported under.                *)
ResolveFallsBack(l, more) ==
  LET name == Fallback[l.name]
  IN /\ name # NoName
     /\ redirected' = redirected \cup {l.name}
     /\ \/ /\ name \notin TooLong
           /\ lookups' = AfterCallback(l, more) \cup
                         {[starter |-> l.starter, redirect |-> l.calls + 1,
                           name |-> name, port |-> l.port, calls |-> 0]}
           /\ UNCHANGED <<answers, pending, trusted, created, goodAt>>
        \/ /\ name \in TooLong
           /\ lookups' = AfterCallback(l, more)
           /\ WorkerResultFinished(name)
     /\ UNCHANGED workers

ResolveCallback(l, more, results) ==
  LET endpoints == [addr : results, port : {l.port}]
      accepted  == RemoveV6AndBlockedEndpoints(endpoints)
  IN /\ \/ endpoints = {} /\ ResolveFailed(l, more)
        \/ ResolveStartsWorker(l, more, accepted)
        \/ endpoints # {} /\ accepted = {} /\ ResolveFallsBack(l, more)
        \/ /\ endpoints # {} /\ accepted = {}
           /\ Fallback[l.name] = NoName
           /\ ResolveFailed(l, more)
     /\ resolved' = IF accepted = {} THEN resolved
                    ELSE [resolved EXCEPT ![l.name] = @ \cup {accepted}]
     /\ UNCHANGED <<now, requestVars, verified>>

-----------------------------------------------------------------------------
(* CertificateCheckWorker *)

(* w with its check of e in another phase.                                 *)
MovedTo(w, e, phase) == [w EXCEPT !.check = [@ EXCEPT ![e] = phase]]

(* w after CallHandler for e; it is dropped once nothing refers to it.     *)
Called(w, e) ==
  LET after == [MovedTo(w, e, Done) EXCEPT !.left = @ - 1]
  IN (workers \ {w}) \cup (IF after.left = 0 THEN {} ELSE {after})

(* Mutant: an error never carries "finished".                              *)
CallHandlerErrorOnly(w, e) == /\ workers' = Called(w, e)
                              /\ WorkerResultError

CallHandlerError(w, e) ==
  /\ workers' = Called(w, e)
  /\ IF w.left - 1 = 0 THEN WorkerResultFinished(w.name) ELSE WorkerResultError

CallHandlerGood(w, e) ==
  /\ workers' = Called(w, e)
  /\ WorkerResultGood(w.name, e)

(* async_connect was given all of endpoints_, whatever e this check is     *)
(* for: the peer is the first of them that accepts.                        *)
Connected(w, e, c) ==
  /\ w.check[e] = Connecting
  /\ c \in EndpointsOf(w)
  /\ workers' = (workers \ {w}) \cup {MovedTo(w, e, Handshaking(c))}
  /\ UNCHANGED <<answers, pending, trusted, created, goodAt, verified>>

ConnectFailed(w, e) ==
  /\ w.check[e] = Connecting
  /\ CallHandlerError(w, e)
  /\ UNCHANGED verified

(* Mutant: a failed handshake is taken for a good one.                     *)
HandshakeFailedGood(w, e) ==
  /\ w.check[e].at = "handshake"
  /\ CallHandlerGood(w, e)
  /\ UNCHANGED verified

HandshakeFailed(w, e) ==
  /\ w.check[e].at = "handshake"
  /\ CallHandlerError(w, e)
  /\ UNCHANGED verified

HandshakeGood(w, e) ==
  /\ w.check[e].at = "handshake"
  /\ CallHandlerGood(w, e)
  /\ verified' = [verified EXCEPT ![w.name] = @ \cup {w.check[e].peer}]

CheckEndpoint(w, e) ==
  /\ \/ \E c \in Endpoint : Connected(w, e, c)
     \/ ConnectFailed(w, e)
     \/ HandshakeFailed(w, e)
     \/ HandshakeGood(w, e)
  /\ UNCHANGED <<now, requestVars, lookups, resolved, redirected>>

-----------------------------------------------------------------------------
Tick == /\ now < MaxTime
        /\ now' = now + 1
        /\ UNCHANGED <<requestVars, answers, cacheVars, pending, lookups,
                       workers, goodAt, resolved, verified, redirected>>

Ask == \E r \in Requests, n \in Names, p \in Ports :
         CheckCertificateOf(r, n, p)

Resolve == \E l \in lookups, more \in BOOLEAN, results \in SUBSET Addresses :
             ResolveCallback(l, more, results)

Check == \E w \in workers : \E e \in EndpointsOf(w) : CheckEndpoint(w, e)

Next == Ask \/ Resolve \/ Check \/ Tick

Spec == Init /\ [][Next]_vars

(* Every lookup calls back (NameServiceClient: it has a timer).            *)
LookupFairness == WF_vars(Resolve)

(* Peers accept or refuse a connection, and finish or fail a handshake:    *)
(* an assumption about the network, no timer of the code enforces it.      *)
PeerFairness == WF_vars(Check)

FairSpec == Spec /\ LookupFairness /\ PeerFairness

-----------------------------------------------------------------------------
(* Properties *)

TypeOK == /\ now \in 0..MaxTime
          /\ host \in [Requests -> Names \cup {NoName}]
          /\ port \in [Requests -> Ports \cup {NoPort}]
          /\ answers \in [Requests -> Seq(SUBSET Endpoint)]
          /\ trusted \in [Names -> SUBSET Endpoint]
          /\ created \in [Names -> 0..MaxTime]
          /\ pending \in [Names -> SUBSET Requests]
          /\ lookups \subseteq Lookup
          /\ workers \subseteq Worker
          /\ goodAt \in [Names -> [Endpoint -> {Never} \cup 0..MaxTime]]
          /\ resolved \in [Names -> SUBSET SUBSET Endpoint]
          /\ verified \in [Names -> SUBSET Endpoint]
          /\ redirected \subseteq Names

(* A handler never waits for a name that has a cache entry, fresh or not:  *)
(* what is cached has been given to everybody who waited for it, and who   *)
(* comes later finds it.  The two maps are updated by different functions. *)
PendingExcludesCache == \A n \in Names : pending[n] # {} => trusted[n] = {}

(* A request waits in the list of its own name and no other, from the call *)
(* until its handler is called: no handler is lost by a list that is       *)
(* replaced, or moves when DoResolve renames.                              *)
WaitersArePending ==
  \A n \in Names :
    pending[n] = {r \in Requests : host[r] = n /\ answers[r] = <<>>}

(* No handler is called twice, although lookups call back repeatedly and   *)
(* several workers may report under one name: DoConnectHost would connect  *)
(* the same server context a second time.                                  *)
AnsweredAtMostOnce == \A r \in Requests : Len(answers[r]) <= 1

(* The cache holds at most one entry more than cache_size_limit_.          *)
CacheBounded == Cardinality(Cached) <= CacheSizeLimit + 1

(* Endpoints are handed out only if one of them was reported good under    *)
(* that name less than a lifespan ago, whether the answer comes from the   *)
(* cache or from a worker.  (The others may be older: any good result      *)
(* renews the whole entry.)                                                *)
RecentlyGood(n, e) == goodAt[n][e] # Never /\ now - goodAt[n][e] < Lifespan

GivesRecentlyGood ==
  \A r \in Requests : answers'[r] # answers[r] =>
    LET given == answers'[r][Len(answers'[r])]
    IN given # {} => \E e \in given : RecentlyGood(host[r], e)'

FreshTrust == [][GivesRecentlyGood]_vars

(* An endpoint is reported good when any of its worker's endpoints passed  *)
(* the handshake.  Still every endpoint that is handed out, from the cache *)
(* or by whichever worker ends first, is one that a lookup of the same     *)
(* host brought together with a peer that passed it under that host's name.*)
VouchedByPeer ==
  \A r \in Requests : \A i \in DOMAIN answers[r] : \A e \in answers[r][i] :
    \E endpoints \in resolved[host[r]] :
      e \in endpoints /\ endpoints \cap verified[host[r]] # {}

(* callback_countdown_ is the number of endpoints still to be reported, so *)
(* that "finished" comes with the last of them and exactly once.           *)
CountdownExact ==
  \A w \in workers :
    /\ w.left = Cardinality({e \in EndpointsOf(w) : w.check[e] # Done})
    /\ w.left > 0

(* Whoever waits for a name waits for something: a lookup or a worker that *)
(* reports under that name, unless DoResolve has renamed the check.        *)
PendingHasRunner ==
  \A n \in Names \ redirected : pending[n] # {} =>
    \/ \E l \in lookups : l.name = n
    \/ \E w \in workers : w.name = n

(* No refused address is ever handed out.                                  *)
AnswersAcceptable ==
  \A r \in Requests : \A i \in DOMAIN answers[r] :
    \A e \in answers[r][i] : e.addr \in Acceptable

(* CheckCertificateOf keeps what HostTrust promises.                       *)
vouched == [n \in Names |-> {e \in Endpoint : goodAt[n][e] # Never}]

Promise == INSTANCE HostTrust WITH Endpoints <- Endpoint

ImplementsHostTrust == Promise!Spec

(* Every handler is called in the end.                                     *)
EveryRequestAnswered ==
  \A r \in Requests : host[r] # NoName ~> answers[r] # <<>>
=============================================================================
