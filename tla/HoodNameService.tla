-------------------------- MODULE HoodNameService --------------------------
(***************************************************************************)
(* hood-name-service.py.  Run as a program it is the name service: one     *)
(* asyncio loop answers datagrams by asking servers over HTTPS.  Imported  *)
(* it gives HoodResolve, a future that asks the name service.              *)
(*                                                                         *)
(* A step is what a coroutine or callback does between two awaits that may *)
(* suspend it.  A datagram is known by its endpoint: <<c, k>> is the k-th  *)
(* socket of caller c, from which exactly one query is sent.               *)
(***************************************************************************)
EXTENDS Integers, Sequences, FiniteSets

CONSTANTS Callers,
          Attempts,         \* per caller: attempts_left, 3 in the code
          Names, Addresses,
          BlockedNames,     \* IsDomainInBlacklist
          BlockedAddresses, \* IsAddressInBlacklist
          Malformed,        \* names of more than 253 bytes or without a dot
          ShortAddresses,   \* written with at most seven characters
          Zone,             \* per name: the data of the records a server may
                            \* answer with, their order left out
          Servers,          \* dns_over_https_server_paths has 1..Servers
          CacheLimit        \* 512 in the code

ASSUME NameServiceAssumption ==
  /\ Attempts \in [Callers -> Nat \ {0, 1}]
  /\ Names \cap Addresses = {}
  /\ BlockedNames \subseteq Names /\ Malformed \subseteq Names
  /\ BlockedAddresses \subseteq Addresses
  /\ ShortAddresses \subseteq Addresses
  /\ Zone \in [Names -> SUBSET SUBSET (Names \cup Addresses)]
  /\ Servers \in Nat \ {0} /\ CacheLimit \in Nat

VARIABLES asked,        \* per caller: query
          attemptsLeft, \* attempts_left
          future,       \* "idle", "pending" or "done"
          result,       \* its result, None being no address
          timer,        \* timeout_future is pending
          endpoint,     \* per endpoint: "none", "opening", "open", "closed"
          query,        \* per datagram: how far the service is with it
          user,         \* per client: the query that uses it
          busy,
          unread,       \* per client: whose answer is unread on its connection
          pointer,
          cache,
          addr,         \* NameServiceProtocol.addr
          replies,      \* datagrams on their way back
          serviceStuck  \* the loop of the service never comes back

resolveVars == <<asked, attemptsLeft, future, result, timer, endpoint>>
serviceVars == <<query, user, busy, unread, pointer, cache, addr, replies,
                 serviceStuck>>
nameVars == <<resolveVars, serviceVars>>

-----------------------------------------------------------------------------

Sockets(c) == 1..(Attempts[c] - 1)
Endpoints == UNION {{c} \X Sockets(c) : c \in Callers}
Clients == 1..Servers
NoQuery == <<>>
NoName == ""

NameInit ==
  /\ asked = [c \in Callers |-> NoName]
  /\ attemptsLeft = Attempts
  /\ future = [c \in Callers |-> "idle"]
  /\ result = [c \in Callers |-> {}]
  /\ timer = [c \in Callers |-> FALSE]
  /\ endpoint = [e \in Endpoints |-> "none"]
  /\ query = [e \in Endpoints |-> "none"]
  /\ user = [s \in Clients |-> NoQuery]
  /\ busy = [s \in Clients |-> FALSE]
  /\ unread = [s \in Clients |-> NoQuery]
  /\ pointer = 1
  /\ cache = <<>>
  /\ addr = NoQuery
  /\ replies = {}
  /\ serviceStuck = FALSE

-----------------------------------------------------------------------------
(* HoodResolve *)

SetResult(c, r) == /\ future' = [future EXCEPT ![c] = "done"]
                   /\ result' = [result EXCEPT ![c] = r]

(* attempt: a new socket and a new timer.                                  *)
NewAttempt(c) ==
  /\ attemptsLeft' = [attemptsLeft EXCEPT ![c] = @ - 1]
  /\ timer' = [timer EXCEPT ![c] = TRUE]
  /\ endpoint' = [endpoint EXCEPT ![<<c, Attempts[c] - attemptsLeft'[c]>>] = "opening"]

(* HoodResolve(name) makes its first attempt at once, unless the name is   *)
(* an address.                                                             *)
Resolve(c, name) ==
  /\ asked' = [asked EXCEPT ![c] = name]
  /\ IF name \in Addresses
     THEN SetResult(c, {name}) /\ UNCHANGED <<attemptsLeft, timer, endpoint>>
     ELSE /\ future' = [future EXCEPT ![c] = "pending"]
          /\ NewAttempt(c) /\ UNCHANGED result

(* connection_made sends the query.                                        *)
ConnectionMade(e) ==
  /\ endpoint[e] = "opening"
  /\ endpoint' = [endpoint EXCEPT ![e] = "open"]
  /\ query' = [query EXCEPT ![e] = "sent"]
  /\ UNCHANGED <<asked, attemptsLeft, future, result, timer, user, busy, unread,
                 pointer, cache, addr, replies, serviceStuck>>

(* Mutant: the last attempt ends without a result.                         *)
TimerExpiresMute(c) ==
  /\ timer[c] /\ future[c] = "pending"
  /\ IF attemptsLeft[c] > 1
     THEN NewAttempt(c)
     ELSE /\ attemptsLeft' = [attemptsLeft EXCEPT ![c] = @ - 1]
          /\ timer' = [timer EXCEPT ![c] = FALSE] /\ UNCHANGED endpoint
  /\ UNCHANGED <<asked, future, result, serviceVars>>

(* The timer calls attempt; the third one gives up.                        *)
TimerExpires(c) ==
  /\ timer[c] /\ future[c] = "pending"
  /\ IF attemptsLeft[c] > 1
     THEN NewAttempt(c) /\ UNCHANGED <<future, result>>
     ELSE /\ attemptsLeft' = [attemptsLeft EXCEPT ![c] = @ - 1]
          /\ timer' = [timer EXCEPT ![c] = FALSE]
          /\ SetResult(c, {}) /\ UNCHANGED endpoint
  /\ UNCHANGED <<asked, serviceVars>>

(* The addresses of a reply, joined by "\0": up to seven bytes are nothing. *)
Decoded(data) ==
  IF \E a \in ShortAddresses : data = {a} THEN {} ELSE data

(* self.transport: the socket that was opened last.                        *)
Transport(c) ==
  LET opened == {k \in Sockets(c) : endpoint[<<c, k>>] \in {"open", "closed"}}
  IN <<c, CHOOSE k \in opened : \A j \in opened : j <= k>>

(* datagram_received cancels the timer; a result that is there already     *)
(* makes set_result raise, and the socket stays open.                      *)
DatagramReceived(reply) ==
  LET c == reply.to[1]
  IN /\ endpoint[reply.to] = "open"
     /\ timer' = [timer EXCEPT ![c] = FALSE]
     /\ IF future[c] = "pending"
        THEN /\ SetResult(c, Decoded(reply.data))
             /\ endpoint' = [endpoint EXCEPT ![Transport(c)] = "closed"]
             /\ replies' = {r \in replies \ {reply} : r.to # Transport(c)}
        ELSE replies' = replies \ {reply} /\ UNCHANGED <<future, result, endpoint>>
     /\ UNCHANGED <<asked, attemptsLeft, query, user, busy, unread, pointer, cache,
                    addr, serviceStuck>>

-----------------------------------------------------------------------------
(* The name service *)

(* name_resolved: the reply goes to the address of the last datagram, and  *)
(* is dropped if that socket is closed.                                    *)
ReplyTo(to, e, data) ==
  /\ query' = [query EXCEPT ![e] = "done"]
  /\ replies' = IF endpoint[to] = "closed" THEN replies
                ELSE replies \cup {[from |-> e, to |-> to, data |-> data]}

Reply(e, data) == ReplyTo(addr, e, data)

QueryReceived(e) ==
  /\ query[e] = "sent"
  /\ addr' = e
  /\ IF asked[e[1]] \in Malformed
     THEN ReplyTo(e, e, {})
     ELSE query' = [query EXCEPT ![e] = "queued"] /\ UNCHANGED replies
  /\ UNCHANGED <<resolveVars, user, busy, unread, pointer, cache, serviceStuck>>

(* The search for a free client goes from the pointer to the last one and  *)
(* then lets others run.  A client that is found is made busy, and its     *)
(* request written, before anything else runs.                             *)
FreeClients == {s \in Clients : s >= pointer /\ ~busy[s]}

UseClient(e) ==
  \/ /\ FreeClients = {}
     /\ pointer' = 1 /\ query' = [query EXCEPT ![e] = "choosing"]
     /\ UNCHANGED <<user, busy>>
  \/ \E s \in FreeClients :
       /\ \A t \in FreeClients : s <= t
       /\ pointer' = (s % Servers) + 1
       /\ query' = [query EXCEPT ![e] = "asked"]
       /\ user' = [user EXCEPT ![s] = e]
       /\ busy' = [busy EXCEPT ![s] = TRUE]

(* DnsOverHttpsResolver.resolve up to its first await.                     *)
ResolveBlocked(e) ==
  /\ query[e] = "queued" /\ asked[e[1]] \in BlockedNames
  /\ Reply(e, {})
  /\ UNCHANGED <<resolveVars, user, busy, unread, pointer, cache, addr, serviceStuck>>

ResolveCached(e) ==
  /\ query[e] = "queued" /\ asked[e[1]] \notin BlockedNames
  /\ asked[e[1]] \in DOMAIN cache
  /\ Reply(e, cache[asked[e[1]]])
  /\ UNCHANGED <<resolveVars, user, busy, unread, pointer, cache, addr, serviceStuck>>

(* A cached entry may have expired: it is dropped when it is found so.     *)
ResolveAsks(e) ==
  /\ query[e] = "queued" /\ asked[e[1]] \notin BlockedNames
  /\ cache' = [n \in DOMAIN cache \ {asked[e[1]]} |-> cache[n]]
  /\ UseClient(e)
  /\ UNCHANGED <<resolveVars, unread, addr, replies, serviceStuck>>

ResolveChooses(e) ==
  /\ query[e] = "choosing"
  /\ UseClient(e)
  /\ UNCHANGED <<resolveVars, unread, cache, addr, replies, serviceStuck>>

-----------------------------------------------------------------------------
(* DnsOverHttpsClient.resolve after its request *)

Uses(e, s) == user[s] = e

(* The head of an answer was read up to the empty line: a refused one ends *)
(* the request with busy set and the body unread.                          *)
HeadArrives(e, s) ==
  /\ Uses(e, s) /\ query[e] = "asked"
  /\ unread' = [unread EXCEPT ![s] = e]

HeadGood(e, s) ==
  /\ HeadArrives(e, s)
  /\ query' = [query EXCEPT ![e] = "body"]
  /\ UNCHANGED <<resolveVars, user, busy, pointer, cache, addr, replies, serviceStuck>>

(* Mutant: a client is free again after a failure.                         *)
HeadRefusedReleasing(e, s) ==
  /\ HeadArrives(e, s)
  /\ user' = [user EXCEPT ![s] = NoQuery]
  /\ busy' = [busy EXCEPT ![s] = FALSE]
  /\ Reply(e, {})
  /\ UNCHANGED <<resolveVars, pointer, cache, addr, serviceStuck>>

HeadRefused(e, s) ==
  /\ HeadArrives(e, s)
  /\ user' = [user EXCEPT ![s] = NoQuery]
  /\ Reply(e, {})
  /\ UNCHANGED <<resolveVars, busy, pointer, cache, addr, serviceStuck>>

(* Mutant: blacklisted addresses are kept.                                 *)
UsableUnfiltered(data) == data \cap Addresses

(* The addresses that are kept.                                            *)
Usable(data) == (data \cap Addresses) \ BlockedAddresses

(* A result is cached for its smallest time to live if this is long, for   *)
(* an hour if there is no address, and only below the limit.               *)
Cached(name, addresses, ttl) ==
  IF (ttl \/ addresses = {}) /\ Cardinality(DOMAIN cache) < CacheLimit
  THEN [n \in DOMAIN cache \cup {name} |-> IF n = name THEN addresses ELSE cache[n]]
  ELSE cache

(* The whole body is read, and the client free again.                      *)
BodyRead(e, s) ==
  /\ Uses(e, s) /\ query[e] = "body"
  /\ unread' = [unread EXCEPT ![s] = NoQuery]
  /\ user' = [user EXCEPT ![s] = NoQuery]
  /\ busy' = [busy EXCEPT ![s] = FALSE]
  /\ UNCHANGED <<resolveVars, pointer, addr, serviceStuck>>

(* No "Status", not 0, or no "Answer".                                     *)
NothingFound(e, s) == BodyRead(e, s) /\ Reply(e, {}) /\ UNCHANGED cache

AddressesFound(e, s, data, ttl) ==
  /\ BodyRead(e, s)
  /\ Usable(data) # {} \/ data \subseteq BlockedAddresses
  /\ Reply(e, Usable(data))
  /\ cache' = Cached(asked[e[1]], Usable(data), ttl)

(* A record that is not blacklisted names another host: the result is a    *)
(* coroutine nobody runs, and name_resolved raises, so that there is no    *)
(* reply.  One that names the host itself gives an empty result.           *)
AliasFound(e, s, data) ==
  /\ BodyRead(e, s) /\ UNCHANGED cache
  /\ Usable(data) = {}
  /\ \E name \in data \ BlockedAddresses :
       IF name = asked[e[1]]
       THEN Reply(e, {})
       ELSE query' = [query EXCEPT ![e] = "done"] /\ UNCHANGED replies

(* An exception: refused, reset, no number, no JSON.  busy stays set.      *)
RequestFails(e, s) ==
  /\ Uses(e, s)
  /\ user' = [user EXCEPT ![s] = NoQuery]
  /\ Reply(e, {})
  /\ UNCHANGED <<resolveVars, busy, unread, pointer, cache, addr, serviceStuck>>

(* At the end of the stream readline returns nothing, again and again, and *)
(* never suspends: a server that closes before the empty line stops the    *)
(* whole service.                                                          *)
ServerCloses(e, s) ==
  /\ Uses(e, s) /\ query[e] = "asked"
  /\ serviceStuck' = TRUE
  /\ UNCHANGED <<resolveVars, query, user, busy, unread, pointer, cache, addr, replies>>

-----------------------------------------------------------------------------

ResolveNext(c) ==
  \/ \E k \in Sockets(c) : ConnectionMade(<<c, k>>)
  \/ TimerExpires(c)
  \/ \E reply \in replies : reply.to[1] = c /\ DatagramReceived(reply)

ClientNext(e, s) ==
  \/ HeadGood(e, s) \/ HeadRefused(e, s)
  \/ NothingFound(e, s) \/ RequestFails(e, s) \/ ServerCloses(e, s)
  \/ Uses(e, s) /\ \E data \in Zone[asked[e[1]]] :
       \/ AliasFound(e, s, data)
       \/ \E ttl \in BOOLEAN : AddressesFound(e, s, data, ttl)

ServiceNext ==
  /\ ~serviceStuck
  /\ \E e \in Endpoints :
       \/ QueryReceived(e) \/ ResolveBlocked(e) \/ ResolveCached(e)
       \/ ResolveAsks(e) \/ ResolveChooses(e)
       \/ \E s \in Clients : ClientNext(e, s)

-----------------------------------------------------------------------------
(* Properties *)

(* An HTTPS connection is used again and again.  What a request reads from *)
(* it next is the answer to that request, never what a request before it   *)
(* has left unread: a client that is not busy has read everything, and a   *)
(* busy one has at most one user.  It is because busy is set before the    *)
(* first await and stays set after every failure (hood-name-service.py:138 *)
(* to 179) that this holds.                                                *)
ReadsOwnAnswer ==
  \A s \in Clients :
    /\ user[s] # NoQuery => busy[s] /\ unread[s] \in {NoQuery, user[s]}
    /\ ~busy[s] => unread[s] = NoQuery
    /\ \A t \in Clients : user[s] = user[t] /\ user[s] # NoQuery => s = t

=============================================================================
