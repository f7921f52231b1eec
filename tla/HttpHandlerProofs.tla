------------------------- MODULE HttpHandlerProofs -------------------------
(***************************************************************************)
(* Proofs of the safety invariants of HttpHandler, for every set of        *)
(* connections, names, addresses and servers and every number of attempts. *)
(***************************************************************************)
EXTENDS HttpHandler, TLAPS

-----------------------------------------------------------------------------
(* The strengthening of ReadsOwnAnswer: who uses a client is in a request, *)
(* and a socket that has not been opened has sent nothing.                 *)

Phases == {"none", "sent", "queued", "choosing", "asked", "body", "done"}
SocketStates == {"none", "opening", "open", "closed"}

NameType ==
  /\ attemptsLeft \in [Callers -> Int]
  /\ endpoint \in [Endpoints -> SocketStates]
  /\ query \in [Endpoints -> Phases]
  /\ user \in [Clients -> Endpoints \cup {NoQuery}]
  /\ busy \in [Clients -> BOOLEAN]
  /\ unread \in [Clients -> Endpoints \cup {NoQuery}]

UsersAsk ==
  \A s \in Clients : user[s] # NoQuery => query[user[s]] \in {"asked", "body"}

SocketsFresh ==
  \A c \in Callers : \A k \in Sockets(c) :
    /\ endpoint[<<c, k>>] = "opening" => query[<<c, k>>] = "none"
    /\ k > Attempts[c] - attemptsLeft[c] =>
         query[<<c, k>>] = "none" /\ endpoint[<<c, k>>] \in {"none", "closed"}

ReadInv == NameType /\ UsersAsk /\ SocketsFresh /\ ReadsOwnAnswer

LEMMA EndpointParts ==
  /\ \A c \in Callers : \A k \in Sockets(c) : <<c, k>> \in Endpoints
  /\ \A e \in Endpoints : \E c \in Callers : \E k \in Sockets(c) : e = <<c, k>>
  /\ \A c \in Callers : Attempts[c] \in Nat /\ \A k \in Sockets(c) : k \in Nat
  /\ \A e \in Endpoints : e # NoQuery
<1>1. \A c \in Callers : \A k \in Sockets(c) : <<c, k>> \in Endpoints
  BY DEF Endpoints
<1>2. \A e \in Endpoints : \E c \in Callers : \E k \in Sockets(c) : e = <<c, k>>
  BY DEF Endpoints
<1>3. \A c \in Callers : Attempts[c] \in Nat
  BY NameServiceAssumption
<1>4. \A c \in Callers : \A k \in Sockets(c) : k \in Nat
  BY <1>3 DEF Sockets
<1>5. \A e \in Endpoints : e # NoQuery
  BY <1>2 DEF NoQuery
<1> QED
  BY <1>1, <1>2, <1>3, <1>4, <1>5

(* What a step of a caller does to the service's side: nothing but sending *)
(* a query from a socket that was opening.                                 *)
SameService == UNCHANGED <<query, user, busy, unread>>

LEMMA NewAttemptFresh ==
  ASSUME ReadInv, NEW c \in Callers, NewAttempt(c), SameService
  PROVE  ReadInv'
<1>1. NameType'
  <2>1. attemptsLeft' \in [Callers -> Int]
    BY DEF ReadInv, NameType, Phases, SocketStates, NewAttempt
  <2>2. endpoint' \in [Endpoints -> SocketStates]
    <3> DEFINE e == <<c, Attempts[c] - attemptsLeft'[c]>>
    <3>1. endpoint' = [endpoint EXCEPT ![e] = "opening"]
      BY DEF NewAttempt
    <3> HIDE DEF e
    <3> QED BY <3>1 DEF ReadInv, NameType, Phases, SocketStates
  <2> QED BY <2>1, <2>2 DEF ReadInv, NameType, Phases, SocketStates, SameService
<1>2. attemptsLeft'[c] = attemptsLeft[c] - 1 /\ attemptsLeft[c] \in Int
  BY DEF ReadInv, NameType, Phases, SocketStates, NewAttempt
<1>3. SocketsFresh'
  <2> SUFFICES ASSUME NEW d \in Callers, NEW k \in Sockets(d)
               PROVE  /\ endpoint'[<<d, k>>] = "opening" => query[<<d, k>>] = "none"
                      /\ k > Attempts[d] - attemptsLeft'[d] =>
                           /\ query[<<d, k>>] = "none"
                           /\ endpoint'[<<d, k>>] \in {"none", "closed"}
    BY DEF SocketsFresh, SameService
  <2>1. /\ endpoint[<<d, k>>] = "opening" => query[<<d, k>>] = "none"
        /\ k > Attempts[d] - attemptsLeft[d] =>
             query[<<d, k>>] = "none" /\ endpoint[<<d, k>>] \in {"none", "closed"}
    BY DEF ReadInv, SocketsFresh
  <2>2. k \in Nat /\ Attempts[d] \in Nat /\ <<d, k>> \in Endpoints
    BY EndpointParts
  <2>3. CASE d = c /\ k = Attempts[c] - attemptsLeft'[c]
    BY <1>2, <2>1, <2>2, <2>3
  <2>4. CASE ~(d = c /\ k = Attempts[c] - attemptsLeft'[c])
    <3>1. endpoint'[<<d, k>>] = endpoint[<<d, k>>]
      BY <2>2, <2>4 DEF NewAttempt, ReadInv, NameType, Phases, SocketStates
    <3>2. CASE d = c
      BY <1>2, <2>1, <2>2, <2>4, <3>1, <3>2
    <3>3. CASE d # c
      <4>1. attemptsLeft'[d] = attemptsLeft[d]
        BY <3>3 DEF NewAttempt, ReadInv, NameType, Phases, SocketStates
      <4> QED BY <2>1, <3>1, <4>1
    <3> QED BY <3>2, <3>3
  <2> QED BY <2>3, <2>4
<1> QED BY <1>1, <1>3 DEF ReadInv, UsersAsk, ReadsOwnAnswer, SameService

(* Giving up, closing a socket, or an answer at once.                      *)
LEMMA EndpointsKeepFresh ==
  ASSUME ReadInv, SameService,
         attemptsLeft' \in [Callers -> Int],
         \A c \in Callers : attemptsLeft'[c] <= attemptsLeft[c],
         endpoint' \in [Endpoints -> SocketStates],
         \A e \in Endpoints : endpoint'[e] \in {endpoint[e], "closed"}
  PROVE  ReadInv'
<1>1. NameType'
  BY DEF ReadInv, NameType, Phases, SocketStates, SameService
<1>2. SocketsFresh'
  <2> SUFFICES ASSUME NEW d \in Callers, NEW k \in Sockets(d)
               PROVE  /\ endpoint'[<<d, k>>] = "opening" => query[<<d, k>>] = "none"
                      /\ k > Attempts[d] - attemptsLeft'[d] =>
                           /\ query[<<d, k>>] = "none"
                           /\ endpoint'[<<d, k>>] \in {"none", "closed"}
    BY DEF SocketsFresh, SameService
  <2>1. /\ endpoint[<<d, k>>] = "opening" => query[<<d, k>>] = "none"
        /\ k > Attempts[d] - attemptsLeft[d] =>
             query[<<d, k>>] = "none" /\ endpoint[<<d, k>>] \in {"none", "closed"}
    BY DEF ReadInv, SocketsFresh
  <2>2. k \in Nat /\ Attempts[d] \in Nat /\ <<d, k>> \in Endpoints
    BY EndpointParts
  <2>3. attemptsLeft[d] \in Int /\ attemptsLeft'[d] \in Int
    BY DEF ReadInv, NameType, Phases, SocketStates
  <2> QED BY <2>1, <2>2, <2>3
<1> QED BY <1>1, <1>2 DEF ReadInv, UsersAsk, ReadsOwnAnswer, SameService

(* A query that is with no client moves on.                                *)
LEMMA QueryMoves ==
  ASSUME ReadInv, NEW e \in Endpoints, NEW to \in Phases,
         query[e] \notin {"none", "asked", "body"},
         query' = [query EXCEPT ![e] = to],
         UNCHANGED <<resolveVars, user, busy, unread>>
  PROVE  ReadInv'
<1>1. NameType'
  BY DEF ReadInv, NameType, Phases, SocketStates, resolveVars
<1>2. UsersAsk'
  BY DEF ReadInv, NameType, Phases, SocketStates, UsersAsk
<1>3. SocketsFresh'
  <2>1. \A d \in Callers : \A k \in Sockets(d) :
          query[<<d, k>>] = "none" => query'[<<d, k>>] = "none"
    BY EndpointParts DEF ReadInv, NameType, Phases, SocketStates
  <2> QED BY <2>1 DEF ReadInv, SocketsFresh, resolveVars
<1>4. ReadsOwnAnswer'
  BY DEF ReadInv, ReadsOwnAnswer
<1> QED BY <1>1, <1>2, <1>3, <1>4 DEF ReadInv

(* A query of a client moves on: it goes on using it, or leaves it; a      *)
(* client that becomes free has nothing unread.                            *)
LEMMA UserMoves ==
  ASSUME ReadInv, NEW e \in Endpoints, NEW s \in Clients, user[s] = e,
         UNCHANGED resolveVars,
         NEW to \in Phases, query' = [query EXCEPT ![e] = to],
         unread' \in [Clients -> Endpoints \cup {NoQuery}],
         \A t \in Clients \ {s} : unread'[t] = unread[t],
         busy' \in [Clients -> BOOLEAN],
         \A t \in Clients \ {s} : busy'[t] = busy[t],
         \/ /\ UNCHANGED <<user, busy>> /\ to \in {"asked", "body"}
            /\ unread'[s] \in {NoQuery, e}
         \/ /\ user' = [user EXCEPT ![s] = NoQuery]
            /\ ~busy'[s] => unread'[s] = NoQuery
  PROVE  ReadInv'
<1>1. e # NoQuery /\ query[e] \in {"asked", "body"}
  BY EndpointParts DEF ReadInv, UsersAsk
<1>2. \A t \in Clients \ {s} : user[t] # e
  BY <1>1 DEF ReadInv, ReadsOwnAnswer
<1>3. NameType'
  BY DEF ReadInv, NameType, Phases, SocketStates, resolveVars
<1>4. UsersAsk'
  BY <1>1, <1>2 DEF ReadInv, NameType, Phases, SocketStates, UsersAsk
<1>5. SocketsFresh'
  <2>1. \A d \in Callers : \A k \in Sockets(d) :
          query[<<d, k>>] = "none" => query'[<<d, k>>] = "none"
    BY <1>1, EndpointParts DEF ReadInv, NameType, Phases, SocketStates
  <2> QED BY <2>1 DEF ReadInv, SocketsFresh, resolveVars
<1>6. ReadsOwnAnswer'
  <2> SUFFICES ASSUME NEW t \in Clients
               PROVE  /\ user'[t] # NoQuery => busy'[t] /\ unread'[t] \in {NoQuery, user'[t]}
                      /\ ~busy'[t] => unread'[t] = NoQuery
                      /\ \A u \in Clients : user'[t] = user'[u] /\ user'[t] # NoQuery => t = u
    BY DEF ReadsOwnAnswer
  <2>1. \A u \in Clients :
          /\ user[u] # NoQuery => busy[u] /\ unread[u] \in {NoQuery, user[u]}
          /\ ~busy[u] => unread[u] = NoQuery
          /\ \A v \in Clients : user[u] = user[v] /\ user[u] # NoQuery => u = v
    BY DEF ReadInv, ReadsOwnAnswer
  <2>2. CASE UNCHANGED <<user, busy>> /\ unread'[s] \in {NoQuery, e}
    BY <1>1, <2>1, <2>2
  <2>3. CASE /\ user' = [user EXCEPT ![s] = NoQuery]
             /\ ~busy'[s] => unread'[s] = NoQuery
    <3>1. user'[s] = NoQuery /\ \A u \in Clients \ {s} : user'[u] = user[u]
      BY <2>3 DEF ReadInv, NameType, Phases, SocketStates
    <3> QED BY <2>1, <2>3, <3>1
  <2> QED BY <2>2, <2>3
<1> QED BY <1>3, <1>4, <1>5, <1>6 DEF ReadInv

(* A free client is taken.                                                 *)
LEMMA ClientTaken ==
  ASSUME ReadInv, NEW e \in Endpoints, NEW s \in Clients, ~busy[s],
         query[e] \in {"queued", "choosing"},
         query' = [query EXCEPT ![e] = "asked"],
         user' = [user EXCEPT ![s] = e], busy' = [busy EXCEPT ![s] = TRUE],
         UNCHANGED <<resolveVars, unread>>
  PROVE  ReadInv'
<1>1. \A t \in Clients : user[t] # e
  BY EndpointParts DEF ReadInv, UsersAsk
<1>2. NameType'
  BY DEF ReadInv, NameType, Phases, SocketStates, resolveVars
<1>3. UsersAsk'
  BY <1>1 DEF ReadInv, NameType, Phases, SocketStates, UsersAsk
<1>4. SocketsFresh'
  <2>1. \A d \in Callers : \A k \in Sockets(d) :
          query[<<d, k>>] = "none" => query'[<<d, k>>] = "none"
    BY EndpointParts DEF ReadInv, NameType, Phases, SocketStates
  <2> QED BY <2>1 DEF ReadInv, SocketsFresh, resolveVars
<1>5. ReadsOwnAnswer'
  <2>1. /\ user'[s] = e /\ busy'[s] /\ unread'[s] = NoQuery
        /\ \A t \in Clients \ {s} : user'[t] = user[t] /\ busy'[t] = busy[t]
        /\ unread' = unread
    BY DEF ReadInv, NameType, Phases, SocketStates, ReadsOwnAnswer
  <2>2. \A u \in Clients :
          /\ user[u] # NoQuery => busy[u] /\ unread[u] \in {NoQuery, user[u]}
          /\ ~busy[u] => unread[u] = NoQuery
          /\ \A v \in Clients : user[u] = user[v] /\ user[u] # NoQuery => u = v
    BY DEF ReadInv, ReadsOwnAnswer
  <2> SUFFICES ASSUME NEW t \in Clients
               PROVE  /\ user'[t] # NoQuery => busy'[t] /\ unread'[t] \in {NoQuery, user'[t]}
                      /\ ~busy'[t] => unread'[t] = NoQuery
                      /\ \A u \in Clients : user'[t] = user'[u] /\ user'[t] # NoQuery => t = u
    BY DEF ReadsOwnAnswer
  <2>3. CASE t = s
    BY <1>1, <2>1, <2>3
  <2>4. CASE t # s
    BY <1>1, <2>1, <2>2, <2>4
  <2> QED BY <2>3, <2>4
<1> QED BY <1>2, <1>3, <1>4, <1>5 DEF ReadInv

-----------------------------------------------------------------------------
(* The steps of the callers *)

LEMMA ResolveKeeps ==
  ASSUME ReadInv, NEW c \in Callers, NEW name, Resolve(c, name), UNCHANGED serviceVars
  PROVE  ReadInv'
<1>1. SameService
  BY DEF SameService, serviceVars
<1>2. CASE NewAttempt(c)
  BY <1>1, <1>2, NewAttemptFresh
<1>3. CASE UNCHANGED <<attemptsLeft, endpoint>>
  <2>1. /\ attemptsLeft' \in [Callers -> Int] /\ endpoint' \in [Endpoints -> SocketStates]
        /\ \A d \in Callers : attemptsLeft'[d] <= attemptsLeft[d]
        /\ \A e \in Endpoints : endpoint'[e] \in {endpoint[e], "closed"}
    BY <1>3 DEF ReadInv, NameType, Phases, SocketStates
  <2> QED BY <1>1, <2>1, EndpointsKeepFresh
<1> QED BY <1>2, <1>3 DEF Resolve

LEMMA ConnectionMadeKeeps ==
  ASSUME ReadInv, NEW c \in Callers, NEW k \in Sockets(c), ConnectionMade(<<c, k>>)
  PROVE  ReadInv'
<1> DEFINE e == <<c, k>>
<1>1. /\ e \in Endpoints /\ query[e] = "none"
      /\ ~(k > Attempts[c] - attemptsLeft[c])
  BY EndpointParts DEF ReadInv, SocketsFresh, ConnectionMade
<1>2. /\ endpoint' = [endpoint EXCEPT ![e] = "open"]
      /\ query' = [query EXCEPT ![e] = "sent"]
      /\ UNCHANGED <<attemptsLeft, user, busy, unread>>
  BY DEF ConnectionMade
<1>3. NameType'
  BY <1>2 DEF ReadInv, NameType, Phases, SocketStates
<1>4. UsersAsk'
  BY <1>1, <1>2 DEF ReadInv, NameType, Phases, SocketStates, UsersAsk
<1>5. SocketsFresh'
  <2> SUFFICES ASSUME NEW d \in Callers, NEW j \in Sockets(d)
               PROVE  /\ endpoint'[<<d, j>>] = "opening" => query'[<<d, j>>] = "none"
                      /\ j > Attempts[d] - attemptsLeft[d] =>
                           /\ query'[<<d, j>>] = "none"
                           /\ endpoint'[<<d, j>>] \in {"none", "closed"}
    BY <1>2 DEF SocketsFresh
  <2>1. CASE <<d, j>> = e
    BY <1>1, <1>2, <2>1 DEF ReadInv, NameType, Phases, SocketStates
  <2>2. CASE <<d, j>> # e
    <3>1. endpoint'[<<d, j>>] = endpoint[<<d, j>>] /\ query'[<<d, j>>] = query[<<d, j>>]
      BY <1>2, <2>2, EndpointParts DEF ReadInv, NameType, Phases, SocketStates
    <3> QED BY <3>1 DEF ReadInv, SocketsFresh
  <2> QED BY <2>1, <2>2
<1>6. ReadsOwnAnswer'
  BY <1>2 DEF ReadInv, ReadsOwnAnswer
<1> QED BY <1>3, <1>4, <1>5, <1>6 DEF ReadInv

LEMMA TimerKeeps ==
  ASSUME ReadInv, NEW c \in Callers, TimerExpires(c)
  PROVE  ReadInv'
<1>1. SameService
  BY DEF TimerExpires, SameService, serviceVars
<1>2. CASE NewAttempt(c)
  BY <1>1, <1>2, NewAttemptFresh
<1>3. CASE attemptsLeft' = [attemptsLeft EXCEPT ![c] = @ - 1] /\ UNCHANGED endpoint
  <2>1. /\ attemptsLeft' \in [Callers -> Int] /\ endpoint' \in [Endpoints -> SocketStates]
        /\ \A d \in Callers : attemptsLeft'[d] <= attemptsLeft[d]
        /\ \A e \in Endpoints : endpoint'[e] \in {endpoint[e], "closed"}
    BY <1>3 DEF ReadInv, NameType, Phases, SocketStates
  <2> QED BY <1>1, <2>1, EndpointsKeepFresh
<1> QED BY <1>2, <1>3 DEF TimerExpires

LEMMA DatagramKeeps ==
  ASSUME ReadInv, NEW reply, DatagramReceived(reply)
  PROVE  ReadInv'
<1>1. SameService
  BY DEF DatagramReceived, SameService
<1>2. /\ attemptsLeft' \in [Callers -> Int]
      /\ \A d \in Callers : attemptsLeft'[d] <= attemptsLeft[d]
  BY DEF DatagramReceived, ReadInv, NameType, Phases, SocketStates
<1>3. /\ endpoint' \in [Endpoints -> SocketStates]
      /\ \A e \in Endpoints : endpoint'[e] \in {endpoint[e], "closed"}
  <2> DEFINE t == Transport(reply.to[1])
  <2>1. endpoint' = [endpoint EXCEPT ![t] = "closed"] \/ UNCHANGED endpoint
    BY DEF DatagramReceived
  <2> HIDE DEF t
  <2> QED BY <2>1 DEF ReadInv, NameType, Phases, SocketStates
<1> QED BY <1>1, <1>2, <1>3, EndpointsKeepFresh

-----------------------------------------------------------------------------
(* The steps of the service *)

LEMMA UseClientKeeps ==
  ASSUME ReadInv, NEW e \in Endpoints, UseClient(e),
         query[e] \in {"queued", "choosing"}, UNCHANGED <<resolveVars, unread>>
  PROVE  ReadInv'
<1>1. CASE query' = [query EXCEPT ![e] = "choosing"] /\ UNCHANGED <<user, busy>>
  BY <1>1, QueryMoves DEF Phases
<1>2. CASE \E s \in FreeClients :
             /\ query' = [query EXCEPT ![e] = "asked"]
             /\ user' = [user EXCEPT ![s] = e]
             /\ busy' = [busy EXCEPT ![s] = TRUE]
  <2> PICK s \in FreeClients :
             /\ query' = [query EXCEPT ![e] = "asked"]
             /\ user' = [user EXCEPT ![s] = e]
             /\ busy' = [busy EXCEPT ![s] = TRUE]
    BY <1>2
  <2>1. s \in Clients /\ ~busy[s]
    BY DEF FreeClients
  <2> QED BY <2>1, ClientTaken
<1> QED BY <1>1, <1>2 DEF UseClient

LEMMA ClientNextKeeps ==
  ASSUME ReadInv, NEW e \in Endpoints, NEW s \in Clients, ClientNext(e, s)
  PROVE  ReadInv'
<1>1. CASE HeadGood(e, s)
  <2>1. /\ user[s] = e /\ query' = [query EXCEPT ![e] = "body"]
        /\ unread' = [unread EXCEPT ![s] = e] /\ UNCHANGED <<resolveVars, user, busy>>
    BY <1>1 DEF HeadGood, HeadArrives, Uses
  <2>2. /\ unread' \in [Clients -> Endpoints \cup {NoQuery}] /\ unread'[s] = e
        /\ \A t \in Clients \ {s} : unread'[t] = unread[t]
        /\ busy' \in [Clients -> BOOLEAN] /\ \A t \in Clients \ {s} : busy'[t] = busy[t]
    BY <2>1 DEF ReadInv, NameType, Phases, SocketStates
  <2> QED BY <2>1, <2>2, UserMoves DEF Phases
<1>2. CASE HeadRefused(e, s)
  <2>1. /\ user[s] = e /\ query' = [query EXCEPT ![e] = "done"]
        /\ unread' = [unread EXCEPT ![s] = e] /\ UNCHANGED <<resolveVars, busy>>
        /\ user' = [user EXCEPT ![s] = NoQuery]
    BY <1>2 DEF HeadRefused, HeadArrives, Uses, Reply, ReplyTo
  <2>2. /\ unread' \in [Clients -> Endpoints \cup {NoQuery}]
        /\ \A t \in Clients \ {s} : unread'[t] = unread[t]
        /\ busy' \in [Clients -> BOOLEAN] /\ \A t \in Clients \ {s} : busy'[t] = busy[t]
    BY <2>1 DEF ReadInv, NameType, Phases, SocketStates
  <2>3. busy'[s]
    BY <2>1, EndpointParts DEF ReadInv, ReadsOwnAnswer
  <2> QED BY <2>1, <2>2, <2>3, UserMoves DEF Phases
<1>3. CASE BodyRead(e, s) /\ query' = [query EXCEPT ![e] = "done"]
  <2>1. /\ user[s] = e /\ unread' = [unread EXCEPT ![s] = NoQuery]
        /\ user' = [user EXCEPT ![s] = NoQuery]
        /\ busy' = [busy EXCEPT ![s] = FALSE] /\ UNCHANGED resolveVars
    BY <1>3 DEF BodyRead, Uses
  <2>2. /\ unread' \in [Clients -> Endpoints \cup {NoQuery}] /\ unread'[s] = NoQuery
        /\ \A t \in Clients \ {s} : unread'[t] = unread[t]
        /\ busy' \in [Clients -> BOOLEAN] /\ \A t \in Clients \ {s} : busy'[t] = busy[t]
    BY <2>1 DEF ReadInv, NameType, Phases, SocketStates
  <2> QED BY <1>3, <2>1, <2>2, UserMoves DEF Phases
<1>4. CASE RequestFails(e, s)
  <2>1. /\ user[s] = e /\ query' = [query EXCEPT ![e] = "done"]
        /\ UNCHANGED <<resolveVars, busy, unread>>
        /\ user' = [user EXCEPT ![s] = NoQuery]
    BY <1>4 DEF RequestFails, Uses, Reply, ReplyTo
  <2>2. /\ unread' \in [Clients -> Endpoints \cup {NoQuery}]
        /\ \A t \in Clients \ {s} : unread'[t] = unread[t]
        /\ busy' \in [Clients -> BOOLEAN] /\ \A t \in Clients \ {s} : busy'[t] = busy[t]
    BY <2>1 DEF ReadInv, NameType, Phases, SocketStates
  <2>3. busy'[s]
    BY <2>1, EndpointParts DEF ReadInv, ReadsOwnAnswer
  <2> QED BY <2>1, <2>2, <2>3, UserMoves DEF Phases
<1>5. CASE ServerCloses(e, s)
  BY <1>5 DEF ServerCloses, ReadInv, NameType, Phases, SocketStates, UsersAsk, SocketsFresh, ReadsOwnAnswer,
              resolveVars
<1> QED
  <2>1. NothingFound(e, s) => BodyRead(e, s) /\ query' = [query EXCEPT ![e] = "done"]
    BY DEF NothingFound, Reply, ReplyTo
  <2>2. ASSUME NEW data PROVE AliasFound(e, s, data) =>
                                BodyRead(e, s) /\ query' = [query EXCEPT ![e] = "done"]
    BY DEF AliasFound, Reply, ReplyTo
  <2>3. ASSUME NEW data, NEW ttl
        PROVE AddressesFound(e, s, data, ttl) =>
                BodyRead(e, s) /\ query' = [query EXCEPT ![e] = "done"]
    BY DEF AddressesFound, Reply, ReplyTo
  <2> QED BY <1>1, <1>2, <1>3, <1>4, <1>5, <2>1, <2>2, <2>3 DEF ClientNext

LEMMA ServiceKeeps ==
  ASSUME ReadInv, ServiceNext
  PROVE  ReadInv'
<1> PICK e \in Endpoints :
      \/ QueryReceived(e) \/ ResolveBlocked(e) \/ ResolveCached(e)
      \/ ResolveAsks(e) \/ ResolveChooses(e)
      \/ \E s \in Clients : ClientNext(e, s)
  BY DEF ServiceNext
<1>1. CASE QueryReceived(e)
  <2>1. \/ query' = [query EXCEPT ![e] = "done"]
        \/ query' = [query EXCEPT ![e] = "queued"]
    BY <1>1 DEF QueryReceived, ReplyTo
  <2>2. query[e] = "sent" /\ UNCHANGED <<resolveVars, user, busy, unread>>
    BY <1>1 DEF QueryReceived
  <2> QED BY <2>1, <2>2, QueryMoves DEF Phases
<1>2. CASE ResolveBlocked(e) \/ ResolveCached(e)
  <2>1. /\ query[e] = "queued" /\ query' = [query EXCEPT ![e] = "done"]
        /\ UNCHANGED <<resolveVars, user, busy, unread>>
    BY <1>2 DEF ResolveBlocked, ResolveCached, Reply, ReplyTo
  <2> QED BY <2>1, QueryMoves DEF Phases
<1>3. CASE ResolveAsks(e) \/ ResolveChooses(e)
  BY <1>3, UseClientKeeps DEF ResolveAsks, ResolveChooses
<1>4. CASE \E s \in Clients : ClientNext(e, s)
  BY <1>4, ClientNextKeeps
<1> QED BY <1>1, <1>2, <1>3, <1>4

-----------------------------------------------------------------------------
(* A step of a handler starts a lookup or leaves the lookups alone.        *)

HandlerResolves(c) ==
  \E head \in Heads[c] : HeadResolved(c, head) \/ Expose(c, head)

LEMMA HandlerKinds ==
  ASSUME NEW c \in Callers, HandlerNext(c)
  PROVE  \/ HandlerResolves(c)
         \/ UNCHANGED nameVars /\ (UNCHANGED target \/ Resolved(c)
              \/ \E head \in Heads[c] : HeadForwarded(c, head))
<1>1. CASE \E head \in Heads[c] : HeadNext(c, head)
  <2> PICK head \in Heads[c] : HeadNext(c, head)
    BY <1>1
  <2>1. CASE HeadUnclear(c, head) \/ HeadBlocked(c, head)
    BY <2>1 DEF HeadUnclear, HeadBlocked
  <2>2. CASE HeadForwarded(c, head)
    <3>1. UNCHANGED nameVars
      BY <2>2 DEF HeadForwarded
    <3> QED BY <2>2, <3>1
  <2>3. CASE HeadResolved(c, head) \/ Expose(c, head)
    BY <2>3 DEF HandlerResolves
  <2> QED BY <2>1, <2>2, <2>3 DEF HeadNext
<1>2. CASE ConnectNext(c)
  BY <1>2 DEF ConnectNext, ClientLeavesEarly, Unresolvable, NothingToExpose,
              ConnectFails, Connected, HandlerEnds, Resolved
<1>3. CASE \E x \in Sides : PumpNext(c, x)
  BY <1>3 DEF PumpNext, Forward, Drained, DrainFails, ReadFails, EndOfStream
<1> QED BY <1>1, <1>2, <1>3 DEF HandlerNext

LEMMA PeersKeep ==
  ASSUME NEW c \in Callers, NEW x \in Sides, PeerNext(c, x)
  PROVE  UNCHANGED <<nameVars, target>>
  BY DEF PeerNext, PeerSends, PeerEnds, PeerBreaks

LEMMA NextKinds ==
  ASSUME [Next]_vars
  PROVE  \/ \E c \in Callers : HandlerResolves(c)
         \/ /\ UNCHANGED nameVars
            /\ \/ UNCHANGED target
               \/ \E c \in Callers : \/ Resolved(c)
                                     \/ \E head \in Heads[c] : HeadForwarded(c, head)
         \/ \E c \in Callers : ResolveNext(c) /\ UNCHANGED target
         \/ ServiceNext /\ UNCHANGED target
  BY HandlerKinds, PeersKeep DEF Next, vars, handlerVars

LEMMA StutterKeeps ==
  ASSUME ReadInv, UNCHANGED nameVars
  PROVE  ReadInv'
  BY DEF ReadInv, NameType, UsersAsk, SocketsFresh, ReadsOwnAnswer, nameVars,
         resolveVars, serviceVars

(* A request reads the answer to its own query, whatever fails on the      *)
(* connections of hood-name-service.py and however its tasks interleave.   *)
THEOREM AnswersAreNotMixedUp == Spec => []ReadsOwnAnswer
<1>1. Init => ReadInv
  <2> SUFFICES ASSUME Init PROVE ReadInv
    OBVIOUS
  <2>1. NameType
    BY NameServiceAssumption DEF Init, NameInit, NameType, Phases, SocketStates
  <2>2. UsersAsk /\ ReadsOwnAnswer
    BY DEF Init, NameInit, UsersAsk, ReadsOwnAnswer
  <2>3. SocketsFresh
    BY EndpointParts DEF Init, NameInit, SocketsFresh
  <2> QED BY <2>1, <2>2, <2>3 DEF ReadInv
<1>2. ReadInv /\ [Next]_vars => ReadInv'
  <2> SUFFICES ASSUME ReadInv, [Next]_vars PROVE ReadInv'
    OBVIOUS
  <2>1. CASE \E c \in Callers : HandlerResolves(c)
    BY <2>1, ResolveKeeps DEF HandlerResolves, HeadResolved, Expose
  <2>2. CASE UNCHANGED nameVars
    BY <2>2, StutterKeeps
  <2>3. CASE \E c \in Callers : ResolveNext(c)
    BY <2>3, ConnectionMadeKeeps, TimerKeeps, DatagramKeeps DEF ResolveNext
  <2>4. CASE ServiceNext
    BY <2>4, ServiceKeeps
  <2> QED BY <2>1, <2>2, <2>3, <2>4, NextKinds
<1>3. ReadInv => ReadsOwnAnswer
  BY DEF ReadInv
<1> QED BY <1>1, <1>2, <1>3, PTL DEF Spec

-----------------------------------------------------------------------------
(* The strengthening of NeverToBlocked: what is cached, on its way to a    *)
(* caller, or the result of a lookup is not blacklisted.                   *)

Good(data) == data \subseteq Addresses \ BlockedAddresses

CleanInv ==
  /\ \A n \in DOMAIN cache : Good(cache[n])
  /\ \A r \in replies : Good(r.data)
  /\ result \in [Callers -> SUBSET Addresses]
  /\ \A c \in Callers \ Exposed : Good(result[c])
  /\ target \in [Callers -> Addresses \cup {NoName}]
  /\ NeverToBlocked

SameClean == UNCHANGED <<cache, replies, result, target>>

(* A caller is given nothing, the address it asked for, or a reply.        *)
LEMMA ResultKeeps ==
  ASSUME CleanInv, NEW c \in Callers, NEW r \in SUBSET Addresses,
         Good(r) \/ c \in Exposed, SetResult(c, r),
         replies' \subseteq replies, UNCHANGED <<cache, target>>
  PROVE  CleanInv'
<1>1. result' = [result EXCEPT ![c] = r]
  BY DEF SetResult
<1> QED BY <1>1 DEF CleanInv, NeverToBlocked

LEMMA ReplyKeeps ==
  ASSUME CleanInv, NEW e, NEW to, NEW data, Good(data), ReplyTo(to, e, data),
         UNCHANGED <<result, target>>,
         \A n \in DOMAIN cache' : cache'[n] = data \/ (n \in DOMAIN cache /\ cache'[n] = cache[n])
  PROVE  CleanInv'
<1>1. \A r \in replies' : Good(r.data)
  BY DEF ReplyTo, CleanInv
<1>2. \A n \in DOMAIN cache' : Good(cache'[n])
  BY DEF CleanInv
<1> QED BY <1>1, <1>2 DEF CleanInv, NeverToBlocked

LEMMA CleanStutter ==
  ASSUME CleanInv, SameClean
  PROVE  CleanInv'
  BY DEF CleanInv, SameClean, NeverToBlocked

LEMMA NothingIsGood == Good({})
  BY DEF Good

LEMMA CachedKinds ==
  ASSUME NEW name, NEW addresses, NEW ttl
  PROVE  \/ Cached(name, addresses, ttl) =
              [n \in DOMAIN cache \cup {name} |-> IF n = name THEN addresses ELSE cache[n]]
         \/ Cached(name, addresses, ttl) = cache
<1>1. CASE (ttl \/ addresses = {}) /\ Cardinality(DOMAIN cache) < CacheLimit
  BY <1>1, Zenon DEF Cached
<1>2. CASE ~((ttl \/ addresses = {}) /\ Cardinality(DOMAIN cache) < CacheLimit)
  BY <1>2, Zenon DEF Cached
<1> QED BY <1>1, <1>2

LEMMA ClientClean ==
  ASSUME CleanInv, NEW e \in Endpoints, NEW s \in Clients, ClientNext(e, s),
         UNCHANGED target
  PROVE  CleanInv'
<1>1. CASE HeadGood(e, s) \/ ServerCloses(e, s)
  BY <1>1, CleanStutter DEF HeadGood, ServerCloses, SameClean, resolveVars
<1>2. CASE HeadRefused(e, s) \/ RequestFails(e, s) \/ NothingFound(e, s)
  <2>1. ReplyTo(addr, e, {}) /\ UNCHANGED <<cache, result>>
    BY <1>2 DEF HeadRefused, RequestFails, NothingFound, BodyRead, Reply, resolveVars
  <2> QED BY <2>1, NothingIsGood, ReplyKeeps
<1>3. ASSUME NEW data, AliasFound(e, s, data) PROVE CleanInv'
  <2>1. UNCHANGED <<cache, result>> /\ (ReplyTo(addr, e, {}) \/ UNCHANGED replies)
    BY <1>3 DEF AliasFound, BodyRead, Reply, resolveVars
  <2>2. CASE ReplyTo(addr, e, {})
    BY <2>1, <2>2, NothingIsGood, ReplyKeeps
  <2>3. CASE UNCHANGED replies
    BY <2>1, <2>3, CleanStutter DEF SameClean
  <2> QED BY <2>1, <2>2, <2>3
<1>4. ASSUME NEW data, NEW ttl, AddressesFound(e, s, data, ttl) PROVE CleanInv'
  <2>1. /\ ReplyTo(addr, e, Usable(data)) /\ UNCHANGED result
        /\ cache' = Cached(asked[e[1]], Usable(data), ttl)
    BY <1>4 DEF AddressesFound, BodyRead, Reply, resolveVars
  <2>2. Good(Usable(data))
    BY DEF Good, Usable
  <2>3. \A n \in DOMAIN cache' :
          cache'[n] = Usable(data) \/ (n \in DOMAIN cache /\ cache'[n] = cache[n])
    <3> DEFINE name == asked[e[1]]
    <3> DEFINE kept == Usable(data)
    <3>1. \/ cache' = [n \in DOMAIN cache \cup {name} |->
                         IF n = name THEN kept ELSE cache[n]]
          \/ cache' = cache
      <4> HIDE DEF name, kept
      <4>1. cache' = Cached(name, kept, ttl)
        BY <2>1 DEF name, kept
      <4> QED BY <4>1, CachedKinds, Zenon
    <3> HIDE DEF name, kept
    <3>2. \A n \in DOMAIN cache' :
            cache'[n] = kept \/ (n \in DOMAIN cache /\ cache'[n] = cache[n])
      BY <3>1
    <3> QED BY <3>2 DEF kept
  <2> QED BY <2>1, <2>2, <2>3, ReplyKeeps
<1> QED BY <1>1, <1>2, <1>3, <1>4 DEF ClientNext

LEMMA ServiceClean ==
  ASSUME CleanInv, ServiceNext, UNCHANGED target
  PROVE  CleanInv'
<1> PICK e \in Endpoints :
      \/ QueryReceived(e) \/ ResolveBlocked(e) \/ ResolveCached(e)
      \/ ResolveAsks(e) \/ ResolveChooses(e)
      \/ \E s \in Clients : ClientNext(e, s)
  BY DEF ServiceNext
<1>1. CASE QueryReceived(e)
  <2>1. /\ UNCHANGED <<cache, result>>
        /\ ReplyTo(e, e, {}) \/ UNCHANGED replies
    BY <1>1 DEF QueryReceived, resolveVars
  <2>2. CASE ReplyTo(e, e, {})
    BY <2>1, <2>2, NothingIsGood, ReplyKeeps
  <2>3. CASE UNCHANGED replies
    BY <2>1, <2>3, CleanStutter DEF SameClean
  <2> QED BY <2>1, <2>2, <2>3
<1>2. CASE ResolveBlocked(e)
  <2>1. ReplyTo(addr, e, {}) /\ UNCHANGED <<cache, result>>
    BY <1>2 DEF ResolveBlocked, Reply, resolveVars
  <2> QED BY <2>1, NothingIsGood, ReplyKeeps
<1>3. CASE ResolveCached(e)
  <2> DEFINE data == cache[asked[e[1]]]
  <2>1. ReplyTo(addr, e, data) /\ UNCHANGED <<cache, result>>
    BY <1>3 DEF ResolveCached, Reply, resolveVars
  <2>2. Good(data)
    BY <1>3 DEF ResolveCached, CleanInv
  <2> HIDE DEF data
  <2> QED BY <2>1, <2>2, ReplyKeeps
<1>4. CASE ResolveAsks(e)
  <2>1. /\ UNCHANGED <<replies, result>>
        /\ \A n \in DOMAIN cache' : n \in DOMAIN cache /\ cache'[n] = cache[n]
    BY <1>4 DEF ResolveAsks, resolveVars
  <2> QED BY <2>1 DEF CleanInv, NeverToBlocked
<1>5. CASE ResolveChooses(e)
  BY <1>5, CleanStutter DEF ResolveChooses, SameClean, resolveVars
<1>6. CASE \E s \in Clients : ClientNext(e, s)
  BY <1>6, ClientClean
<1> QED BY <1>1, <1>2, <1>3, <1>4, <1>5, <1>6

LEMMA ResolverClean ==
  ASSUME CleanInv, NEW c \in Callers, ResolveNext(c), UNCHANGED target
  PROVE  CleanInv'
<1>1. CASE \E k \in Sockets(c) : ConnectionMade(<<c, k>>)
  BY <1>1, CleanStutter DEF ConnectionMade, SameClean
<1>2. CASE TimerExpires(c)
  <2>1. UNCHANGED <<cache, replies>> /\ (UNCHANGED result \/ SetResult(c, {}))
    BY <1>2 DEF TimerExpires, serviceVars
  <2> QED BY <2>1, NothingIsGood, ResultKeeps, CleanStutter DEF SameClean
<1>3. ASSUME NEW reply \in replies, reply.to[1] = c, DatagramReceived(reply)
      PROVE  CleanInv'
  <2>1. /\ UNCHANGED cache /\ replies' \subseteq replies
        /\ UNCHANGED result \/ SetResult(c, Decoded(reply.data))
    BY <1>3 DEF DatagramReceived
  <2>2. Good(Decoded(reply.data)) /\ Decoded(reply.data) \in SUBSET Addresses
    BY DEF CleanInv, Decoded, Good
  <2>3. CASE SetResult(c, Decoded(reply.data))
    BY <2>1, <2>2, <2>3, ResultKeeps
  <2>4. CASE UNCHANGED result
    BY <2>1, <2>4 DEF CleanInv, NeverToBlocked
  <2> QED BY <2>1, <2>3, <2>4
<1> QED BY <1>1, <1>2, <1>3 DEF ResolveNext

LEMMA HandlerClean ==
  ASSUME CleanInv, NEW c \in Callers, NEW head \in Heads[c],
         HeadResolved(c, head) \/ Expose(c, head)
  PROVE  CleanInv'
<1>1. /\ Resolve(c, head[1]) /\ UNCHANGED <<cache, replies, target>>
      /\ c \in Exposed \/ ~Blocked(head[1])
  BY DEF HeadResolved, Expose, serviceVars
<1>2. CASE head[1] \in Addresses
  <2>1. SetResult(c, {head[1]}) /\ {head[1]} \in SUBSET Addresses
    BY <1>1, <1>2 DEF Resolve
  <2>2. Good({head[1]}) \/ c \in Exposed
    BY <1>1, <1>2 DEF Good, Blocked
  <2> QED BY <1>1, <2>1, <2>2, ResultKeeps
<1>3. CASE head[1] \notin Addresses
  BY <1>1, <1>3, CleanStutter DEF Resolve, SameClean
<1> QED BY <1>2, <1>3

(* The http handler connects to no blacklisted address, through the        *)
(* literal, the lookup, the cache and other callers' replies alike.        *)
THEOREM BlockedStaysBlocked == Spec => []NeverToBlocked
<1>1. Init => CleanInv
  <2> SUFFICES ASSUME Init PROVE CleanInv
    OBVIOUS
  <2>1. \A n \in DOMAIN cache : Good(cache[n])
    BY DEF Init, NameInit
  <2> QED BY <2>1, NameServiceAssumption, HandlerAssumption
          DEF Init, NameInit, CleanInv, NeverToBlocked, Good
<1>2. CleanInv /\ [Next]_vars => CleanInv'
  <2> SUFFICES ASSUME CleanInv, [Next]_vars PROVE CleanInv'
    OBVIOUS
  <2>1. CASE \E c \in Callers : HandlerResolves(c)
    BY <2>1, HandlerClean DEF HandlerResolves
  <2>2. CASE UNCHANGED nameVars /\ UNCHANGED target
    BY <2>2, CleanStutter DEF SameClean, nameVars, resolveVars, serviceVars
  <2>3. ASSUME UNCHANGED nameVars, NEW c \in Callers, Resolved(c) PROVE CleanInv'
    <3>1. PICK address \in result[c] : target' = [target EXCEPT ![c] = address]
      BY <2>3 DEF Resolved
    <3>2. address \in Addresses /\ (c \notin Exposed => address \notin BlockedAddresses)
      BY DEF CleanInv, Good
    <3>3. UNCHANGED <<cache, replies, result>>
      BY <2>3 DEF nameVars, resolveVars, serviceVars
    <3> QED BY <3>1, <3>2, <3>3 DEF CleanInv, NeverToBlocked
  <2>4. ASSUME UNCHANGED nameVars, NEW c \in Callers, NEW head \in Heads[c],
               HeadForwarded(c, head)
        PROVE  CleanInv'
    <3>1. UNCHANGED <<cache, replies, result>>
      BY <2>4 DEF nameVars, resolveVars, serviceVars
    <3>2. target' = [target EXCEPT ![c] = ForwardTo]
      BY <2>4 DEF HeadForwarded
    <3> QED BY <3>1, <3>2, HandlerAssumption DEF CleanInv, NeverToBlocked
  <2>5. CASE \E c \in Callers : ResolveNext(c) /\ UNCHANGED target
    BY <2>5, ResolverClean
  <2>6. CASE ServiceNext /\ UNCHANGED target
    BY <2>6, ServiceClean
  <2> QED BY <2>1, <2>2, <2>3, <2>4, <2>5, <2>6, NextKinds
<1>3. CleanInv => NeverToBlocked
  BY DEF CleanInv
<1> QED BY <1>1, <1>2, <1>3, PTL DEF Spec

-----------------------------------------------------------------------------
(* The strengthening of ClosedAfterWholeStream: before the connections are *)
(* closed, a forwarder that reads has passed on all it has taken.          *)

StreamType ==
  /\ closed \in [Callers -> BOOLEAN]
  /\ sent \in [Callers -> [Sides -> Int]]
  /\ taken \in [Callers -> [Sides -> Int]]
  /\ passed \in [Callers -> [Sides -> Int]]
  /\ fin \in [Callers -> [Sides -> BOOLEAN]]
  /\ broken \in [Callers -> [Sides -> BOOLEAN]]
  /\ pump \in [Callers -> [Sides -> {"none", "reading", "draining", "ended"}]]
  /\ phase \in [Callers -> {"reading", "resolving", "connecting", "forwarding",
                             "ended", "left"}]

(* Nothing is sent, taken or closed before the forwarders run.             *)
Unstarted(c) ==
  /\ ~closed[c]
  /\ \A x \in Sides : taken[c][x] = passed[c][x]

Relaying(c) ==
  \A x \in Sides :
    /\ pump[c][x] = "reading" => passed[c][x] = taken[c][x]
    /\ pump[c][x] = "draining" => passed[c][x] = taken[c][x] \/ broken[c][Other(x)]

WholeStream(c) == \E x \in Sides : fin[c][x] /\ passed[c][x] = sent[c][x]

StreamOK(c) ==
  /\ phase[c] \in {"reading", "resolving", "connecting"} => Unstarted(c)
  /\ phase[c] = "forwarding" => IF closed[c] THEN WholeStream(c) ELSE Relaying(c)

StreamInv == StreamType /\ \A c \in Callers : StreamOK(c)

LEMMA OtherSide == \A x \in Sides : Other(x) \in Sides /\ Other(x) # x
  BY DEF Sides, Other

(* A step that changes one connection.                                     *)
OnlyThis(c) ==
  \A d \in Callers \ {c} :
    /\ phase'[d] = phase[d] /\ closed'[d] = closed[d] /\ pump'[d] = pump[d]
    /\ sent'[d] = sent[d] /\ taken'[d] = taken[d] /\ passed'[d] = passed[d]
    /\ fin'[d] = fin[d] /\ broken'[d] = broken[d]

LEMMA OthersKeep ==
  ASSUME StreamInv, NEW c \in Callers, OnlyThis(c), StreamType', StreamOK(c)'
  PROVE  StreamInv'
<1>1. ASSUME NEW d \in Callers \ {c} PROVE StreamOK(d)'
  BY <1>1 DEF StreamInv, OnlyThis, StreamOK, Unstarted, Relaying, WholeStream
<1> QED BY <1>1 DEF StreamInv

SameStreams == UNCHANGED <<phase, streamVars>>

LEMMA StreamStutter ==
  ASSUME StreamInv, SameStreams
  PROVE  StreamInv'
  BY DEF StreamInv, SameStreams, streamVars, StreamType, StreamOK, Unstarted,
         Relaying, WholeStream

(* Up to the connection.                                                   *)
LEMMA EarlySteps ==
  ASSUME StreamInv, NEW c \in Callers,
         NEW to \in {"resolving", "connecting", "ended", "left"}, Goes(c, to),
         UNCHANGED <<sent, taken, passed, fin, broken, pump>>,
         \/ UNCHANGED closed /\ phase[c] \in {"reading", "resolving", "connecting"}
         \/ closed' = [closed EXCEPT ![c] = TRUE] /\ to = "ended"
         \/ UNCHANGED closed /\ to = "ended"
  PROVE  StreamInv'
<1>1. StreamType' /\ OnlyThis(c) /\ phase'[c] = to
  BY DEF StreamInv, StreamType, Goes, OnlyThis
<1>2. StreamOK(c)'
  BY <1>1 DEF StreamInv, StreamOK, Unstarted
<1> QED BY <1>1, <1>2, OthersKeep

LEMMA ConnectedStreams ==
  ASSUME StreamInv, NEW c \in Callers, Connected(c)
  PROVE  StreamInv'
<1>1. /\ phase'[c] = "forwarding" /\ ~closed'[c]
      /\ \A x \in Sides : pump'[c][x] = "reading" /\ passed'[c][x] = taken'[c][x]
  BY DEF StreamInv, StreamType, StreamOK, Unstarted, Connected, Goes
<1>2. StreamType' /\ OnlyThis(c)
  BY DEF StreamInv, StreamType, Connected, Goes, OnlyThis
<1>3. StreamOK(c)'
  BY <1>1 DEF StreamOK, Relaying
<1> QED BY <1>2, <1>3, OthersKeep

(* The forwarders.                                                         *)
LEMMA ForwardStreams ==
  ASSUME StreamInv, NEW c \in Callers, NEW x \in Sides, Forward(c, x)
  PROVE  StreamInv'
<1> PICK n \in 1..(sent[c][x] - taken[c][x]) :
       /\ taken' = [taken EXCEPT ![c][x] = @ + n]
       /\ passed' = IF closed[c] \/ broken[c][Other(x)] THEN passed
                    ELSE [passed EXCEPT ![c][x] = @ + n]
  BY DEF Forward
<1>1. /\ phase[c] = "forwarding" /\ pump[c][x] = "reading" /\ n \in Int
      /\ pump' = [pump EXCEPT ![c][x] = "draining"]
      /\ UNCHANGED <<phase, sent, fin, broken, closed>>
  BY DEF Forward, At, PumpGoes
<1>2. taken' \in [Callers -> [Sides -> Int]] /\ passed' \in [Callers -> [Sides -> Int]]
  BY <1>1 DEF StreamInv, StreamType
<1>3. StreamType'
  BY <1>1, <1>2 DEF StreamInv, StreamType
<1>4. OnlyThis(c)
  BY <1>1 DEF StreamInv, StreamType, OnlyThis
<1>5. StreamOK(c)'
  <2>1. CASE closed[c]
    <3>1. UNCHANGED passed
      BY <2>1
    <3> QED BY <1>1, <2>1, <3>1 DEF StreamInv, StreamOK, WholeStream
  <2>2. CASE ~closed[c]
    <3>1. ASSUME NEW y \in Sides, y # x
          PROVE  pump'[c][y] = pump[c][y] /\ passed'[c][y] = passed[c][y] /\ taken'[c][y] = taken[c][y]
      BY <1>1, <3>1 DEF StreamInv, StreamType
    <3>2. /\ pump'[c][x] = "draining"
          /\ taken'[c][x] = taken[c][x] + n
          /\ ~broken[c][Other(x)] => passed'[c][x] = passed[c][x] + n
      BY <1>1, <2>2 DEF StreamInv, StreamType
    <3>3. passed[c][x] = taken[c][x] /\ Relaying(c)
      BY <1>1, <2>2 DEF StreamInv, StreamOK, Relaying
    <3>4. Relaying(c)'
      <4>1. ASSUME NEW y \in Sides
            PROVE  /\ pump'[c][y] = "reading" => passed'[c][y] = taken'[c][y]
                   /\ pump'[c][y] = "draining" =>
                        passed'[c][y] = taken'[c][y] \/ broken'[c][Other(y)]
        BY <1>1, <3>1, <3>2, <3>3 DEF Relaying
      <4> QED BY <4>1 DEF Relaying
    <3> QED BY <1>1, <2>2, <3>4 DEF StreamOK
  <2> QED BY <2>1, <2>2
<1> QED BY <1>3, <1>4, <1>5, OthersKeep

(* A forwarder goes on or ends; what it has passed on stays.               *)
LEMMA PumpStreams ==
  ASSUME StreamInv, NEW c \in Callers, NEW x \in Sides,
         NEW to \in {"reading", "ended"}, PumpGoes(c, x, to),
         UNCHANGED <<phase, sent, taken, passed, fin, broken, closed>>,
         to = "reading" /\ ~closed[c] /\ phase[c] = "forwarding"
           => passed[c][x] = taken[c][x]
  PROVE  StreamInv'
<1>1. StreamType'
  BY DEF StreamInv, StreamType, PumpGoes
<1>2. OnlyThis(c) /\ pump'[c][x] = to /\ \A y \in Sides \ {x} : pump'[c][y] = pump[c][y]
  BY DEF StreamInv, StreamType, OnlyThis, PumpGoes
<1>3. phase[c] = "forwarding" /\ ~closed[c] => Relaying(c)'
  <2> SUFFICES ASSUME phase[c] = "forwarding", ~closed[c] PROVE Relaying(c)'
    OBVIOUS
  <2>1. Relaying(c)
    BY DEF StreamInv, StreamOK
  <2>2. ASSUME NEW y \in Sides
        PROVE  /\ pump'[c][y] = "reading" => passed[c][y] = taken[c][y]
               /\ pump'[c][y] = "draining" => passed[c][y] = taken[c][y] \/ broken[c][Other(y)]
    BY <1>2, <2>1 DEF Relaying
  <2> QED BY <2>2 DEF Relaying
<1>4. StreamOK(c)'
  BY <1>3 DEF StreamInv, StreamOK, WholeStream, Unstarted
<1> QED BY <1>1, <1>2, <1>4, OthersKeep

LEMMA EndStreams ==
  ASSUME StreamInv, NEW c \in Callers, NEW x \in Sides, EndOfStream(c, x)
  PROVE  StreamInv'
<1>1. /\ phase[c] = "forwarding" /\ pump[c][x] = "reading"
      /\ taken[c][x] = sent[c][x] /\ (fin[c][x] \/ closed[c])
      /\ pump' = [pump EXCEPT ![c][x] = "ended"]
      /\ closed' = [closed EXCEPT ![c] = TRUE]
      /\ UNCHANGED <<phase, sent, taken, passed, fin, broken>>
  BY DEF EndOfStream, At, PumpGoes
<1>2. StreamType' /\ OnlyThis(c) /\ closed'[c]
  BY <1>1 DEF StreamInv, StreamType, OnlyThis
<1>3. WholeStream(c)
  <2>1. CASE closed[c]
    BY <1>1, <2>1 DEF StreamInv, StreamOK
  <2>2. CASE ~closed[c]
    BY <1>1, <2>2 DEF StreamInv, StreamOK, Relaying, WholeStream
  <2> QED BY <2>1, <2>2
<1>4. StreamOK(c)'
  BY <1>1, <1>2, <1>3 DEF StreamOK, WholeStream
<1> QED BY <1>2, <1>4, OthersKeep

LEMMA PumpKeeps ==
  ASSUME StreamInv, NEW c \in Callers, NEW x \in Sides, PumpNext(c, x)
  PROVE  StreamInv'
<1>1. CASE Forward(c, x)
  BY <1>1, ForwardStreams
<1>2. CASE Drained(c, x)
  <2>1. ~closed[c] /\ phase[c] = "forwarding" => passed[c][x] = taken[c][x]
    BY <1>2 DEF Drained, At, StreamInv, StreamOK, Relaying
  <2> QED BY <1>2, <2>1, PumpStreams DEF Drained
<1>3. CASE DrainFails(c, x) \/ ReadFails(c, x)
  <2>1. /\ PumpGoes(c, x, "ended")
        /\ UNCHANGED <<phase, sent, taken, passed, fin, broken, closed>>
    BY <1>3 DEF DrainFails, ReadFails
  <2> QED BY <2>1, PumpStreams
<1>4. CASE EndOfStream(c, x)
  BY <1>4, EndStreams
<1> QED BY <1>1, <1>2, <1>3, <1>4 DEF PumpNext

(* A side sends more, ends or breaks only while the connection is open.    *)
LEMMA PeerStreams ==
  ASSUME StreamInv, NEW c \in Callers, NEW x \in Sides, PeerNext(c, x)
  PROVE  StreamInv'
<1>1. phase[c] = "forwarding" /\ ~closed[c]
  BY DEF PeerNext, PeerSends, PeerEnds, PeerBreaks, Open
<1>2. UNCHANGED <<phase, taken, passed, pump, closed>>
  BY DEF PeerNext, PeerSends, PeerEnds, PeerBreaks
<1>3. Relaying(c)
  BY <1>1 DEF StreamInv, StreamOK
<1>4. /\ StreamType' /\ OnlyThis(c)
      /\ \A y \in Sides : broken[c][y] => broken'[c][y]
  <2>1. CASE PeerSends(c, x)
    BY <2>1 DEF PeerSends, StreamInv, StreamType, OnlyThis
  <2>2. CASE PeerEnds(c, x)
    BY <2>2 DEF PeerEnds, StreamInv, StreamType, OnlyThis
  <2>3. CASE PeerBreaks(c, x)
    BY <2>3 DEF PeerBreaks, StreamInv, StreamType, OnlyThis
  <2> QED BY <2>1, <2>2, <2>3 DEF PeerNext
<1>5. Relaying(c)'
  BY <1>2, <1>3, <1>4, OtherSide DEF Relaying
<1>6. StreamOK(c)'
  BY <1>1, <1>2, <1>5 DEF StreamOK
<1> QED BY <1>4, <1>6, OthersKeep

LEMMA HandlerStreams ==
  ASSUME StreamInv, NEW c \in Callers, HandlerNext(c)
  PROVE  StreamInv'
<1>1. ASSUME NEW head, HeadNext(c, head) PROVE StreamInv'
  <2>1. \/ /\ \E to \in {"resolving", "connecting", "left"} : Goes(c, to)
           /\ UNCHANGED <<sent, taken, passed, fin, broken, pump, closed>>
           /\ phase[c] = "reading"
        \/ /\ Goes(c, "ended") /\ closed' = [closed EXCEPT ![c] = TRUE]
           /\ UNCHANGED <<sent, taken, passed, fin, broken, pump>>
    BY <1>1 DEF HeadNext, HeadUnclear, HeadBlocked, HeadForwarded, HeadResolved,
                Expose, Reads, streamVars
  <2> QED BY <2>1, EarlySteps
<1>2. CASE ConnectNext(c)
  <2>1. CASE ClientLeavesEarly(c)
    BY <2>1, StreamStutter DEF ClientLeavesEarly, SameStreams
  <2>2. CASE Unresolvable(c) \/ HandlerEnds(c)
    BY <2>2, EarlySteps DEF Unresolvable, HandlerEnds, streamVars
  <2>3. CASE NothingToExpose(c) \/ Resolved(c) \/ ConnectFails(c)
    <3>1. /\ \E to \in {"connecting", "left"} : Goes(c, to)
          /\ UNCHANGED <<sent, taken, passed, fin, broken, pump, closed>>
          /\ phase[c] \in {"resolving", "connecting"}
      BY <2>3 DEF NothingToExpose, Resolved, ConnectFails, streamVars
    <3> QED BY <3>1, EarlySteps
  <2>4. CASE Connected(c)
    BY <2>4, ConnectedStreams
  <2> QED BY <1>2, <2>1, <2>2, <2>3, <2>4 DEF ConnectNext
<1>3. CASE \E x \in Sides : PumpNext(c, x)
  BY <1>3, PumpKeeps
<1> QED BY <1>1, <1>2, <1>3 DEF HandlerNext

(* Whatever fails in whatever order, the connections are closed only when  *)
(* one of the streams has been passed on whole.                            *)
THEOREM StreamsAreNotCut == Spec => []ClosedAfterWholeStream
<1>1. Init => StreamInv
  <2> SUFFICES ASSUME Init PROVE StreamInv
    OBVIOUS
  <2>1. StreamType
    BY DEF Init, StreamType, PerSide
  <2>2. \A c \in Callers : phase[c] = "reading" /\ Unstarted(c)
    BY DEF Init, Unstarted, PerSide
  <2> QED BY <2>1, <2>2 DEF StreamInv, StreamOK
<1>2. StreamInv /\ [Next]_vars => StreamInv'
  <2> SUFFICES ASSUME StreamInv, [Next]_vars PROVE StreamInv'
    OBVIOUS
  <2>1. ASSUME NEW c \in Callers, HandlerNext(c) PROVE StreamInv'
    BY <2>1, HandlerStreams
  <2>2. ASSUME NEW c \in Callers, NEW x \in Sides, PeerNext(c, x) PROVE StreamInv'
    BY <2>2, PeerStreams
  <2>3. CASE UNCHANGED handlerVars
    BY <2>3, StreamStutter DEF handlerVars, SameStreams, streamVars
  <2> QED BY <2>1, <2>2, <2>3 DEF Next, vars
<1>3. StreamInv => ClosedAfterWholeStream
  BY DEF StreamInv, StreamOK, WholeStream, ClosedAfterWholeStream
<1> QED BY <1>1, <1>2, <1>3, PTL DEF Spec

=============================================================================
