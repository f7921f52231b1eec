----------------------- MODULE CertificateCheckProofs -----------------------
(***************************************************************************)
(* Theorems about CertificateCheck, for every value of its constants.      *)
(***************************************************************************)
EXTENDS CertificateCheck, FiniteSetTheorems, TLAPS

-----------------------------------------------------------------------------
(* What the helpers of the actions do *)

LEMMA AnswerEffect ==
  ASSUME TypeOK, NEW R \in SUBSET Requests, NEW E \in SUBSET Endpoint,
         Answer(R, E)
  PROVE  /\ answers' \in [Requests -> Seq(SUBSET Endpoint)]
         /\ \A r \in R : answers'[r] = Append(answers[r], E)
         /\ \A r \in Requests \ R : answers'[r] = answers[r]
BY DEF TypeOK, Answer

LEMMA DeliverEffect ==
  ASSUME TypeOK, NEW n \in Names, NEW E \in SUBSET Endpoint, Deliver(n, E)
  PROVE  /\ answers' \in [Requests -> Seq(SUBSET Endpoint)]
         /\ \A r \in pending[n] : answers'[r] = Append(answers[r], E)
         /\ \A r \in Requests \ pending[n] : answers'[r] = answers[r]
         /\ pending' \in [Names -> SUBSET Requests]
         /\ pending'[n] = {}
         /\ \A m \in Names \ {n} : pending'[m] = pending[m]
<1>1. pending[n] \in SUBSET Requests
  BY DEF TypeOK
<1>2. Answer(pending[n], E) /\ pending' = [pending EXCEPT ![n] = {}]
  BY DEF Deliver
<1> QED
  BY <1>1, <1>2, AnswerEffect DEF TypeOK

LEMMA RememberEffect ==
  ASSUME TypeOK, NEW n \in Names, NEW e \in Endpoint, Remember(n, e)
  PROVE  /\ trusted' \in [Names -> SUBSET Endpoint]
         /\ created' \in [Names -> 0..MaxTime]
         /\ trusted'[n] = trusted[n] \cup {e}
         /\ created'[n] = now
         /\ \A m \in Names \ {n} : \/ trusted'[m] = {}
                                   \/ /\ trusted'[m] = trusted[m]
                                      /\ created'[m] = created[m]
BY BoundAssumption DEF TypeOK, Remember

LEMMA ForgetEffect ==
  ASSUME TypeOK, NEW n \in Names, DropStale(n)
  PROVE  /\ trusted' \in [Names -> SUBSET Endpoint]
         /\ created' \in [Names -> 0..MaxTime]
         /\ trusted'[n] = {}
         /\ \A m \in Names \ {n} : /\ trusted'[m] = trusted[m]
                                   /\ created'[m] = created[m]
<1>1. CASE n \in Cached
  <2>1. /\ trusted' = [trusted EXCEPT ![n] = {}]
        /\ created' = [created EXCEPT ![n] = 0]
    BY <1>1 DEF DropStale, Forget
  <2> QED
    BY <2>1, BoundAssumption DEF TypeOK
<1>2. CASE n \notin Cached
  <2>1. trusted' = trusted /\ created' = created /\ trusted[n] = {}
    BY <1>2 DEF DropStale, cacheVars, Cached
  <2> QED
    BY <2>1 DEF TypeOK
<1> QED
  BY <1>1, <1>2

LEMMA AfterCallbackEffect ==
  ASSUME TypeOK, NEW l \in lookups, NEW more \in BOOLEAN
  PROVE  AfterCallback(l, more) \subseteq Lookup
<1>1. l \in Lookup
  BY DEF TypeOK
<1>2. l.calls \in 0..(MaxCallbacks - 1)
  BY <1>1 DEF Lookup
<1>3. l.calls + 1 < MaxCallbacks => [l EXCEPT !.calls = @ + 1] \in Lookup
  BY <1>1, <1>2, BoundAssumption DEF Lookup
<1> QED
  BY <1>3 DEF AfterCallback, TypeOK

LEMMA CreateWorkerType ==
  ASSUME TypeOK, NEW l \in lookups, NEW E \in SUBSET Endpoint
  PROVE  CreateWorker(l, E) \in Worker
<1>1. l \in Lookup
  BY DEF TypeOK
<1>2. Cardinality(E) \in Int
  BY FS_Subset, FS_CardinalityType, EndpointAssumption
<1>3. l.calls + 1 \in 1..MaxCallbacks
  BY <1>1, BoundAssumption DEF Lookup
<1>4. [e \in Endpoint |-> IF e \in E THEN Connecting ELSE Absent]
        \in [Endpoint -> Phase]
  BY DEF Phase
<1> QED
  BY <1>1, <1>2, <1>3, <1>4 DEF Lookup, Worker, CreateWorker

LEMMA MovedToType ==
  ASSUME NEW w \in Worker, NEW e \in Endpoint, NEW phase \in Phase
  PROVE  /\ MovedTo(w, e, phase) \in Worker
         /\ MovedTo(w, e, phase).left = w.left
         /\ MovedTo(w, e, phase).name = w.name
         /\ MovedTo(w, e, phase).check = [w.check EXCEPT ![e] = phase]
<1>1. [w.check EXCEPT ![e] = phase] \in [Endpoint -> Phase]
  BY DEF Worker
<1> QED
  BY <1>1 DEF Worker, MovedTo

AfterCall(w, e) == [MovedTo(w, e, Done) EXCEPT !.left = @ - 1]

LEMMA AfterCallType ==
  ASSUME NEW w \in Worker, NEW e \in Endpoint
  PROVE  /\ AfterCall(w, e) \in Worker
         /\ AfterCall(w, e).left = w.left - 1
         /\ AfterCall(w, e).name = w.name
         /\ AfterCall(w, e).check = [w.check EXCEPT ![e] = Done]
<1>1. Done \in Phase
  BY DEF Phase
<1> DEFINE moved == MovedTo(w, e, Done)
<1>2. /\ moved \in Worker /\ moved.left = w.left /\ moved.name = w.name
      /\ moved.check = [w.check EXCEPT ![e] = Done]
  BY <1>1, MovedToType
<1>3. AfterCall(w, e) = [moved EXCEPT !.left = @ - 1]
  BY DEF AfterCall
<1> HIDE DEF moved
<1> QED
  BY <1>2, <1>3 DEF Worker

LEMMA CalledEffect ==
  ASSUME TypeOK, NEW w \in workers, NEW e \in Endpoint
  PROVE  /\ Called(w, e) \subseteq Worker
         /\ \A v \in Called(w, e) :
              v \in workers \/ (v = AfterCall(w, e) /\ v.left # 0)
         /\ \A v \in workers : v # w => v \in Called(w, e)
<1>1. w \in Worker
  BY DEF TypeOK
<1> QED
  BY <1>1, AfterCallType DEF Called, TypeOK, AfterCall

-----------------------------------------------------------------------------
(* Type correctness *)

SharedType == /\ answers \in [Requests -> Seq(SUBSET Endpoint)]
              /\ trusted \in [Names -> SUBSET Endpoint]
              /\ created \in [Names -> 0..MaxTime]
              /\ pending \in [Names -> SUBSET Requests]
              /\ goodAt \in [Names -> [Endpoint -> {Never} \cup 0..MaxTime]]

LEMMA GoodType ==
  ASSUME TypeOK, NEW n \in Names, NEW e \in Endpoint, WorkerResultGood(n, e)
  PROVE  SharedType'
<1>1. /\ trusted' \in [Names -> SUBSET Endpoint]
      /\ created' \in [Names -> 0..MaxTime]
  BY RememberEffect DEF WorkerResultGood
<1>2. trusted[n] \cup {e} \in SUBSET Endpoint
  BY DEF TypeOK
<1>3. /\ answers' \in [Requests -> Seq(SUBSET Endpoint)]
      /\ pending' \in [Names -> SUBSET Requests]
  BY <1>2, DeliverEffect DEF WorkerResultGood
<1>4. goodAt' \in [Names -> [Endpoint -> {Never} \cup 0..MaxTime]]
  BY DEF WorkerResultGood, TypeOK
<1> QED
  BY <1>1, <1>3, <1>4 DEF SharedType

LEMMA FinishedType ==
  ASSUME TypeOK, NEW n \in Names, WorkerResultFinished(n)
  PROVE  SharedType'
<1>1. trusted[n] \in SUBSET Endpoint
  BY DEF TypeOK
<1>2. /\ answers' \in [Requests -> Seq(SUBSET Endpoint)]
      /\ pending' \in [Names -> SUBSET Requests]
  BY <1>1, DeliverEffect DEF WorkerResultFinished
<1> QED
  BY <1>2 DEF SharedType, WorkerResultFinished, TypeOK

LEMMA AskType ==
  ASSUME TypeOK, NEW r \in Requests, NEW n \in Names, NEW p \in Ports,
         CheckCertificateOf(r, n, p)
  PROVE  TypeOK'
<1>1. /\ host' \in [Requests -> Names \cup {NoName}]
      /\ port' \in [Requests -> Ports \cup {NoPort}]
      /\ UNCHANGED <<now, workers, goodAt, resolved, verified, redirected>>
  BY DEF CheckCertificateOf, TypeOK
<1>2. SharedType' /\ lookups' \subseteq Lookup
  <2>1. CASE AskCached(r, n)
    <3>1. trusted[n] \in SUBSET Endpoint /\ {r} \in SUBSET Requests
      BY DEF TypeOK
    <3>2. answers' \in [Requests -> Seq(SUBSET Endpoint)]
      BY <2>1, <3>1, AnswerEffect DEF AskCached
    <3> QED
      BY <1>1, <2>1, <3>2 DEF AskCached, SharedType, TypeOK
  <2>2. CASE AskPending(r, n)
    <3>1. /\ trusted' \in [Names -> SUBSET Endpoint]
          /\ created' \in [Names -> 0..MaxTime]
      BY <2>2, ForgetEffect DEF AskPending
    <3> QED
      BY <1>1, <2>2, <3>1 DEF AskPending, SharedType, TypeOK
  <2>3. CASE AskResolve(r, n, p)
    <3>1. /\ trusted' \in [Names -> SUBSET Endpoint]
          /\ created' \in [Names -> 0..MaxTime]
      BY <2>3, ForgetEffect DEF AskResolve
    <3>2. [starter |-> r, redirect |-> 0, name |-> n, port |-> p, calls |-> 0]
            \in Lookup
      BY BoundAssumption DEF Lookup
    <3> QED
      BY <1>1, <2>3, <3>1, <3>2 DEF AskResolve, SharedType, TypeOK
  <2>4. CASE AskTooLong(r, n)
    <3>1. /\ trusted' \in [Names -> SUBSET Endpoint]
          /\ created' \in [Names -> 0..MaxTime]
      BY <2>4, ForgetEffect DEF AskTooLong
    <3>2. answers' \in [Requests -> Seq(SUBSET Endpoint)]
      BY <2>4, AnswerEffect DEF AskTooLong
    <3> QED
      BY <1>1, <2>4, <3>1, <3>2 DEF AskTooLong, SharedType, TypeOK
  <2> QED
    BY <2>1, <2>2, <2>3, <2>4 DEF CheckCertificateOf
<1> QED
  BY <1>1, <1>2 DEF TypeOK, SharedType

LEMMA AcceptedType ==
  ASSUME TypeOK, NEW l \in lookups, NEW results \in SUBSET Addresses
  PROVE  /\ RemoveV6AndBlockedEndpoints([addr : results, port : {l.port}])
              \in SUBSET Endpoint
         /\ l.name \in Names
BY DEF TypeOK, Lookup, RemoveV6AndBlockedEndpoints, Endpoint

LEMMA ResolveType ==
  ASSUME TypeOK, NEW l \in lookups, NEW more \in BOOLEAN,
         NEW results \in SUBSET Addresses, ResolveCallback(l, more, results)
  PROVE  TypeOK'
<1> DEFINE endpoints == [addr : results, port : {l.port}]
           accepted == RemoveV6AndBlockedEndpoints(endpoints)
<1>1. /\ accepted \in SUBSET Endpoint /\ l.name \in Names
      /\ AfterCallback(l, more) \subseteq Lookup
  BY AcceptedType, AfterCallbackEffect
<1>2. /\ UNCHANGED <<now, host, port, verified>>
      /\ resolved' \in [Names -> SUBSET SUBSET Endpoint]
  <2>1. /\ UNCHANGED <<now, host, port, verified>>
        /\ resolved' = IF accepted = {} THEN resolved
                       ELSE [resolved EXCEPT ![l.name] = @ \cup {accepted}]
    BY DEF ResolveCallback, requestVars
  <2> HIDE DEF accepted
  <2> QED
    BY <1>1, <2>1 DEF TypeOK
<1>3. CASE ResolveFailed(l, more)
  <2>1. SharedType'
    BY <1>1, <1>3, FinishedType DEF ResolveFailed
  <2> QED
    BY <1>1, <1>2, <1>3, <2>1 DEF ResolveFailed, TypeOK, SharedType
<1>4. CASE ResolveStartsWorker(l, more, accepted)
  <2>1. CreateWorker(l, accepted) \in Worker
    BY <1>1, CreateWorkerType
  <2> QED
    BY <1>1, <1>2, <1>4, <2>1 DEF ResolveStartsWorker, TypeOK
<1>5. CASE ResolveFallsBack(l, more)
  <2> DEFINE name == Fallback[l.name]
  <2>1. name \in Names /\ redirected' \subseteq Names /\ UNCHANGED workers
    BY <1>1, <1>5, NamesAssumption DEF ResolveFallsBack, TypeOK
  <2>2. SharedType' /\ lookups' \subseteq Lookup
    <3>1. CASE WorkerResultFinished(name) /\ lookups' = AfterCallback(l, more)
      BY <1>1, <2>1, <3>1, FinishedType
    <3>2. CASE /\ lookups' = AfterCallback(l, more) \cup
                    {[starter |-> l.starter, redirect |-> l.calls + 1,
                      name |-> name, port |-> l.port, calls |-> 0]}
               /\ UNCHANGED <<answers, pending, trusted, created, goodAt>>
      <4>1. l \in Lookup
        BY DEF TypeOK
      <4>2. [starter |-> l.starter, redirect |-> l.calls + 1,
             name |-> name, port |-> l.port, calls |-> 0] \in Lookup
        BY <2>1, <4>1, BoundAssumption DEF Lookup
      <4> QED
        BY <1>1, <3>2, <4>2 DEF SharedType, TypeOK
    <3> QED
      BY <1>5, <3>1, <3>2 DEF ResolveFallsBack
  <2> QED
    BY <1>2, <2>1, <2>2 DEF TypeOK, SharedType
<1> QED
  BY <1>3, <1>4, <1>5 DEF ResolveCallback

LEMMA CheckType ==
  ASSUME TypeOK, NEW w \in workers, NEW e \in EndpointsOf(w), CheckEndpoint(w, e)
  PROVE  TypeOK'
<1>1. w \in Worker /\ e \in Endpoint /\ w.name \in Names
  BY DEF TypeOK, EndpointsOf, Worker
<1>2. UNCHANGED <<now, host, port, lookups, resolved, redirected>>
  BY DEF CheckEndpoint, requestVars
<1>3. ASSUME CallHandlerError(w, e)
      PROVE  SharedType' /\ workers' \subseteq Worker
  <2>1. workers' \subseteq Worker
    BY <1>1, <1>3, CalledEffect DEF CallHandlerError
  <2>2. SharedType'
    BY <1>1, <1>3, FinishedType
       DEF CallHandlerError, WorkerResultError, SharedType, TypeOK
  <2> QED
    BY <2>1, <2>2
<1>4. CASE \E c \in Endpoint : Connected(w, e, c)
  <2>1. PICK c \in Endpoint : Connected(w, e, c)
    BY <1>4
  <2>2. Handshaking(c) \in Phase
    BY DEF Phase
  <2>3. MovedTo(w, e, Handshaking(c)) \in Worker
    BY <1>1, <2>2, MovedToType
  <2> QED
    BY <1>2, <2>1, <2>3 DEF Connected, TypeOK
<1>5. CASE ConnectFailed(w, e)
  BY <1>2, <1>3, <1>5 DEF ConnectFailed, TypeOK, SharedType
<1>6. CASE HandshakeFailed(w, e)
  BY <1>2, <1>3, <1>6 DEF HandshakeFailed, TypeOK, SharedType
<1>7. CASE HandshakeGood(w, e)
  <2>1. workers' \subseteq Worker /\ SharedType'
    BY <1>1, <1>7, CalledEffect, GoodType DEF HandshakeGood, CallHandlerGood
  <2>2. w.check[e].peer \in Endpoint
    <3>1. w.check[e] \in Phase /\ w.check[e].at = "handshake"
      BY <1>1, <1>7 DEF HandshakeGood, Worker
    <3> QED
      BY <3>1 DEF Phase, Absent, Connecting, Done, Handshaking
  <2>3. verified' \in [Names -> SUBSET Endpoint]
    BY <1>1, <1>7, <2>2 DEF HandshakeGood, TypeOK
  <2> QED
    BY <1>2, <2>1, <2>3 DEF TypeOK, SharedType
<1> QED
  BY <1>4, <1>5, <1>6, <1>7 DEF CheckEndpoint

LEMMA TypeInit == Init => TypeOK
BY BoundAssumption DEF Init, TypeOK, Never

LEMMA TypeStep == TypeOK /\ [Next]_vars => TypeOK'
<1> SUFFICES ASSUME TypeOK, [Next]_vars PROVE TypeOK'
  OBVIOUS
<1>1. CASE Ask
  BY <1>1, AskType DEF Ask
<1>2. CASE Resolve
  BY <1>2, ResolveType DEF Resolve
<1>3. CASE Check
  BY <1>3, CheckType DEF Check
<1>4. CASE Tick
  BY <1>4, BoundAssumption DEF Tick, TypeOK, requestVars, cacheVars
<1>5. CASE UNCHANGED vars
  BY <1>5 DEF vars, TypeOK
<1> QED
  BY <1>1, <1>2, <1>3, <1>4, <1>5 DEF Next

(* Every variable keeps its type, for all constants.                       *)
THEOREM TypeCorrect == Spec => []TypeOK
<1> QED
  BY TypeInit, TypeStep, PTL DEF Spec

-----------------------------------------------------------------------------
(* Waiting handlers and the cache *)

NothingBeforeAsked ==
  \A r \in Requests : host[r] = NoName => answers[r] = <<>>

CoreInv == /\ PendingExcludesCache
           /\ WaitersArePending
           /\ AnsweredAtMostOnce
           /\ NothingBeforeAsked

LEMMA DeliverCore ==
  ASSUME TypeOK, CoreInv, NEW n \in Names, NEW E \in SUBSET Endpoint,
         Deliver(n, E), UNCHANGED host
  PROVE  WaitersArePending' /\ AnsweredAtMostOnce' /\ NothingBeforeAsked'
<1>1. /\ \A r \in pending[n] : answers'[r] = Append(answers[r], E)
      /\ \A r \in Requests \ pending[n] : answers'[r] = answers[r]
      /\ pending'[n] = {}
      /\ \A m \in Names \ {n} : pending'[m] = pending[m]
  BY DeliverEffect
<1>2. \A r \in pending[n] : /\ r \in Requests /\ host[r] = n
                            /\ answers[r] = <<>> /\ answers'[r] = <<E>>
  BY <1>1 DEF CoreInv, WaitersArePending
<1>3. \A r \in Requests : host[r] = n /\ answers[r] = <<>> => r \in pending[n]
  BY DEF CoreInv, WaitersArePending
<1>4. WaitersArePending'
  <2> SUFFICES ASSUME NEW m \in Names
               PROVE  pending'[m] = {r \in Requests : host[r] = m /\ answers'[r] = <<>>}
    BY DEF WaitersArePending
  <2>1. CASE m = n
    <3>1. \A r \in Requests : ~(host[r] = n /\ answers'[r] = <<>>)
      BY <1>1, <1>2, <1>3
    <3> QED
      BY <1>1, <2>1, <3>1
  <2>2. CASE m # n
    <3>1. pending[m] = {r \in Requests : host[r] = m /\ answers[r] = <<>>}
      BY DEF CoreInv, WaitersArePending
    <3>2. \A r \in Requests : host[r] = m => answers'[r] = answers[r]
      BY <1>1, <1>2, <2>2
    <3> QED
      BY <1>1, <2>2, <3>1, <3>2
  <2> QED
    BY <2>1, <2>2
<1>5. AnsweredAtMostOnce'
  BY <1>1, <1>2 DEF CoreInv, AnsweredAtMostOnce
<1>6. NothingBeforeAsked'
  BY <1>1, <1>2, NamesAssumption DEF CoreInv, NothingBeforeAsked
<1> QED
  BY <1>4, <1>5, <1>6

LEMMA GoodCore ==
  ASSUME TypeOK, CoreInv, NEW n \in Names, NEW e \in Endpoint,
         WorkerResultGood(n, e), UNCHANGED host
  PROVE  CoreInv'
<1>1. trusted[n] \cup {e} \in SUBSET Endpoint
  BY DEF TypeOK
<1>2. WaitersArePending' /\ AnsweredAtMostOnce' /\ NothingBeforeAsked'
  BY <1>1, DeliverCore DEF WorkerResultGood
<1>3. /\ pending'[n] = {}
      /\ \A m \in Names \ {n} : pending'[m] = pending[m]
  BY <1>1, DeliverEffect DEF WorkerResultGood
<1>4. \A m \in Names \ {n} : trusted'[m] = {} \/ trusted'[m] = trusted[m]
  BY RememberEffect DEF WorkerResultGood
<1>5. PendingExcludesCache'
  BY <1>3, <1>4 DEF CoreInv, PendingExcludesCache
<1> QED
  BY <1>2, <1>5 DEF CoreInv

LEMMA FinishedCore ==
  ASSUME TypeOK, CoreInv, NEW n \in Names, WorkerResultFinished(n),
         UNCHANGED host
  PROVE  CoreInv'
<1>1. trusted[n] \in SUBSET Endpoint
  BY DEF TypeOK
<1>2. WaitersArePending' /\ AnsweredAtMostOnce' /\ NothingBeforeAsked'
  BY <1>1, DeliverCore DEF WorkerResultFinished
<1>3. /\ pending'[n] = {}
      /\ \A m \in Names \ {n} : pending'[m] = pending[m]
      /\ UNCHANGED trusted
  BY <1>1, DeliverEffect DEF WorkerResultFinished
<1>4. PendingExcludesCache'
  BY <1>3 DEF CoreInv, PendingExcludesCache
<1> QED
  BY <1>2, <1>4 DEF CoreInv

LEMMA UnchangedCore ==
  ASSUME CoreInv, UNCHANGED <<host, answers, pending, trusted>>
  PROVE  CoreInv'
BY DEF CoreInv, PendingExcludesCache, WaitersArePending, AnsweredAtMostOnce,
       NothingBeforeAsked

LEMMA AskCore ==
  ASSUME TypeOK, CoreInv, NEW r \in Requests, NEW n \in Names, NEW p \in Ports,
         CheckCertificateOf(r, n, p)
  PROVE  CoreInv'
<1>1. /\ host[r] = NoName /\ answers[r] = <<>>
      /\ host' = [host EXCEPT ![r] = n]
      /\ host'[r] = n
      /\ \A q \in Requests \ {r} : host'[q] = host[q]
      /\ n # NoName
  BY NamesAssumption
     DEF CheckCertificateOf, TypeOK, CoreInv, NothingBeforeAsked
<1>2. \A m \in Names : r \notin pending[m]
  BY <1>1, NamesAssumption DEF CoreInv, WaitersArePending
<1>3. ASSUME NEW E \in SUBSET Endpoint, Answer({r}, E), UNCHANGED pending
      PROVE  WaitersArePending' /\ AnsweredAtMostOnce' /\ NothingBeforeAsked'
  <2>1. /\ answers'[r] = <<E>>
        /\ \A q \in Requests \ {r} : answers'[q] = answers[q]
    <3>1. {r} \in SUBSET Requests /\ r \in {r}
      OBVIOUS
    <3>2. /\ \A q \in {r} : answers'[q] = Append(answers[q], E)
          /\ \A q \in Requests \ {r} : answers'[q] = answers[q]
      BY <1>3, <3>1, AnswerEffect
    <3>3. answers[r] = <<>>
      BY <1>1
    <3> QED
      BY <3>2, <3>3
  <2>2. WaitersArePending'
    <3> SUFFICES ASSUME NEW m \in Names
                 PROVE  pending[m] = {q \in Requests : host'[q] = m
                                                    /\ answers'[q] = <<>>}
      BY <1>3 DEF WaitersArePending
    <3>1. pending[m] = {q \in Requests : host[q] = m /\ answers[q] = <<>>}
      BY DEF CoreInv, WaitersArePending
    <3>2. \A q \in Requests \ {r} : host'[q] = host[q] /\ answers'[q] = answers[q]
      BY <1>1, <2>1
    <3>3. r \notin pending[m] /\ answers'[r] # <<>>
      BY <1>2, <2>1
    <3> QED
      BY <3>1, <3>2, <3>3
  <2>3. AnsweredAtMostOnce'
    <3>1. Len(<<E>>) = 1
      OBVIOUS
    <3>2. \A q \in Requests \ {r} : Len(answers'[q]) <= 1
      BY <2>1 DEF CoreInv, AnsweredAtMostOnce
    <3>3. Len(answers'[r]) <= 1
      BY <2>1, <3>1
    <3> QED
      BY <3>2, <3>3 DEF AnsweredAtMostOnce
  <2>4. NothingBeforeAsked'
    BY <1>1, <2>1 DEF CoreInv, NothingBeforeAsked
  <2> QED
    BY <2>2, <2>3, <2>4
<1>4. ASSUME pending' = [pending EXCEPT ![n] = @ \cup {r}], UNCHANGED answers
      PROVE  WaitersArePending' /\ AnsweredAtMostOnce' /\ NothingBeforeAsked'
  <2>1. /\ pending'[n] = pending[n] \cup {r}
        /\ \A m \in Names \ {n} : pending'[m] = pending[m]
    BY <1>4 DEF TypeOK
  <2>2. \A m \in Names :
          pending'[m] = {q \in Requests : host'[q] = m /\ answers[q] = <<>>}
    <3> SUFFICES ASSUME NEW m \in Names
                 PROVE  pending'[m] = {q \in Requests : host'[q] = m
                                                     /\ answers[q] = <<>>}
      OBVIOUS
    <3>1. pending[m] = {q \in Requests : host[q] = m /\ answers[q] = <<>>}
      BY DEF CoreInv, WaitersArePending
    <3>2. CASE m = n
      BY <1>1, <2>1, <3>1, <3>2
    <3>3. CASE m # n
      <4>1. \A q \in Requests : (host'[q] = m) <=> (host[q] = m)
        <5>1. host'[r] # m /\ host[r] # m
          BY <1>1, <3>3, NamesAssumption
        <5>2. \A q \in Requests \ {r} : host'[q] = host[q]
          BY <1>1
        <5> QED
          BY <5>1, <5>2
      <4> QED
        BY <2>1, <3>1, <3>3, <4>1
    <3> QED
      BY <3>2, <3>3
  <2>4. WaitersArePending'
    BY <1>4, <2>2 DEF WaitersArePending
  <2>3. AnsweredAtMostOnce' /\ NothingBeforeAsked'
    BY <1>1, <1>4 DEF CoreInv, AnsweredAtMostOnce, NothingBeforeAsked
  <2> QED
    BY <2>3, <2>4
<1>5. ASSUME DropStale(n)
      PROVE  /\ trusted'[n] = {}
             /\ \A m \in Names \ {n} : trusted'[m] = trusted[m]
  BY <1>5, ForgetEffect
<1>6. CASE AskCached(r, n)
  <2>1. trusted[n] \in SUBSET Endpoint
    BY DEF TypeOK
  <2> QED
    BY <1>3, <1>6, <2>1 DEF AskCached, CoreInv, PendingExcludesCache
<1>7. CASE AskPending(r, n)
  <2>1. PendingExcludesCache'
    BY <1>5, <1>7 DEF AskPending, CoreInv, PendingExcludesCache, TypeOK
  <2> QED
    BY <1>4, <1>7, <2>1 DEF AskPending, CoreInv
<1>8. CASE AskResolve(r, n, p)
  <2>1. pending' = [pending EXCEPT ![n] = @ \cup {r}]
    BY <1>8 DEF AskResolve, TypeOK
  <2>2. PendingExcludesCache'
    BY <1>5, <1>8 DEF AskResolve, CoreInv, PendingExcludesCache, TypeOK
  <2> QED
    BY <1>4, <1>8, <2>1, <2>2 DEF AskResolve, CoreInv
<1>9. CASE AskTooLong(r, n)
  <2>1. PendingExcludesCache'
    BY <1>5, <1>9 DEF AskTooLong, CoreInv, PendingExcludesCache
  <2> QED
    BY <1>3, <1>9, <2>1 DEF AskTooLong, CoreInv
<1> QED
  BY <1>6, <1>7, <1>8, <1>9 DEF CheckCertificateOf

LEMMA ResolveCore ==
  ASSUME TypeOK, CoreInv, NEW l \in lookups, NEW more \in BOOLEAN,
         NEW results \in SUBSET Addresses, ResolveCallback(l, more, results)
  PROVE  CoreInv'
<1> DEFINE accepted ==
             RemoveV6AndBlockedEndpoints([addr : results, port : {l.port}])
<1>1. UNCHANGED host /\ l.name \in Names
  BY AcceptedType DEF ResolveCallback, requestVars
<1>2. CASE ResolveFailed(l, more)
  BY <1>1, <1>2, FinishedCore DEF ResolveFailed
<1>3. CASE ResolveStartsWorker(l, more, accepted)
  BY <1>1, <1>3, UnchangedCore DEF ResolveStartsWorker
<1>4. CASE ResolveFallsBack(l, more)
  <2>1. Fallback[l.name] \in Names
    BY <1>1, <1>4, NamesAssumption DEF ResolveFallsBack
  <2> QED
    BY <1>1, <1>4, <2>1, FinishedCore, UnchangedCore DEF ResolveFallsBack
<1> QED
  BY <1>2, <1>3, <1>4 DEF ResolveCallback

LEMMA CheckCore ==
  ASSUME TypeOK, CoreInv, NEW w \in workers, NEW e \in EndpointsOf(w),
         CheckEndpoint(w, e)
  PROVE  CoreInv'
<1>1. w.name \in Names /\ e \in Endpoint /\ UNCHANGED host
  BY DEF TypeOK, Worker, EndpointsOf, CheckEndpoint, requestVars
<1>2. CASE \E c \in Endpoint : Connected(w, e, c)
  BY <1>1, <1>2, UnchangedCore DEF Connected
<1>3. CASE ConnectFailed(w, e) \/ HandshakeFailed(w, e)
  BY <1>1, <1>3, FinishedCore, UnchangedCore
     DEF ConnectFailed, HandshakeFailed, CallHandlerError, WorkerResultError
<1>4. CASE HandshakeGood(w, e)
  BY <1>1, <1>4, GoodCore DEF HandshakeGood, CallHandlerGood
<1> QED
  BY <1>2, <1>3, <1>4 DEF CheckEndpoint

LEMMA CoreInit == Init => CoreInv
BY NamesAssumption
   DEF Init, CoreInv, PendingExcludesCache, WaitersArePending,
       AnsweredAtMostOnce, NothingBeforeAsked

LEMMA CoreStep == TypeOK /\ CoreInv /\ [Next]_vars => CoreInv'
<1> SUFFICES ASSUME TypeOK, CoreInv, [Next]_vars PROVE CoreInv'
  OBVIOUS
<1>1. CASE Ask
  BY <1>1, AskCore DEF Ask
<1>2. CASE Resolve
  BY <1>2, ResolveCore DEF Resolve
<1>3. CASE Check
  BY <1>3, CheckCore DEF Check
<1>4. CASE Tick
  BY <1>4, UnchangedCore DEF Tick, requestVars, cacheVars
<1>5. CASE UNCHANGED vars
  BY <1>5, UnchangedCore DEF vars
<1> QED
  BY <1>1, <1>2, <1>3, <1>4, <1>5 DEF Next

LEMMA CoreInvariant == Spec => []CoreInv
<1> QED
  BY TypeInit, TypeStep, CoreInit, CoreStep, PTL DEF Spec

(* cached_results_ and pending_handlers_ never hold the same name.         *)
THEOREM CacheAndPendingAreDisjoint == Spec => []PendingExcludesCache
<1>1. CoreInv => PendingExcludesCache
  BY DEF CoreInv
<1> QED
  BY <1>1, CoreInvariant, PTL

(* The list of a name holds exactly the handlers that wait for it.         *)
THEOREM NoHandlerIsLost == Spec => []WaitersArePending
<1>1. CoreInv => WaitersArePending
  BY DEF CoreInv
<1> QED
  BY <1>1, CoreInvariant, PTL

(* No handler is called twice.                                             *)
THEOREM HandlersAreCalledOnce == Spec => []AnsweredAtMostOnce
<1>1. CoreInv => AnsweredAtMostOnce
  BY DEF CoreInv
<1> QED
  BY <1>1, CoreInvariant, PTL

-----------------------------------------------------------------------------
(* Every step seen from the cache and the waiting handlers: a request, a   *)
(* failure, a good result, or nothing of the kind.                         *)

Asked == \E r \in Requests, n \in Names, p \in Ports : CheckCertificateOf(r, n, p)

Finished == /\ \E n \in Names : WorkerResultFinished(n)
            /\ UNCHANGED <<host, now>>

Good == /\ \E n \in Names, e \in Endpoint :
             /\ WorkerResultGood(n, e)
             /\ \E w \in workers : /\ w.name = n /\ e \in EndpointsOf(w)
                                   /\ w.check[e].at = "handshake"
                                   /\ w.check[e].peer \in verified'[n]
        /\ UNCHANGED <<host, now>>

Elsewhere == UNCHANGED <<host, answers, pending, trusted, created, goodAt>>

LEMMA StepKinds ==
  ASSUME TypeOK, [Next]_vars
  PROVE  Asked \/ Finished \/ Good \/ Elsewhere
<1>1. CASE Ask
  BY <1>1 DEF Ask, Asked
<1>2. CASE Resolve
  <2>1. PICK l \in lookups, more \in BOOLEAN, results \in SUBSET Addresses :
          ResolveCallback(l, more, results)
    BY <1>2 DEF Resolve
  <2>2. l.name \in Names /\ UNCHANGED <<host, now>>
    BY <2>1, AcceptedType DEF ResolveCallback, requestVars
  <2>3. ResolveFailed(l, more) => Finished
    BY <2>2 DEF ResolveFailed, Finished
  <2>4. ResolveFallsBack(l, more) => Finished \/ Elsewhere
    <3>1. ResolveFallsBack(l, more) => Fallback[l.name] \in Names
      BY <2>2, NamesAssumption DEF ResolveFallsBack
    <3> QED
      BY <2>2, <3>1 DEF ResolveFallsBack, Finished, Elsewhere
  <2>5. \A E : ResolveStartsWorker(l, more, E) => Elsewhere
    BY <2>2 DEF ResolveStartsWorker, Elsewhere
  <2> QED
    BY <2>1, <2>3, <2>4, <2>5 DEF ResolveCallback
<1>3. CASE Check
  <2>1. PICK w \in workers : \E e \in EndpointsOf(w) : CheckEndpoint(w, e)
    BY <1>3 DEF Check
  <2>2. PICK e \in EndpointsOf(w) : CheckEndpoint(w, e)
    BY <2>1
  <2>3. w.name \in Names /\ e \in Endpoint /\ UNCHANGED <<host, now>>
    BY <2>2 DEF TypeOK, Worker, EndpointsOf, CheckEndpoint, requestVars
  <2>4. CallHandlerError(w, e) => Finished \/ Elsewhere
    BY <2>3 DEF CallHandlerError, WorkerResultError, Finished, Elsewhere
  <2>5. HandshakeGood(w, e) => Good
    <3>1. HandshakeGood(w, e) => w.check[e].peer \in verified'[w.name]
      BY <2>3 DEF HandshakeGood, TypeOK
    <3> QED
      BY <2>3, <3>1 DEF HandshakeGood, CallHandlerGood, Good
  <2>6. \A c : Connected(w, e, c) => Elsewhere
    BY <2>3 DEF Connected, Elsewhere
  <2> QED
    BY <2>2, <2>4, <2>5, <2>6
       DEF CheckEndpoint, ConnectFailed, HandshakeFailed
<1>4. CASE Tick
  BY <1>4 DEF Tick, requestVars, cacheVars, Elsewhere
<1>5. CASE UNCHANGED vars
  BY <1>5 DEF vars, Elsewhere
<1> QED
  BY <1>1, <1>2, <1>3, <1>4, <1>5 DEF Next

(* What a request does to the cache, and what it may be given.             *)
LEMMA AskedEffect ==
  ASSUME TypeOK, NEW r \in Requests, NEW n \in Names, NEW p \in Ports,
         CheckCertificateOf(r, n, p)
  PROVE  /\ host[r] = NoName
         /\ host' = [host EXCEPT ![r] = n]
         /\ UNCHANGED <<now, goodAt>>
         /\ \A m \in Names : \/ trusted'[m] = {}
                             \/ /\ trusted'[m] = trusted[m]
                                /\ created'[m] = created[m]
         /\ \/ UNCHANGED answers
            \/ Answer({r}, {})
            \/ Answer({r}, trusted[n]) /\ trusted[n] # {} /\ Fresh(n)
<1>1. host[r] = NoName /\ host' = [host EXCEPT ![r] = n] /\ UNCHANGED <<now, goodAt>>
  BY DEF CheckCertificateOf
<1>2. DropStale(n) \/ AskCached(r, n)
  BY DEF CheckCertificateOf, AskPending, AskResolve, AskTooLong
<1>3. \A m \in Names : \/ trusted'[m] = {}
                       \/ /\ trusted'[m] = trusted[m]
                          /\ created'[m] = created[m]
  <2>1. CASE DropStale(n)
    BY <2>1, ForgetEffect
  <2>2. CASE AskCached(r, n)
    BY <2>2 DEF AskCached
  <2> QED
    BY <1>2, <2>1, <2>2
<1>4. \/ UNCHANGED answers
      \/ Answer({r}, {})
      \/ Answer({r}, trusted[n]) /\ trusted[n] # {} /\ Fresh(n)
  BY DEF CheckCertificateOf, AskCached, AskPending, AskResolve, AskTooLong, Cached
<1> QED
  BY <1>1, <1>3, <1>4

-----------------------------------------------------------------------------
(* What is trusted *)

(* A trusted endpoint was reported good under that name, and one of them   *)
(* when the entry was last renewed.                                        *)
TrustInv ==
  \A n \in Names :
    /\ \A e \in trusted[n] : goodAt[n][e] # Never
    /\ trusted[n] # {} => \E e \in trusted[n] : goodAt[n][e] = created[n]

LEMMA GoodEffect ==
  ASSUME TypeOK, NEW n \in Names, NEW e \in Endpoint, WorkerResultGood(n, e)
  PROVE  /\ goodAt'[n][e] = now /\ now # Never
         /\ \A d \in Endpoint : d # e => goodAt'[n][d] = goodAt[n][d]
         /\ \A m \in Names : m # n => goodAt'[m] = goodAt[m]
<1>1. now \in Nat
  BY BoundAssumption DEF TypeOK
<1> QED
  BY <1>1 DEF WorkerResultGood, TypeOK, Never

LEMMA TrustInit == Init => TrustInv
BY DEF Init, TrustInv

LEMMA TrustStep == TypeOK /\ TrustInv /\ [Next]_vars => TrustInv'
<1> SUFFICES ASSUME TypeOK, TrustInv, [Next]_vars PROVE TrustInv'
  OBVIOUS
<1>1. CASE Asked
  <2>1. PICK r \in Requests, n \in Names, p \in Ports : CheckCertificateOf(r, n, p)
    BY <1>1 DEF Asked
  <2>2. /\ goodAt' = goodAt
        /\ \A m \in Names : \/ trusted'[m] = {}
                            \/ /\ trusted'[m] = trusted[m]
                               /\ created'[m] = created[m]
    BY <2>1, AskedEffect
  <2> QED
    BY <2>2 DEF TrustInv
<1>2. CASE Finished
  BY <1>2 DEF Finished, WorkerResultFinished, TrustInv
<1>3. CASE Good
  <2>1. PICK n \in Names, e \in Endpoint : WorkerResultGood(n, e)
    BY <1>3 DEF Good
  <2>2. /\ goodAt'[n][e] = now /\ now # Never
        /\ \A d \in Endpoint : d # e => goodAt'[n][d] = goodAt[n][d]
        /\ \A m \in Names : m # n => goodAt'[m] = goodAt[m]
    BY <2>1, GoodEffect
  <2>3. /\ trusted'[n] = trusted[n] \cup {e} /\ created'[n] = now
        /\ \A m \in Names \ {n} : \/ trusted'[m] = {}
                                  \/ /\ trusted'[m] = trusted[m]
                                     /\ created'[m] = created[m]
    BY <2>1, RememberEffect DEF WorkerResultGood
  <2>4. trusted[n] \subseteq Endpoint
    BY DEF TypeOK
  <2> SUFFICES ASSUME NEW m \in Names
               PROVE  /\ \A d \in trusted'[m] : goodAt'[m][d] # Never
                      /\ trusted'[m] # {} =>
                           \E d \in trusted'[m] : goodAt'[m][d] = created'[m]
    BY DEF TrustInv
  <2>5. CASE m = n
    <3>1. \A d \in trusted'[n] : goodAt'[n][d] # Never
      BY <2>2, <2>3, <2>4 DEF TrustInv
    <3>2. e \in trusted'[n] /\ goodAt'[n][e] = created'[n]
      BY <2>2, <2>3
    <3> QED
      BY <2>5, <3>1, <3>2
  <2>6. CASE m # n
    BY <2>2, <2>3, <2>6 DEF TrustInv
  <2> QED
    BY <2>5, <2>6
<1>4. CASE Elsewhere
  BY <1>4 DEF Elsewhere, TrustInv
<1> QED
  BY <1>1, <1>2, <1>3, <1>4, StepKinds

LEMMA TrustInvariant == Spec => [](TypeOK /\ CoreInv /\ TrustInv)
BY TypeInit, TypeStep, CoreInit, CoreStep, TrustInit, TrustStep, PTL DEF Spec

-----------------------------------------------------------------------------
(* What is handed out was good recently *)

LEMMA Given ==
  ASSUME TypeOK, NEW R \in SUBSET Requests, NEW E \in SUBSET Endpoint,
         Answer(R, E), NEW r \in Requests, answers'[r] # answers[r]
  PROVE  r \in R /\ answers'[r][Len(answers'[r])] = E
<1>1. /\ \A q \in R : answers'[q] = Append(answers[q], E)
      /\ \A q \in Requests \ R : answers'[q] = answers[q]
  BY AnswerEffect
<1>2. r \in R
  BY <1>1
<1>3. answers[r] \in Seq(SUBSET Endpoint)
  BY DEF TypeOK
<1>4. Append(answers[r], E)[Len(Append(answers[r], E))] = E
  BY <1>3
<1> QED
  BY <1>1, <1>2, <1>4

LEMMA FreshStep ==
  TypeOK /\ CoreInv /\ TrustInv /\ [Next]_vars => [GivesRecentlyGood]_vars
<1> SUFFICES ASSUME TypeOK, CoreInv, TrustInv, [Next]_vars,
                    NEW r \in Requests, answers'[r] # answers[r]
             PROVE  LET given == answers'[r][Len(answers'[r])]
                    IN given # {} => \E e \in given : RecentlyGood(host[r], e)'
  BY DEF GivesRecentlyGood
<1> DEFINE given == answers'[r][Len(answers'[r])]
<1>1. CASE Asked
  <2>1. PICK q \in Requests, n \in Names, p \in Ports : CheckCertificateOf(q, n, p)
    BY <1>1 DEF Asked
  <2>2. /\ host' = [host EXCEPT ![q] = n]
        /\ UNCHANGED <<now, goodAt>>
        /\ \/ Answer({q}, {})
           \/ Answer({q}, trusted[n]) /\ trusted[n] # {} /\ Fresh(n)
    BY <2>1, AskedEffect
  <2>3. {q} \in SUBSET Requests /\ {} \in SUBSET Endpoint
        /\ trusted[n] \in SUBSET Endpoint
    BY DEF TypeOK
  <2>4. CASE Answer({q}, {})
    BY <2>3, <2>4, Given
  <2>5. CASE Answer({q}, trusted[n]) /\ trusted[n] # {} /\ Fresh(n)
    <3>1. r = q /\ given = trusted[n]
      BY <2>3, <2>5, Given
    <3>2. PICK e \in trusted[n] : goodAt[n][e] = created[n]
      BY <2>5 DEF TrustInv
    <3>3. goodAt[n][e] # Never /\ now - goodAt[n][e] < Lifespan
      BY <2>5, <3>2 DEF TrustInv, Fresh
    <3>4. host'[r] = n
      BY <2>2, <3>1 DEF TypeOK
    <3>5. RecentlyGood(host[r], e)'
      BY <2>2, <3>3, <3>4 DEF RecentlyGood
    <3> QED
      BY <3>1, <3>2, <3>5
  <2> QED
    BY <2>2, <2>4, <2>5
<1>2. CASE Finished
  <2>1. PICK n \in Names : WorkerResultFinished(n)
    BY <1>2 DEF Finished
  <2>2. /\ Answer(pending[n], trusted[n])
        /\ pending[n] \in SUBSET Requests /\ trusted[n] \in SUBSET Endpoint
    BY <2>1 DEF WorkerResultFinished, Deliver, TypeOK
  <2>3. r \in pending[n] /\ given = trusted[n]
    BY <2>2, Given
  <2> QED
    BY <2>3 DEF CoreInv, PendingExcludesCache
<1>3. CASE Good
  <2>1. PICK n \in Names, e \in Endpoint : WorkerResultGood(n, e)
    BY <1>3 DEF Good
  <2>2. UNCHANGED <<host, now>>
    BY <1>3 DEF Good
  <2>3. /\ Answer(pending[n], trusted[n] \cup {e})
        /\ pending[n] \in SUBSET Requests
        /\ trusted[n] \cup {e} \in SUBSET Endpoint
    BY <2>1 DEF WorkerResultGood, Deliver, TypeOK
  <2>4. r \in pending[n] /\ given = trusted[n] \cup {e}
    BY <2>3, Given
  <2>5. host'[r] = n
    BY <2>2, <2>4 DEF CoreInv, WaitersArePending
  <2>6. now \in Nat /\ now - now = 0 /\ 0 < Lifespan
    BY BoundAssumption DEF TypeOK
  <2>7. goodAt'[n][e] = now /\ now # Never
    BY <2>1, GoodEffect
  <2>8. RecentlyGood(host[r], e)'
    BY <2>2, <2>5, <2>6, <2>7 DEF RecentlyGood
  <2> QED
    BY <2>4, <2>8
<1>4. CASE Elsewhere
  BY <1>4 DEF Elsewhere
<1> QED
  BY <1>1, <1>2, <1>3, <1>4, StepKinds

(* What a handler is given holds an endpoint that was found good less than *)
(* a lifespan ago.                                                         *)
THEOREM OnlyFreshIsGiven == Spec => FreshTrust
BY TrustInvariant, FreshStep, PTL DEF Spec, FreshTrust

-----------------------------------------------------------------------------
(* CertificateCheck implements HostTrust *)

LEMMA PromiseInit == Init => Promise!Init
<1> SUFFICES ASSUME Init PROVE Promise!Init
  OBVIOUS
<1>1. \A n \in Names : {e \in Endpoint : goodAt[n][e] # Never} = {}
  BY DEF Init
<1>2. vouched = [n \in Names |-> {}]
  BY <1>1 DEF vouched
<1> QED
  BY <1>2 DEF Init, Promise!Init

LEMMA AnswerNobody ==
  ASSUME TypeOK, NEW E, Answer({}, E)
  PROVE  Answer({}, {})
BY DEF Answer

LEMMA PromiseStep ==
  TypeOK /\ CoreInv /\ TrustInv /\ [Next]_vars => [Promise!Next]_(Promise!vars)
<1> SUFFICES ASSUME TypeOK, CoreInv, TrustInv, [Next]_vars
             PROVE  Promise!Next \/ UNCHANGED <<host, answers, vouched>>
  BY DEF Promise!vars
<1>1. CASE Asked
  <2>1. PICK r \in Requests, n \in Names, p \in Ports : CheckCertificateOf(r, n, p)
    BY <1>1 DEF Asked
  <2>2. /\ host[r] = NoName
        /\ host' = [host EXCEPT ![r] = n]
        /\ goodAt' = goodAt
        /\ \/ UNCHANGED answers
           \/ Answer({r}, {})
           \/ Answer({r}, trusted[n])
    BY <2>1, AskedEffect
  <2>3. vouched' = vouched
    BY <2>2 DEF vouched
  <2>4. trusted[n] \in SUBSET vouched[n] /\ {} \in SUBSET vouched[n]
    BY DEF TrustInv, TypeOK, vouched
  <2>5. Promise!Ask(r, n)
    BY <2>2, <2>3, <2>4 DEF Promise!Ask, Promise!Answer, Answer
  <2> QED
    BY <2>5 DEF Promise!Next
<1>2. CASE Finished
  <2>1. PICK n \in Names : WorkerResultFinished(n)
    BY <1>2 DEF Finished
  <2>2. UNCHANGED <<host, vouched>>
    BY <1>2, <2>1 DEF Finished, WorkerResultFinished, vouched
  <2>3. Promise!Waiting(n) = pending[n]
    BY DEF CoreInv, WaitersArePending, Promise!Waiting
  <2>4. Answer(pending[n], {})
    <3>1. Answer(pending[n], trusted[n])
      BY <2>1 DEF WorkerResultFinished, Deliver
    <3>2. CASE pending[n] = {}
      BY <3>1, <3>2, AnswerNobody
    <3>3. CASE pending[n] # {}
      BY <3>1, <3>3 DEF CoreInv, PendingExcludesCache
    <3> QED
      BY <3>2, <3>3
  <2>5. Promise!GiveUp(n)
    BY <2>2, <2>3, <2>4 DEF Promise!GiveUp, Promise!Answer, Answer
  <2> QED
    BY <2>5 DEF Promise!Next
<1>3. CASE Good
  <2>1. PICK n \in Names, e \in Endpoint : WorkerResultGood(n, e)
    BY <1>3 DEF Good
  <2>2. UNCHANGED host
    BY <1>3 DEF Good
  <2>3. Promise!Waiting(n) = pending[n]
    BY DEF CoreInv, WaitersArePending, Promise!Waiting
  <2>4. /\ goodAt'[n][e] # Never
        /\ \A d \in Endpoint : d # e => goodAt'[n][d] = goodAt[n][d]
        /\ \A m \in Names : m # n => goodAt'[m] = goodAt[m]
    BY <2>1, GoodEffect
  <2>5. vouched' = [vouched EXCEPT ![n] = @ \cup {e}]
    <3>1. {d \in Endpoint : goodAt'[n][d] # Never} = vouched[n] \cup {e}
      BY <2>4 DEF vouched
    <3>2. \A m \in Names : m # n =>
            {d \in Endpoint : goodAt'[m][d] # Never} = vouched[m]
      BY <2>4 DEF vouched
    <3>3. vouched' = [m \in Names |-> {d \in Endpoint : goodAt'[m][d] # Never}]
      BY DEF vouched
    <3>4. vouched = [m \in Names |-> vouched[m]]
      BY DEF vouched
    <3> QED
      BY <3>1, <3>2, <3>3, <3>4
  <2>6. trusted[n] \cup {e} \in SUBSET vouched'[n]
    <3>1. trusted[n] \subseteq vouched[n]
      BY DEF TrustInv, TypeOK, vouched
    <3>2. vouched'[n] = vouched[n] \cup {e}
      BY <2>4 DEF vouched
    <3> QED
      BY <3>1, <3>2
  <2>7. Answer(pending[n], trusted[n] \cup {e})
    BY <2>1 DEF WorkerResultGood, Deliver
  <2>8. Promise!Answer(Promise!Waiting(n), trusted[n] \cup {e})
    BY <2>3, <2>7 DEF Promise!Answer, Answer
  <2>9. Promise!Vouch(n, e)
    BY <2>2, <2>5, <2>6, <2>8 DEF Promise!Vouch
  <2> QED
    BY <2>9 DEF Promise!Next
<1>4. CASE Elsewhere
  BY <1>4 DEF Elsewhere, vouched
<1> QED
  BY <1>1, <1>2, <1>3, <1>4, StepKinds

(* CheckCertificateOf keeps its promise.                                   *)
THEOREM KeepsHostTrust == Spec => ImplementsHostTrust
BY TrustInvariant, PromiseInit, PromiseStep, PTL
   DEF Spec, ImplementsHostTrust, Promise!Spec

-----------------------------------------------------------------------------
(* Where a worker comes from *)

Created(v) ==
  \E l \in lookups, E \in SUBSET Endpoint :
    /\ E # {} /\ \A e \in E : e.addr \in Acceptable
    /\ E \in resolved'[l.name]
    /\ v = CreateWorker(l, E)

Shaking(v) ==
  \E w \in workers, e \in Endpoint, c \in Endpoint :
    /\ w.check[e] = Connecting /\ c \in EndpointsOf(w)
    /\ v = MovedTo(w, e, Handshaking(c))

Reported(v) ==
  \E w \in workers, e \in Endpoint :
    /\ w.check[e] # Absent /\ w.check[e] # Done
    /\ v = AfterCall(w, e) /\ v.left # 0

LEMMA WorkerKinds ==
  ASSUME TypeOK, [Next]_vars, NEW v \in workers'
  PROVE  v \in workers \/ Created(v) \/ Shaking(v) \/ Reported(v)
<1>1. CASE Ask
  BY <1>1 DEF Ask, CheckCertificateOf
<1>2. CASE Resolve
  <2>1. PICK l \in lookups, more \in BOOLEAN, results \in SUBSET Addresses :
          ResolveCallback(l, more, results)
    BY <1>2 DEF Resolve
  <2> DEFINE accepted ==
               RemoveV6AndBlockedEndpoints([addr : results, port : {l.port}])
  <2>2. CASE UNCHANGED workers
    BY <2>2
  <2>3. CASE ResolveStartsWorker(l, more, accepted)
    <3>1. accepted \in SUBSET Endpoint
      BY AcceptedType
    <3>2. \A e \in accepted : e.addr \in Acceptable
      BY DEF RemoveV6AndBlockedEndpoints
    <3>3. resolved' = IF accepted = {} THEN resolved
                      ELSE [resolved EXCEPT ![l.name] = @ \cup {accepted}]
      BY <2>1 DEF ResolveCallback
    <3>4. l.name \in Names
      BY AcceptedType
    <3> HIDE DEF accepted
    <3>5. accepted # {} /\ workers' = workers \cup {CreateWorker(l, accepted)}
      BY <2>3 DEF ResolveStartsWorker
    <3>6. accepted \in resolved'[l.name]
      BY <3>3, <3>4, <3>5 DEF TypeOK
    <3> QED
      BY <3>1, <3>2, <3>5, <3>6 DEF Created
  <2> QED
    BY <2>1, <2>2, <2>3 DEF ResolveCallback, ResolveFailed, ResolveFallsBack
<1>3. CASE Check
  <2>1. PICK w \in workers : \E e \in EndpointsOf(w) : CheckEndpoint(w, e)
    BY <1>3 DEF Check
  <2>2. PICK e \in EndpointsOf(w) : CheckEndpoint(w, e)
    BY <2>1
  <2>3. e \in Endpoint /\ w.check[e] # Absent
    BY DEF EndpointsOf
  <2>4. CASE \E c \in Endpoint : Connected(w, e, c)
    <3>1. PICK c \in Endpoint : Connected(w, e, c)
      BY <2>4
    <3>2. /\ w.check[e] = Connecting /\ c \in EndpointsOf(w)
          /\ v \in workers \/ v = MovedTo(w, e, Handshaking(c))
      BY <3>1 DEF Connected
    <3> QED
      BY <2>3, <3>2 DEF Shaking
  <2>5. CASE workers' = Called(w, e) /\ w.check[e] # Done
    <3>1. v \in workers \/ (v = AfterCall(w, e) /\ v.left # 0)
      BY <2>3, <2>5, CalledEffect
    <3> QED
      BY <2>3, <2>5, <3>1 DEF Reported
  <2>6. w.check[e].at = "handshake" => w.check[e] # Done
    BY DEF Done
  <2>7. w.check[e] = Connecting => w.check[e] # Done
    BY DEF Connecting, Done
  <2> QED
    BY <2>2, <2>4, <2>5, <2>6, <2>7
       DEF CheckEndpoint, ConnectFailed, HandshakeFailed, HandshakeGood,
           CallHandlerError, CallHandlerGood
<1>4. CASE Tick
  BY <1>4 DEF Tick
<1>5. CASE UNCHANGED vars
  BY <1>5 DEF vars
<1> QED
  BY <1>1, <1>2, <1>3, <1>4, <1>5 DEF Next

-----------------------------------------------------------------------------
(* The countdown *)

LEMMA PhasesDiffer ==
  /\ Absent # Connecting /\ Absent # Done /\ Connecting # Done
  /\ \A c : Handshaking(c) # Absent /\ Handshaking(c) # Done
BY DEF Absent, Connecting, Done, Handshaking

(* The endpoints a worker still has to report.                             *)
Open(w) == {e \in EndpointsOf(w) : w.check[e] # Done}

CountInv == \A w \in workers : w.left = Cardinality(Open(w)) /\ w.left > 0

LEMMA OpenFinite ==
  ASSUME NEW w
  PROVE  IsFiniteSet(Open(w))
<1>1. Open(w) \subseteq Endpoint
  BY DEF Open, EndpointsOf
<1> QED
  BY <1>1, EndpointAssumption, FS_Subset

LEMMA CountCreated ==
  ASSUME TypeOK, NEW v, Created(v)
  PROVE  v.left = Cardinality(Open(v)) /\ v.left > 0
<1>1. PICK l \in lookups, E \in SUBSET Endpoint : E # {} /\ v = CreateWorker(l, E)
  BY DEF Created
<1>2. /\ v.left = Cardinality(E)
      /\ v.check = [e \in Endpoint |-> IF e \in E THEN Connecting ELSE Absent]
  BY <1>1 DEF CreateWorker
<1>3. Open(v) = E
  BY <1>2, PhasesDiffer DEF Open, EndpointsOf
<1>4. IsFiniteSet(E) /\ Cardinality(E) \in Nat
  BY EndpointAssumption, FS_Subset, FS_CardinalityType
<1>5. Cardinality(E) # 0
  BY <1>1, <1>4, FS_EmptySet
<1> QED
  BY <1>2, <1>3, <1>4, <1>5

LEMMA CountShaking ==
  ASSUME TypeOK, CountInv, NEW v, Shaking(v)
  PROVE  v.left = Cardinality(Open(v)) /\ v.left > 0
<1>1. PICK w \in workers, e \in Endpoint, c \in Endpoint :
        w.check[e] = Connecting /\ v = MovedTo(w, e, Handshaking(c))
  BY DEF Shaking
<1>2. Handshaking(c) \in Phase /\ w \in Worker
  BY DEF Phase, TypeOK
<1>3. v.left = w.left /\ v.check = [w.check EXCEPT ![e] = Handshaking(c)]
  BY <1>1, <1>2, MovedToType
<1>4. w.check \in [Endpoint -> Phase]
  BY <1>2 DEF Worker
<1>5. Open(v) = Open(w)
  <2>1. \A d \in Endpoint : d # e => v.check[d] = w.check[d]
    BY <1>3, <1>4
  <2>2. v.check[e] = Handshaking(c)
    BY <1>3, <1>4
  <2>3. \A d \in Endpoint : d \in Open(v) <=> d \in Open(w)
    BY <1>1, <2>1, <2>2, PhasesDiffer DEF Open, EndpointsOf
  <2> QED
    BY <2>3 DEF Open, EndpointsOf
<1> QED
  BY <1>3, <1>5 DEF CountInv

LEMMA CountReported ==
  ASSUME TypeOK, CountInv, NEW v, Reported(v)
  PROVE  v.left = Cardinality(Open(v)) /\ v.left > 0
<1>1. PICK w \in workers, e \in Endpoint :
        /\ w.check[e] # Absent /\ w.check[e] # Done
        /\ v = AfterCall(w, e) /\ v.left # 0
  BY DEF Reported
<1>2. w \in Worker
  BY DEF TypeOK
<1>3. v.left = w.left - 1 /\ v.check = [w.check EXCEPT ![e] = Done]
  BY <1>1, <1>2, AfterCallType
<1>4. w.check \in [Endpoint -> Phase]
  BY <1>2 DEF Worker
<1>5. Open(v) = Open(w) \ {e} /\ e \in Open(w)
  <2>1. \A d \in Endpoint : d # e => v.check[d] = w.check[d]
    BY <1>3, <1>4
  <2>2. v.check[e] = Done
    BY <1>3, <1>4
  <2>3. \A d \in Endpoint : d \in Open(v) <=> d \in Open(w) /\ d # e
    BY <2>1, <2>2, PhasesDiffer DEF Open, EndpointsOf
  <2>4. e \in Open(w)
    BY <1>1 DEF Open, EndpointsOf
  <2> QED
    BY <2>3, <2>4 DEF Open, EndpointsOf
<1>6. /\ w.left = Cardinality(Open(w)) /\ w.left > 0
      /\ Cardinality(Open(w)) \in Nat
  BY OpenFinite, FS_CardinalityType DEF CountInv
<1>7. Cardinality(Open(v)) = Cardinality(Open(w)) - 1
  BY <1>5, OpenFinite, FS_RemoveElement
<1> QED
  BY <1>1, <1>3, <1>6, <1>7

LEMMA CountStep == TypeOK /\ CountInv /\ [Next]_vars => CountInv'
<1> SUFFICES ASSUME TypeOK, CountInv, [Next]_vars, NEW v \in workers'
             PROVE  v.left = Cardinality(Open(v)) /\ v.left > 0
  BY DEF CountInv
<1>1. CASE v \in workers
  BY <1>1 DEF CountInv
<1> QED
  BY <1>1, WorkerKinds, CountCreated, CountShaking, CountReported

(* callback_countdown_ is exact: "finished" comes with the last report of  *)
(* a worker and with no other.                                             *)
THEOREM CountdownIsExact == Spec => []CountdownExact
<1>1. Init => CountInv
  BY DEF Init, CountInv
<1>2. CountInv => CountdownExact
  BY DEF CountInv, CountdownExact, Open
<1> QED
  BY <1>1, <1>2, TypeInit, TypeStep, CountStep, PTL DEF Spec

-----------------------------------------------------------------------------
(* What is handed out is vouched for by a peer *)

(* The endpoints that a lookup of n brought together with a peer that      *)
(* passed the handshake under n.                                           *)
Backed == [n \in Names |-> UNION {A \in resolved[n] : A \cap verified[n] # {}}]

(* A worker checks the endpoints of one answer, and connects to no others; *)
(* whatever is cached or handed out is backed.                             *)
BackInv ==
  /\ \A w \in workers : EndpointsOf(w) \in resolved[w.name]
  /\ \A w \in workers : \A e, c \in Endpoint :
       w.check[e] = Handshaking(c) => c \in EndpointsOf(w)
  /\ \A n \in Names : trusted[n] \subseteq Backed[n]
  /\ \A r \in Requests : \A i \in DOMAIN answers[r] :
       answers[r][i] \subseteq Backed[host[r]]

LEMMA HistoriesGrow ==
  ASSUME TypeOK, [Next]_vars, NEW n \in Names
  PROVE  resolved[n] \subseteq resolved'[n] /\ verified[n] \subseteq verified'[n]
<1>1. CASE Ask
  BY <1>1 DEF Ask, CheckCertificateOf
<1>2. CASE Resolve
  <2>1. PICK l \in lookups, more \in BOOLEAN, results \in SUBSET Addresses :
          ResolveCallback(l, more, results)
    BY <1>2 DEF Resolve
  <2> DEFINE accepted ==
               RemoveV6AndBlockedEndpoints([addr : results, port : {l.port}])
  <2>2. /\ UNCHANGED verified /\ l.name \in Names
        /\ resolved' = IF accepted = {} THEN resolved
                       ELSE [resolved EXCEPT ![l.name] = @ \cup {accepted}]
    BY <2>1, AcceptedType DEF ResolveCallback
  <2> HIDE DEF accepted
  <2> QED
    BY <2>2 DEF TypeOK
<1>3. CASE Check
  <2>1. PICK w \in workers : \E e \in EndpointsOf(w) : CheckEndpoint(w, e)
    BY <1>3 DEF Check
  <2>2. PICK e \in EndpointsOf(w) : CheckEndpoint(w, e)
    BY <2>1
  <2>3. w.name \in Names
    BY DEF TypeOK, Worker
  <2>4. \/ UNCHANGED verified
        \/ verified' = [verified EXCEPT ![w.name] = @ \cup {w.check[e].peer}]
    BY <2>2 DEF CheckEndpoint, Connected, ConnectFailed, HandshakeFailed, HandshakeGood
  <2>5. UNCHANGED resolved
    BY <2>2 DEF CheckEndpoint
  <2> QED
    BY <2>3, <2>4, <2>5 DEF TypeOK
<1>4. CASE Tick
  BY <1>4 DEF Tick
<1>5. CASE UNCHANGED vars
  BY <1>5 DEF vars
<1> QED
  BY <1>1, <1>2, <1>3, <1>4, <1>5 DEF Next

LEMMA BackedGrows ==
  ASSUME TypeOK, [Next]_vars, NEW n \in Names
  PROVE  Backed[n] \subseteq Backed'[n]
BY HistoriesGrow DEF Backed

(* The host of a request stays what it was asked for.                      *)
LEMMA HostStays ==
  ASSUME TypeOK, [Next]_vars, NEW r \in Requests, host[r] \in Names
  PROVE  host'[r] = host[r]
<1>1. CASE Asked
  <2>1. PICK q \in Requests, n \in Names, p \in Ports : CheckCertificateOf(q, n, p)
    BY <1>1 DEF Asked
  <2>2. host[q] = NoName /\ host' = [host EXCEPT ![q] = n]
    BY <2>1, AskedEffect
  <2> QED
    BY <2>2, NamesAssumption DEF TypeOK
<1> QED
  BY <1>1, StepKinds DEF Finished, Good, Elsewhere

(* Who has been answered has asked.                                        *)
LEMMA AnsweredHost ==
  ASSUME TypeOK, CoreInv, NEW r \in Requests, NEW i \in DOMAIN answers[r]
  PROVE  host[r] \in Names
<1>1. answers[r] # <<>>
  OBVIOUS
<1> QED
  BY <1>1 DEF TypeOK, CoreInv, NothingBeforeAsked

LEMMA BackAnswers ==
  ASSUME TypeOK, CoreInv, BackInv, [Next]_vars, NEW E \in SUBSET Endpoint,
         \A r \in Requests :
           \/ answers'[r] = answers[r]
           \/ answers'[r] = Append(answers[r], E) /\ E \subseteq Backed'[host'[r]]
  PROVE  \A r \in Requests : \A i \in DOMAIN answers'[r] :
           answers'[r][i] \subseteq Backed'[host'[r]]
<1> SUFFICES ASSUME NEW r \in Requests, NEW i \in DOMAIN answers'[r]
             PROVE  answers'[r][i] \subseteq Backed'[host'[r]]
  OBVIOUS
<1>1. ASSUME i \in DOMAIN answers[r], answers'[r][i] = answers[r][i]
      PROVE  answers'[r][i] \subseteq Backed'[host'[r]]
  <2>1. host[r] \in Names
    BY <1>1, AnsweredHost
  <2>2. answers[r][i] \subseteq Backed[host[r]]
    BY <1>1 DEF BackInv
  <2>3. Backed[host[r]] \subseteq Backed'[host[r]]
    BY <2>1, BackedGrows
  <2>4. host'[r] = host[r]
    BY <2>1, HostStays
  <2> QED
    BY <1>1, <2>2, <2>3, <2>4
<1>2. CASE answers'[r] = answers[r]
  BY <1>1, <1>2
<1>3. CASE answers'[r] = Append(answers[r], E) /\ E \subseteq Backed'[host'[r]]
  <2>1. answers[r] \in Seq(SUBSET Endpoint)
    BY DEF TypeOK
  <2>2. i \in 1..(Len(answers[r]) + 1)
    BY <1>3, <2>1
  <2>3. CASE i = Len(answers[r]) + 1
    <3>1. answers'[r][i] = E
      BY <1>3, <2>1, <2>3
    <3> QED
      BY <1>3, <3>1
  <2>4. CASE i # Len(answers[r]) + 1
    <3>1. i \in DOMAIN answers[r] /\ answers'[r][i] = answers[r][i]
      BY <1>3, <2>1, <2>2, <2>4
    <3> QED
      BY <1>1, <3>1
  <2> QED
    BY <2>3, <2>4
<1> QED
  BY <1>2, <1>3

(* The endpoints of a worker are those of an answer, and it shakes hands   *)
(* with one of them.                                                       *)
LEMMA BackWorkers ==
  ASSUME TypeOK, BackInv, [Next]_vars, NEW v \in workers'
  PROVE  /\ EndpointsOf(v) \in resolved'[v.name]
         /\ \A e, c \in Endpoint :
              v.check[e] = Handshaking(c) => c \in EndpointsOf(v)
<1>1. CASE v \in workers
  <2>1. v.name \in Names
    BY <1>1 DEF TypeOK, Worker
  <2> QED
    BY <1>1, <2>1, HistoriesGrow DEF BackInv
<1>2. CASE Created(v)
  <2>1. PICK l \in lookups, E \in SUBSET Endpoint :
          E \in resolved'[l.name] /\ v = CreateWorker(l, E)
    BY <1>2 DEF Created
  <2>2. /\ v.name = l.name
        /\ v.check = [e \in Endpoint |-> IF e \in E THEN Connecting ELSE Absent]
    BY <2>1 DEF CreateWorker
  <2>3. EndpointsOf(v) = E
    BY <2>2, PhasesDiffer DEF EndpointsOf
  <2>4. \A e, c \in Endpoint : v.check[e] # Handshaking(c)
    BY <2>2 DEF Connecting, Absent, Handshaking
  <2> QED
    BY <2>1, <2>2, <2>3, <2>4
<1>3. ASSUME NEW w \in workers, NEW e \in Endpoint, NEW phase \in Phase,
             w.check[e] # Absent, phase # Absent, v.name = w.name,
             v.check = [w.check EXCEPT ![e] = phase],
             \A c \in Endpoint : phase = Handshaking(c) => c \in EndpointsOf(w)
      PROVE  /\ EndpointsOf(v) \in resolved'[v.name]
             /\ \A d, c \in Endpoint :
                  v.check[d] = Handshaking(c) => c \in EndpointsOf(v)
  <2>1. w.check \in [Endpoint -> Phase] /\ w.name \in Names
    BY DEF TypeOK, Worker
  <2>2. v.check[e] = phase /\ \A d \in Endpoint : d # e => v.check[d] = w.check[d]
    BY <1>3, <2>1
  <2>3. EndpointsOf(v) = EndpointsOf(w)
    BY <1>3, <2>2 DEF EndpointsOf
  <2>4. EndpointsOf(w) \in resolved'[w.name]
    BY <2>1, HistoriesGrow DEF BackInv
  <2>5. ASSUME NEW d \in Endpoint, NEW c \in Endpoint, v.check[d] = Handshaking(c)
        PROVE  c \in EndpointsOf(w)
    BY <1>3, <2>2, <2>5 DEF BackInv
  <2> QED
    BY <1>3, <2>3, <2>4, <2>5
<1>4. CASE Shaking(v)
  <2>1. PICK w \in workers, e \in Endpoint, c \in Endpoint :
          /\ w.check[e] = Connecting /\ c \in EndpointsOf(w)
          /\ v = MovedTo(w, e, Handshaking(c))
    BY <1>4 DEF Shaking
  <2>2. Handshaking(c) \in Phase /\ w \in Worker
    BY DEF Phase, TypeOK
  <2>3. v.name = w.name /\ v.check = [w.check EXCEPT ![e] = Handshaking(c)]
    BY <2>1, <2>2, MovedToType
  <2>4. \A d \in Endpoint : Handshaking(c) = Handshaking(d) => d = c
    BY DEF Handshaking
  <2> QED
    BY <1>3, <2>1, <2>2, <2>3, <2>4, PhasesDiffer
<1>5. CASE Reported(v)
  <2>1. PICK w \in workers, e \in Endpoint :
          w.check[e] # Absent /\ v = AfterCall(w, e)
    BY <1>5 DEF Reported
  <2>2. w \in Worker /\ Done \in Phase
    BY DEF TypeOK, Phase
  <2>3. v.name = w.name /\ v.check = [w.check EXCEPT ![e] = Done]
    BY <2>1, <2>2, AfterCallType
  <2> QED
    BY <1>3, <2>1, <2>2, <2>3, PhasesDiffer
<1> QED
  BY <1>1, <1>2, <1>4, <1>5, WorkerKinds

LEMMA BackStep == TypeOK /\ CoreInv /\ BackInv /\ [Next]_vars => BackInv'
<1> SUFFICES ASSUME TypeOK, CoreInv, BackInv, [Next]_vars PROVE BackInv'
  OBVIOUS
<1>1. \A v \in workers' :
        /\ EndpointsOf(v) \in resolved'[v.name]
        /\ \A e, c \in Endpoint : v.check[e] = Handshaking(c) => c \in EndpointsOf(v)
  BY BackWorkers
<1> SUFFICES /\ \A n \in Names : trusted'[n] \subseteq Backed'[n]
             /\ \A r \in Requests : \A i \in DOMAIN answers'[r] :
                  answers'[r][i] \subseteq Backed'[host'[r]]
  BY <1>1 DEF BackInv
<1>2. \A n \in Names : trusted[n] \subseteq Backed'[n]
  BY BackedGrows DEF BackInv
<1>3. CASE Asked
  <2>1. PICK r \in Requests, n \in Names, p \in Ports : CheckCertificateOf(r, n, p)
    BY <1>3 DEF Asked
  <2>2. /\ host' = [host EXCEPT ![r] = n]
        /\ \A m \in Names : trusted'[m] = {} \/ trusted'[m] = trusted[m]
        /\ UNCHANGED answers \/ Answer({r}, {}) \/ Answer({r}, trusted[n])
    BY <2>1, AskedEffect
  <2>3. host'[r] = n /\ trusted[n] \in SUBSET Endpoint
    BY <2>2 DEF TypeOK
  <2>4. PICK E \in {{}, trusted[n]} : UNCHANGED answers \/ Answer({r}, E)
    BY <2>2
  <2>5. /\ {r} \in SUBSET Requests /\ E \in SUBSET Endpoint
        /\ E \subseteq Backed'[host'[r]]
    BY <1>2, <2>3
  <2>6. \A q \in Requests :
          \/ answers'[q] = answers[q]
          \/ answers'[q] = Append(answers[q], E) /\ E \subseteq Backed'[host'[q]]
    <3>1. CASE UNCHANGED answers
      BY <3>1
    <3>2. CASE Answer({r}, E)
      <4>1. /\ answers'[r] = Append(answers[r], E)
            /\ \A q \in Requests \ {r} : answers'[q] = answers[q]
        BY <2>5, <3>2, AnswerEffect
      <4> QED
        BY <2>5, <4>1
    <3> QED
      BY <2>4, <3>1, <3>2
  <2> QED
    BY <1>2, <2>2, <2>5, <2>6, BackAnswers
<1>4. ASSUME NEW n \in Names, NEW E \in SUBSET Endpoint, E \subseteq Backed'[n],
             Answer(pending[n], E), UNCHANGED host
      PROVE  \A r \in Requests : \A i \in DOMAIN answers'[r] :
               answers'[r][i] \subseteq Backed'[host'[r]]
  <2>1. pending[n] \in SUBSET Requests /\ \A r \in pending[n] : host[r] = n
    BY DEF TypeOK, CoreInv, WaitersArePending
  <2>2. \A q \in Requests :
          \/ answers'[q] = answers[q]
          \/ answers'[q] = Append(answers[q], E) /\ E \subseteq Backed'[host'[q]]
    BY <1>4, <2>1, AnswerEffect
  <2> QED
    BY <2>2, BackAnswers
<1>5. CASE Finished
  <2>1. PICK n \in Names : WorkerResultFinished(n)
    BY <1>5 DEF Finished
  <2>2. /\ Answer(pending[n], trusted[n]) /\ UNCHANGED <<trusted, host>>
        /\ trusted[n] \in SUBSET Endpoint
    BY <1>5, <2>1 DEF Finished, WorkerResultFinished, Deliver, TypeOK
  <2> QED
    BY <1>2, <1>4, <2>2
<1>6. CASE Good
  <2>1. PICK n \in Names, e \in Endpoint :
          /\ WorkerResultGood(n, e)
          /\ \E w \in workers : /\ w.name = n /\ e \in EndpointsOf(w)
                                /\ w.check[e].at = "handshake"
                                /\ w.check[e].peer \in verified'[n]
    BY <1>6 DEF Good
  <2>2. e \in Backed'[n]
    <3>1. PICK w \in workers : /\ w.name = n /\ e \in EndpointsOf(w)
                               /\ w.check[e].at = "handshake"
                               /\ w.check[e].peer \in verified'[n]
      BY <2>1
    <3>2. w.check[e] \in Phase
      BY DEF TypeOK, Worker
    <3>3. PICK c \in Endpoint : w.check[e] = Handshaking(c)
      BY <3>1, <3>2 DEF Phase, Absent, Connecting, Done
    <3>4. c \in EndpointsOf(w) /\ c \in verified'[n]
      BY <3>1, <3>3 DEF BackInv, Handshaking
    <3>5. EndpointsOf(w) \in resolved'[n]
      BY <3>1, HistoriesGrow DEF BackInv
    <3> QED
      BY <3>1, <3>4, <3>5 DEF Backed
  <2>3. /\ Answer(pending[n], trusted[n] \cup {e}) /\ UNCHANGED host
        /\ trusted[n] \cup {e} \in SUBSET Endpoint
    BY <1>6, <2>1 DEF Good, WorkerResultGood, Deliver, TypeOK
  <2>4. /\ trusted'[n] = trusted[n] \cup {e}
        /\ \A m \in Names \ {n} : trusted'[m] = {} \/ trusted'[m] = trusted[m]
    BY <2>1, RememberEffect DEF WorkerResultGood
  <2>5. \A m \in Names : trusted'[m] \subseteq Backed'[m]
    BY <1>2, <2>2, <2>4
  <2>6. trusted[n] \cup {e} \subseteq Backed'[n]
    BY <1>2, <2>2
  <2> QED
    BY <1>4, <2>3, <2>5, <2>6
<1>7. CASE Elsewhere
  <2>1. UNCHANGED <<answers, trusted>>
    BY <1>7 DEF Elsewhere
  <2> QED
    BY <1>2, <2>1, BackAnswers
<1> QED
  BY <1>3, <1>5, <1>6, <1>7, StepKinds

(* Every endpoint that is handed out came from a lookup of that host in    *)
(* one list with a peer that passed the handshake under the host's name.   *)
THEOREM NothingUnvouchedIsGiven == Spec => []VouchedByPeer
<1>1. Init => BackInv
  BY DEF Init, BackInv
<1>2. TypeOK /\ CoreInv /\ BackInv => VouchedByPeer
  <2> SUFFICES ASSUME TypeOK, CoreInv, BackInv, NEW r \in Requests,
                      NEW i \in DOMAIN answers[r], NEW e \in answers[r][i]
               PROVE  \E endpoints \in resolved[host[r]] :
                        e \in endpoints /\ endpoints \cap verified[host[r]] # {}
    BY DEF VouchedByPeer
  <2>1. host[r] \in Names
    BY AnsweredHost
  <2>2. e \in Backed[host[r]]
    BY DEF BackInv
  <2> QED
    BY <2>1, <2>2 DEF Backed
<1> QED
  BY <1>1, <1>2, TypeInit, TypeStep, CoreInit, CoreStep, BackStep, PTL DEF Spec

-----------------------------------------------------------------------------
(* Refused addresses *)

Allowed == {e \in Endpoint : e.addr \in Acceptable}

(* Whatever is checked, cached or handed out has passed the filter.        *)
FilterInv ==
  /\ \A w \in workers : EndpointsOf(w) \subseteq Allowed
  /\ \A n \in Names : trusted[n] \subseteq Allowed
  /\ \A r \in Requests : \A i \in DOMAIN answers[r] : answers[r][i] \subseteq Allowed

LEMMA FilterAnswer ==
  ASSUME TypeOK, FilterInv, NEW R \in SUBSET Requests, NEW E \in SUBSET Allowed,
         Answer(R, E)
  PROVE  \A r \in Requests : \A i \in DOMAIN answers'[r] :
           answers'[r][i] \subseteq Allowed
<1>1. E \in SUBSET Endpoint
  BY DEF Allowed
<1>2. /\ \A r \in R : answers'[r] = Append(answers[r], E)
      /\ \A r \in Requests \ R : answers'[r] = answers[r]
  BY <1>1, AnswerEffect
<1> SUFFICES ASSUME NEW r \in Requests, NEW i \in DOMAIN answers'[r]
             PROVE  answers'[r][i] \subseteq Allowed
  OBVIOUS
<1>3. CASE r \in R
  <2>1. answers[r] \in Seq(SUBSET Endpoint)
    BY DEF TypeOK
  <2>2. i \in 1..(Len(answers[r]) + 1)
    BY <1>2, <1>3, <2>1
  <2>3. CASE i = Len(answers[r]) + 1
    BY <1>2, <1>3, <2>1, <2>3
  <2>4. CASE i # Len(answers[r]) + 1
    <3>1. i \in DOMAIN answers[r] /\ answers'[r][i] = answers[r][i]
      BY <1>2, <1>3, <2>1, <2>2, <2>4
    <3> QED
      BY <3>1 DEF FilterInv
  <2> QED
    BY <2>3, <2>4
<1>4. CASE r \notin R
  BY <1>2, <1>4 DEF FilterInv
<1> QED
  BY <1>3, <1>4

(* The endpoints of a worker pass the filter when it is created, and no    *)
(* others are added.                                                       *)
LEMMA FilterWorkers ==
  ASSUME TypeOK, FilterInv, [Next]_vars, NEW v \in workers'
  PROVE  EndpointsOf(v) \subseteq Allowed
<1>1. CASE v \in workers
  BY <1>1 DEF FilterInv
<1>2. CASE Created(v)
  <2>1. PICK l \in lookups, E \in SUBSET Endpoint :
          (\A e \in E : e.addr \in Acceptable) /\ v = CreateWorker(l, E)
    BY <1>2 DEF Created
  <2>2. v.check = [e \in Endpoint |-> IF e \in E THEN Connecting ELSE Absent]
    BY <2>1 DEF CreateWorker
  <2> QED
    BY <2>1, <2>2 DEF EndpointsOf, Allowed
<1>3. ASSUME NEW w \in workers, NEW e \in Endpoint, NEW phase,
             w.check[e] # Absent, v.check = [w.check EXCEPT ![e] = phase]
      PROVE  EndpointsOf(v) \subseteq Allowed
  <2>1. w.check \in [Endpoint -> Phase]
    BY DEF TypeOK, Worker
  <2>2. \A d \in Endpoint : d # e => v.check[d] = w.check[d]
    BY <1>3, <2>1
  <2>3. EndpointsOf(v) \subseteq EndpointsOf(w)
    BY <1>3, <2>2 DEF EndpointsOf
  <2> QED
    BY <2>3 DEF FilterInv
<1>4. CASE Shaking(v)
  <2>1. PICK w \in workers, e \in Endpoint, c \in Endpoint :
          w.check[e] = Connecting /\ v = MovedTo(w, e, Handshaking(c))
    BY <1>4 DEF Shaking
  <2>2. Handshaking(c) \in Phase /\ w \in Worker
    BY DEF Phase, TypeOK
  <2>3. v.check = [w.check EXCEPT ![e] = Handshaking(c)]
    BY <2>1, <2>2, MovedToType
  <2> QED
    BY <1>3, <2>1, <2>3, PhasesDiffer
<1>5. CASE Reported(v)
  <2>1. PICK w \in workers, e \in Endpoint :
          w.check[e] # Absent /\ v = AfterCall(w, e)
    BY <1>5 DEF Reported
  <2>2. w \in Worker
    BY DEF TypeOK
  <2>3. v.check = [w.check EXCEPT ![e] = Done]
    BY <2>1, <2>2, AfterCallType
  <2> QED
    BY <1>3, <2>1, <2>3
<1> QED
  BY <1>1, <1>2, <1>4, <1>5, WorkerKinds

LEMMA FilterStep == TypeOK /\ FilterInv /\ [Next]_vars => FilterInv'
<1> SUFFICES ASSUME TypeOK, FilterInv, [Next]_vars PROVE FilterInv'
  OBVIOUS
<1>1. \A v \in workers' : EndpointsOf(v) \subseteq Allowed
  BY FilterWorkers
<1> SUFFICES /\ \A n \in Names : trusted'[n] \subseteq Allowed
             /\ \A r \in Requests : \A i \in DOMAIN answers'[r] :
                  answers'[r][i] \subseteq Allowed
  BY <1>1 DEF FilterInv
<1>2. CASE Asked
  <2>1. PICK r \in Requests, n \in Names, p \in Ports : CheckCertificateOf(r, n, p)
    BY <1>2 DEF Asked
  <2>2. /\ \A m \in Names : trusted'[m] = {} \/ trusted'[m] = trusted[m]
        /\ UNCHANGED answers \/ Answer({r}, {}) \/ Answer({r}, trusted[n])
    BY <2>1, AskedEffect
  <2>3. /\ {r} \in SUBSET Requests
        /\ {} \in SUBSET Allowed /\ trusted[n] \in SUBSET Allowed
    BY DEF FilterInv
  <2>4. \A q \in Requests : \A i \in DOMAIN answers'[q] :
          answers'[q][i] \subseteq Allowed
    <3>1. CASE UNCHANGED answers
      BY <3>1 DEF FilterInv
    <3>2. CASE Answer({r}, {})
      BY <2>3, <3>2, FilterAnswer
    <3>3. CASE Answer({r}, trusted[n])
      BY <2>3, <3>3, FilterAnswer
    <3> QED
      BY <2>2, <3>1, <3>2, <3>3
  <2> QED
    BY <2>2, <2>4 DEF FilterInv
<1>3. CASE Finished
  <2>1. PICK n \in Names : WorkerResultFinished(n)
    BY <1>3 DEF Finished
  <2>2. /\ Answer(pending[n], trusted[n]) /\ UNCHANGED trusted
        /\ pending[n] \in SUBSET Requests /\ trusted[n] \in SUBSET Allowed
    BY <2>1 DEF WorkerResultFinished, Deliver, TypeOK, FilterInv
  <2> QED
    BY <2>2, FilterAnswer DEF FilterInv
<1>4. CASE Good
  <2>1. PICK n \in Names, e \in Endpoint :
          WorkerResultGood(n, e) /\ \E w \in workers : e \in EndpointsOf(w)
    BY <1>4 DEF Good
  <2>2. e \in Allowed
    BY <2>1 DEF FilterInv
  <2>3. /\ Answer(pending[n], trusted[n] \cup {e})
        /\ pending[n] \in SUBSET Requests
        /\ trusted[n] \cup {e} \in SUBSET Allowed
    BY <2>1, <2>2 DEF WorkerResultGood, Deliver, TypeOK, FilterInv
  <2>4. /\ trusted'[n] = trusted[n] \cup {e}
        /\ \A m \in Names \ {n} : trusted'[m] = {} \/ trusted'[m] = trusted[m]
    BY <2>1, RememberEffect DEF WorkerResultGood
  <2>5. \A m \in Names : trusted'[m] \subseteq Allowed
    BY <2>3, <2>4 DEF FilterInv
  <2> QED
    BY <2>3, <2>5, FilterAnswer
<1>5. CASE Elsewhere
  BY <1>5 DEF Elsewhere, FilterInv
<1> QED
  BY <1>2, <1>3, <1>4, <1>5, StepKinds

(* An address that the policy refuses is never handed out.                 *)
THEOREM NoRefusedAddress == Spec => []AnswersAcceptable
<1>1. Init => FilterInv
  BY DEF Init, FilterInv
<1>2. FilterInv => AnswersAcceptable
  BY DEF FilterInv, AnswersAcceptable, Allowed
<1> QED
  BY <1>1, <1>2, TypeInit, TypeStep, FilterStep, PTL DEF Spec

-----------------------------------------------------------------------------
(* The bound of the cache *)

LEMMA CachedFinite ==
  ASSUME NEW S \in SUBSET Names
  PROVE  IsFiniteSet(S) /\ Cardinality(S) \in Nat
BY NamesAssumption, FS_Subset, FS_CardinalityType

(* Dropping something makes room for one more entry.                       *)
LEMMA RoomForOne ==
  ASSUME NEW S \in SUBSET Names, NEW T \in SUBSET S, T # S, NEW n \in Names
  PROVE  Cardinality(T \cup {n}) <= Cardinality(S)
<1>1. PICK m \in S : m \notin T
  OBVIOUS
<1>2. /\ IsFiniteSet(S \ {m}) /\ Cardinality(S \ {m}) = Cardinality(S) - 1
  BY CachedFinite, FS_RemoveElement
<1>3. Cardinality(T) <= Cardinality(S) - 1
  BY <1>1, <1>2, FS_Subset
<1>4. Cardinality(T \cup {n}) <= Cardinality(T) + 1
  BY CachedFinite, FS_AddElement
<1>5. /\ Cardinality(S) \in Nat /\ Cardinality(T) \in Nat
      /\ Cardinality(T \cup {n}) \in Nat
  BY CachedFinite
<1> QED
  BY <1>3, <1>4, <1>5

LEMMA BoundStep == TypeOK /\ CacheBounded /\ [Next]_vars => CacheBounded'
<1> SUFFICES ASSUME TypeOK, CacheBounded, [Next]_vars PROVE CacheBounded'
  OBVIOUS
<1>1. /\ Cached \in SUBSET Names /\ Cardinality(Cached) \in Nat
      /\ Cached' \in SUBSET Names /\ Cardinality(Cached') \in Nat
      /\ CacheSizeLimit \in Nat
  BY CachedFinite, BoundAssumption DEF Cached
<1>2. ASSUME Cached' \subseteq Cached PROVE CacheBounded'
  <2>1. Cardinality(Cached') <= Cardinality(Cached)
    BY <1>1, <1>2, CachedFinite, FS_Subset
  <2> QED
    BY <1>1, <2>1 DEF CacheBounded
<1>3. CASE Asked
  <2>1. \A m \in Names : trusted'[m] = {} \/ trusted'[m] = trusted[m]
    BY <1>3, AskedEffect DEF Asked
  <2> QED
    BY <1>2, <2>1 DEF Cached
<1>4. CASE Finished
  BY <1>2, <1>4 DEF Finished, WorkerResultFinished, Cached
<1>5. CASE Good
  <2>1. PICK n \in Names, e \in Endpoint : WorkerResultGood(n, e)
    BY <1>5 DEF Good
  <2>2. PICK kept \in Kept(n) :
          trusted' = [m \in Names |-> IF m = n THEN trusted[n] \cup {e}
                                      ELSE IF m \in kept THEN trusted[m] ELSE {}]
    BY <2>1 DEF WorkerResultGood, Remember
  <2>3. Cached' \subseteq (Cached \cap kept) \cup {n}
    BY <2>2 DEF Cached
  <2>4. CASE n \in Cached
    BY <1>2, <2>3, <2>4
  <2>5. CASE n \notin Cached /\ Cardinality(Cached) <= CacheSizeLimit
    <3>1. /\ IsFiniteSet(Cached \cup {n})
          /\ Cardinality(Cached \cup {n}) = Cardinality(Cached) + 1
      BY <1>1, <2>5, CachedFinite, FS_AddElement
    <3>2. Cardinality(Cached') <= Cardinality(Cached \cup {n})
      BY <2>3, <3>1, FS_Subset
    <3> QED
      BY <1>1, <2>5, <3>1, <3>2 DEF CacheBounded
  <2>6. CASE n \notin Cached /\ ~(Cardinality(Cached) <= CacheSizeLimit)
    <3>1. kept \in SUBSET Cached /\ kept # Cached
      BY <2>6 DEF Kept, Expired
    <3>2. Cardinality(kept \cup {n}) <= Cardinality(Cached)
      BY <1>1, <3>1, RoomForOne
    <3>3. IsFiniteSet(kept \cup {n}) /\ Cardinality(kept \cup {n}) \in Nat
      BY <1>1, <3>1, CachedFinite
    <3>4. Cardinality(Cached') <= Cardinality(kept \cup {n})
      BY <2>3, <3>1, <3>3, FS_Subset
    <3> QED
      BY <1>1, <3>2, <3>3, <3>4 DEF CacheBounded
  <2> QED
    BY <2>4, <2>5, <2>6
<1>6. CASE Elsewhere
  BY <1>2, <1>6 DEF Elsewhere, Cached
<1> QED
  BY <1>3, <1>4, <1>5, <1>6, StepKinds

(* The cache has one entry more than cache_size_limit_ at most.            *)
THEOREM CacheStaysBounded == Spec => []CacheBounded
<1>1. Init => CacheBounded
  <2>1. Init => Cached = {}
    BY DEF Init, Cached
  <2>2. Cardinality({}) = 0 /\ 0 <= CacheSizeLimit + 1
    BY BoundAssumption, FS_EmptySet
  <2> QED
    BY <2>1, <2>2 DEF CacheBounded
<1> QED
  BY <1>1, TypeInit, TypeStep, BoundStep, PTL DEF Spec

-----------------------------------------------------------------------------
(* Who waits is waiting for something *)

LEMMA FinishedPending ==
  ASSUME TypeOK, NEW n \in Names, WorkerResultFinished(n)
  PROVE  pending'[n] = {} /\ \A m \in Names \ {n} : pending'[m] = pending[m]
BY DeliverEffect DEF WorkerResultFinished, TypeOK

LEMMA GoodPending ==
  ASSUME TypeOK, NEW n \in Names, NEW e \in Endpoint, WorkerResultGood(n, e)
  PROVE  pending'[n] = {} /\ \A m \in Names \ {n} : pending'[m] = pending[m]
<1>1. trusted[n] \cup {e} \in SUBSET Endpoint
  BY DEF TypeOK
<1> QED
  BY <1>1, DeliverEffect DEF WorkerResultGood

(* What CallHandler does to the lists: the last report of a worker and a   *)
(* good one erase the list of its name, and no other list is touched.      *)
LEMMA RunnerReported ==
  ASSUME TypeOK, NEW w \in workers, NEW e \in EndpointsOf(w),
         CheckEndpoint(w, e), NEW n \in Names
  PROVE  /\ n # w.name => pending'[n] = pending[n]
         /\ pending'[w.name] # {} => UNCHANGED pending
         /\ workers' = Called(w, e) /\ pending'[w.name] # {} =>
              w.left - 1 # 0 \/ \E c \in Endpoint : Connected(w, e, c)
<1>1. w.name \in Names /\ e \in Endpoint
  BY DEF TypeOK, Worker, EndpointsOf
<1>2. CASE \E c \in Endpoint : Connected(w, e, c)
  BY <1>2 DEF Connected
<1>3. CASE CallHandlerError(w, e)
  BY <1>1, <1>3, FinishedPending DEF CallHandlerError, WorkerResultError
<1>4. CASE CallHandlerGood(w, e)
  BY <1>1, <1>4, GoodPending DEF CallHandlerGood
<1> QED
  BY <1>2, <1>3, <1>4
     DEF CheckEndpoint, ConnectFailed, HandshakeFailed, HandshakeGood

LEMMA RunnerStep == TypeOK /\ PendingHasRunner /\ [Next]_vars => PendingHasRunner'
<1> SUFFICES ASSUME TypeOK, PendingHasRunner, [Next]_vars PROVE PendingHasRunner'
  OBVIOUS
<1>1. SUFFICES ASSUME NEW n \in Names, n \notin redirected', pending'[n] # {}
               PROVE  \/ \E l \in lookups' : l.name = n
                      \/ \E v \in workers' : v.name = n
  BY DEF PendingHasRunner
<1>2. CASE Ask
  <2>1. PICK r \in Requests, m \in Names, p \in Ports : CheckCertificateOf(r, m, p)
    BY <1>2 DEF Ask
  <2>2. UNCHANGED <<workers, redirected>> /\ lookups \subseteq lookups'
    BY <2>1 DEF CheckCertificateOf, AskCached, AskPending, AskResolve, AskTooLong
  <2>3. CASE pending[n] # {}
    BY <1>1, <2>2, <2>3 DEF PendingHasRunner
  <2>4. CASE pending[n] = {}
    <3>1. AskResolve(r, m, p) /\ m = n
      BY <1>1, <2>1, <2>4
         DEF CheckCertificateOf, AskCached, AskPending, AskResolve, AskTooLong, TypeOK
    <3> DEFINE asked == [starter |-> r, redirect |-> 0, name |-> m, port |-> p,
                         calls |-> 0]
    <3>2. asked \in lookups' /\ asked.name = n
      BY <3>1 DEF AskResolve
    <3> QED
      BY <3>2
  <2> QED
    BY <2>3, <2>4
<1>3. CASE Resolve
  <2>1. PICK l \in lookups, more \in BOOLEAN, results \in SUBSET Addresses :
          ResolveCallback(l, more, results)
    BY <1>3 DEF Resolve
  <2>2. l.name \in Names
    BY AcceptedType
  <2>3. \A k \in lookups : k.name # l.name => k \in AfterCallback(l, more)
    BY DEF AfterCallback
  <2>4. CASE ResolveFailed(l, more)
    <3>1. /\ UNCHANGED <<workers, redirected>> /\ lookups' = AfterCallback(l, more)
          /\ n # l.name /\ pending'[n] = pending[n]
      BY <1>1, <2>2, <2>4, FinishedPending DEF ResolveFailed
    <3> QED
      BY <1>1, <2>3, <3>1 DEF PendingHasRunner
  <2>5. CASE \E E \in SUBSET Endpoint : ResolveStartsWorker(l, more, E)
    <3>1. PICK E \in SUBSET Endpoint : ResolveStartsWorker(l, more, E)
      BY <2>5
    <3>2. /\ UNCHANGED <<pending, redirected>> /\ lookups' = AfterCallback(l, more)
          /\ workers' = workers \cup {CreateWorker(l, E)}
      BY <3>1 DEF ResolveStartsWorker
    <3>3. CreateWorker(l, E).name = l.name
      BY DEF CreateWorker
    <3> QED
      BY <1>1, <2>3, <3>2, <3>3 DEF PendingHasRunner
  <2>6. CASE ResolveFallsBack(l, more)
    <3>1. /\ redirected' = redirected \cup {l.name} /\ UNCHANGED workers
          /\ AfterCallback(l, more) \subseteq lookups'
      BY <2>6 DEF ResolveFallsBack
    <3>2. pending'[n] # {} => pending[n] # {}
      <4>1. Fallback[l.name] \in Names
        BY <2>2, <2>6, NamesAssumption DEF ResolveFallsBack
      <4>2. CASE UNCHANGED pending
        BY <4>2
      <4>3. CASE WorkerResultFinished(Fallback[l.name])
        BY <4>1, <4>3, FinishedPending
      <4> QED
        BY <2>6, <4>2, <4>3 DEF ResolveFallsBack
    <3> QED
      BY <1>1, <2>3, <3>1, <3>2 DEF PendingHasRunner
  <2> QED
    BY <2>1, <2>4, <2>5, <2>6, AcceptedType DEF ResolveCallback
<1>4. CASE Check
  <2>0. PICK w \in workers : \E e \in EndpointsOf(w) : CheckEndpoint(w, e)
    BY <1>4 DEF Check
  <2>1. PICK e \in EndpointsOf(w) : CheckEndpoint(w, e)
    BY <2>0
  <2>2. UNCHANGED <<lookups, redirected>> /\ e \in Endpoint /\ w \in Worker
    BY <2>1 DEF CheckEndpoint, EndpointsOf, TypeOK
  <2>3. CASE \E c \in Endpoint : Connected(w, e, c)
    <3>1. PICK c \in Endpoint : Connected(w, e, c)
      BY <2>3
    <3>2. /\ UNCHANGED pending
          /\ workers' = (workers \ {w}) \cup {MovedTo(w, e, Handshaking(c))}
      BY <3>1 DEF Connected
    <3>3. MovedTo(w, e, Handshaking(c)).name = w.name
      BY <2>2 DEF MovedTo, Worker
    <3> QED
      BY <1>1, <2>2, <3>2, <3>3 DEF PendingHasRunner
  <2>4. CASE workers' = Called(w, e) /\ ~(\E c \in Endpoint : Connected(w, e, c))
    <3>1. \A v \in workers : v # w => v \in workers'
      BY <2>2, <2>4, CalledEffect
    <3>2. CASE n = w.name
      <4>1. UNCHANGED pending /\ w.left - 1 # 0
        BY <1>1, <2>1, <2>2, <2>4, <3>2, RunnerReported
      <4>2. AfterCall(w, e) \in workers' /\ AfterCall(w, e).name = w.name
        BY <2>2, <2>4, <4>1 DEF Called, AfterCall, MovedTo, Worker
      <4> QED
        BY <3>2, <4>2
    <3>3. CASE n # w.name
      <4>1. pending'[n] = pending[n]
        BY <2>1, <2>2, <3>3, RunnerReported
      <4> QED
        BY <1>1, <2>2, <3>1, <3>3, <4>1 DEF PendingHasRunner
    <3> QED
      BY <3>2, <3>3
  <2> QED
    BY <2>1, <2>3, <2>4
       DEF CheckEndpoint, ConnectFailed, HandshakeFailed, HandshakeGood,
           CallHandlerError, CallHandlerGood
<1>5. CASE Tick \/ UNCHANGED vars
  BY <1>1, <1>5 DEF Tick, vars, PendingHasRunner
<1> QED
  BY <1>2, <1>3, <1>4, <1>5 DEF Next

(* Whoever waits for a name that was not given up for its fallback waits   *)
(* for a lookup or a worker that reports under it.                         *)
THEOREM NobodyWaitsForNothing == Spec => []PendingHasRunner
<1>1. Init => PendingHasRunner
  BY DEF Init, PendingHasRunner
<1> QED
  BY <1>1, TypeInit, TypeStep, RunnerStep, PTL DEF Spec
=============================================================================
