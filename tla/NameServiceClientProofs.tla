----------------------- MODULE NameServiceClientProofs -----------------------
(***************************************************************************)
(* Theorems about NameServiceClient, for every set of names and every      *)
(* limit of attempts.                                                      *)
(***************************************************************************)
EXTENDS NameServiceClient, SequenceTheorems, TLAPS

-----------------------------------------------------------------------------
(* What the attempts so far may have caused: every attempt but the running *)
(* one has called handler_ once at most, and giving up calls it once more. *)

Calls == Len(callbacks)

FewCalls     == Calls <= MaxAttempts + 1
GivenUpCalls == Calls <= MaxAttempts
LateCalls    == attempts \in 1..MaxAttempts /\ Calls <= attempts
EarlyCalls   == attempts \in 1..MaxAttempts /\ Calls < attempts
BehindCalls  == attempts \in 2..MaxAttempts /\ Calls + 1 < attempts

(* Queues of one completion and of two, kept folded in the proofs.         *)
One(a) == <<a>>
Two(a, b) == <<a, b>>

(* The client has one thing at a time to wait for.  Each of these is what  *)
(* ready, the socket and the timer are together at some moment.            *)

(* Nothing is under way: not started, or over.                             *)
Quiet == /\ ready = <<>> \/ ready = One("timer aborted")
         /\ ~receiving /\ ~timing
         /\ FewCalls

(* A query is being sent; no attempt before it calls back any more.        *)
Sending == /\ \E sending \in {"sent", "send error"} : ready = One(sending)
           /\ ~receiving /\ ~timing
           /\ EarlyCalls

(* The same while the receive of the attempt before is being aborted.      *)
SendingBehind == /\ \E sending \in {"sent", "send error"} :
                      ready = Two("receive aborted", sending)
                 /\ ~receiving /\ ~timing
                 /\ BehindCalls

(* The last attempt has been given up, its receive is being aborted.       *)
GivenUp == /\ ready = One("receive aborted")
           /\ ~receiving /\ ~timing
           /\ GivenUpCalls

Waits == /\ ready = <<>>
         /\ receiving /\ timing
         /\ EarlyCalls

Heard == /\ \E heard \in {"reply", "receive error"} :
              ready = IF timing THEN One(heard) ELSE Two(heard, "timer expired")
         /\ ~receiving
         /\ EarlyCalls

(* The timer has expired: alone, or behind a datagram that was handled.    *)
Expiring == /\ ready = One("timer expired")
            /\ ~timing
            /\ IF receiving THEN EarlyCalls ELSE LateCalls

Outcome == {"addresses", "error", "timed out", "invalid name"}

Types == /\ name \in Names \cup {NoName}
         /\ attempts \in Nat
         /\ buffer \in Names \cup {NoName, Reply}
         /\ callbacks \in Seq(Outcome)
         /\ sent \in Seq(Names \cup {NoName, Reply})

(* Before Start.                                                           *)
Untouched == name = NoName => /\ ready = <<>> /\ ~receiving
                              /\ attempts = 0 /\ callbacks = <<>>

StageInv == \/ Quiet \/ Sending \/ SendingBehind \/ GivenUp
            \/ Waits \/ Heard \/ Expiring

IInv == Types /\ Untouched /\ StageInv

-----------------------------------------------------------------------------
(* Queues of one completion or two.                                        *)
LEMMA AppendOne == ASSUME NEW a, NEW b PROVE Append(<<a>>, b) = <<a, b>>
<1> DEFINE S == {a, b}
           s == Append(<<a>>, b)
           t == <<a, b>>
<1>1. s \in Seq(S) /\ Len(s) = 2 /\ s[1] = a /\ s[2] = b
  OBVIOUS
<1>2. t \in Seq(S) /\ Len(t) = 2 /\ t[1] = a /\ t[2] = b
  OBVIOUS
<1> HIDE DEF s, t, S
<1>3. \A i \in 1..Len(s) : s[i] = t[i]
  BY <1>1, <1>2
<1>4. s = t
  BY <1>1, <1>2, <1>3, SeqEqual
<1> QED
  BY <1>4 DEF s, t

LEMMA ShortQueues ==
  ASSUME NEW a, NEW b
  PROVE  /\ One(a) # <<>> /\ Head(One(a)) = a /\ Tail(One(a)) = <<>>
         /\ Two(a, b) # <<>> /\ Head(Two(a, b)) = a /\ Tail(Two(a, b)) = One(b)
         /\ One(a) \o <<>> = One(a) /\ <<>> \o One(a) = One(a)
         /\ One(a) \o One(b) = Two(a, b)
         /\ Append(<<>>, a) = One(a) /\ Append(One(a), b) = Two(a, b)
<1>1. <<a>> \in Seq({a, b}) /\ b \in {a, b}
  OBVIOUS
<1>2. <<a>> \o <<b>> = <<a, b>>
  BY <1>1, AppendIsConcat, AppendOne
<1> QED
  BY <1>2, AppendOne DEF One, Two

LEMMA NoQueue == <<>> \o <<>> = <<>>
OBVIOUS

(* What a handler that runs can find.                                      *)
LEMMA HeadOfReady ==
  ASSUME IInv, ready # <<>>
  PROVE  /\ name # NoName
         /\ \/ Quiet /\ Head(ready) = "timer aborted" /\ Tail(ready) = <<>>
            \/ /\ Sending
               /\ Head(ready) \in {"sent", "send error"} /\ Tail(ready) = <<>>
            \/ /\ SendingBehind /\ Head(ready) = "receive aborted"
               /\ \E sending \in {"sent", "send error"} : Tail(ready) = One(sending)
            \/ GivenUp /\ Head(ready) = "receive aborted" /\ Tail(ready) = <<>>
            \/ /\ Heard /\ Head(ready) \in {"reply", "receive error"}
               /\ Tail(ready) = IF timing THEN <<>> ELSE One("timer expired")
            \/ Expiring /\ Head(ready) = "timer expired" /\ Tail(ready) = <<>>
<1>1. name # NoName
  BY DEF IInv, Untouched
<1>2. CASE Quiet
  BY <1>1, <1>2, ShortQueues DEF Quiet
<1>3. CASE Sending
  <2>1. PICK sending \in {"sent", "send error"} : ready = One(sending)
    BY <1>3 DEF Sending
  <2>2. Head(ready) = sending /\ Tail(ready) = <<>>
    BY <2>1, ShortQueues
  <2> QED
    BY <1>3, <1>1, <2>2
<1>4. CASE SendingBehind
  <2>1. PICK sending \in {"sent", "send error"} : ready = Two("receive aborted", sending)
    BY <1>4 DEF SendingBehind
  <2>2. Head(ready) = "receive aborted" /\ Tail(ready) = One(sending)
    BY <2>1, ShortQueues
  <2> QED
    BY <1>4, <1>1, <2>2
<1>5. CASE GivenUp
  BY <1>1, <1>5, ShortQueues DEF GivenUp
<1>6. CASE Heard
  <2>1. PICK heard \in {"reply", "receive error"} :
          ready = IF timing THEN One(heard) ELSE Two(heard, "timer expired")
    BY <1>6 DEF Heard
  <2>2. /\ Head(ready) = heard
        /\ Tail(ready) = IF timing THEN <<>> ELSE One("timer expired")
    BY <2>1, ShortQueues
  <2> QED
    BY <1>1, <1>6, <2>1, <2>2
<1>7. CASE Expiring
  BY <1>1, <1>7, ShortQueues DEF Expiring
<1> QED
  BY <1>2, <1>3, <1>4, <1>5, <1>6, <1>7 DEF IInv, StageInv, Waits

-----------------------------------------------------------------------------
(* Attempt either gives up or is sending behind what the caller posted.    *)
LEMMA AttemptEffect ==
  ASSUME NEW query, NEW queue, attempts \in Nat, Attempt(query, queue)
  PROVE  /\ attempts' = attempts + 1
         /\ \/ /\ attempts' > MaxAttempts
               /\ callbacks' = Append(callbacks, "timed out")
               /\ ready' = queue
               /\ UNCHANGED sent
            \/ /\ attempts' <= MaxAttempts
               /\ ready' \in {Append(queue, "sent"), Append(queue, "send error")}
               /\ sent' \in {sent, Append(sent, query)}
               /\ UNCHANGED callbacks
BY ClientAssumption DEF Attempt

(* handler_ is called once more.                                           *)
LEMMA CalledOnce ==
  ASSUME callbacks \in Seq(Outcome), NEW outcome \in Outcome,
         callbacks' = Append(callbacks, outcome)
  PROVE  callbacks' \in Seq(Outcome) /\ Calls' = Calls + 1 /\ Calls \in Nat
BY DEF Calls

(* How what is owed changes: by a call, by another attempt, by giving up.  *)
LEMMA OneCallMore ==
  ASSUME Calls \in Nat, Calls' = Calls + 1, UNCHANGED attempts
  PROVE  /\ EarlyCalls => LateCalls' /\ FewCalls'
         /\ BehindCalls => EarlyCalls'
         /\ GivenUpCalls => FewCalls'
BY ClientAssumption DEF EarlyCalls, LateCalls, FewCalls, BehindCalls, GivenUpCalls

LEMMA OneAttemptMore ==
  ASSUME Calls \in Nat, Calls' = Calls, attempts' = attempts + 1,
         attempts' <= MaxAttempts
  PROVE  (EarlyCalls => BehindCalls') /\ (LateCalls => EarlyCalls')
BY ClientAssumption DEF EarlyCalls, LateCalls, BehindCalls

LEMMA GivingUp ==
  ASSUME Calls \in Nat, Calls' = Calls + 1, attempts' = attempts + 1,
         attempts' > MaxAttempts
  PROVE  (EarlyCalls => GivenUpCalls') /\ (LateCalls => FewCalls')
BY ClientAssumption DEF EarlyCalls, LateCalls, GivenUpCalls, FewCalls

LEMMA SentMore ==
  ASSUME NEW S, sent \in Seq(S), NEW query \in S, sent' \in {sent, Append(sent, query)}
  PROVE  sent' \in Seq(S)
OBVIOUS

LEMMA StartStep ==
  ASSUME IInv, NEW n \in Names, Start(n)
  PROVE  IInv'
<1>1. /\ ready = <<>> /\ ~receiving /\ attempts = 0 /\ callbacks = <<>>
      /\ callbacks \in Seq(Outcome) /\ sent \in Seq(Names \cup {NoName, Reply})
      /\ buffer \in Names \cup {NoName, Reply}
  BY DEF IInv, Types, Untouched, Start
<1>2. Quiet /\ Calls = 0
  BY <1>1, ShortQueues DEF IInv, StageInv, Sending, SendingBehind, GivenUp, Waits,
                           Heard, Expiring, Calls
<1>3. name' = n /\ name' \in Names /\ name' # NoName
  BY ClientAssumption DEF Start
<1>4. ~receiving' /\ ~timing'
  BY <1>2 DEF Start, Quiet
<1>5. CASE callbacks' = Append(callbacks, "invalid name")
           /\ UNCHANGED <<attempts, buffer, ready, sent>>
  <2>1. Calls' = Calls + 1 /\ callbacks' \in Seq(Outcome)
    BY <1>1, <1>5, CalledOnce DEF Outcome
  <2>2. FewCalls'
    BY <1>2, <2>1, ClientAssumption DEF FewCalls
  <2>3. Quiet'
    BY <1>1, <1>4, <1>5, <2>2 DEF Quiet
  <2>4. Types'
    BY <1>1, <1>3, <1>4, <1>5, <2>1 DEF IInv, Types
  <2> QED
    BY <1>3, <2>3, <2>4 DEF IInv, StageInv, Untouched
<1>6. CASE buffer' = n /\ Attempt(n, ready)
  <2>1. attempts' = 1 /\ ~(attempts' > MaxAttempts) /\ attempts' \in Nat
    <3>1. attempts = 0 /\ attempts \in Nat
      BY <1>1
    <3>2. attempts' = attempts + 1
      BY <1>6, <3>1, AttemptEffect
    <3> QED
      BY <3>1, <3>2, ClientAssumption
  <2>2. /\ UNCHANGED callbacks
        /\ \E sending \in {"sent", "send error"} : ready' = Append(<<>>, sending)
        /\ sent' \in {sent, Append(sent, n)}
    <3>1. attempts \in Nat
      BY <1>1
    <3> QED
      BY <1>1, <1>6, <2>1, <3>1, AttemptEffect
  <2>3. sent' \in Seq(Names \cup {NoName, Reply})
    BY <1>1, <2>2, SentMore
  <2>4. Calls' = Calls
    BY <2>2 DEF Calls
  <2>5. EarlyCalls'
    BY <1>2, <2>1, <2>4, ClientAssumption DEF EarlyCalls
  <2>6. \E sending \in {"sent", "send error"} : ready' = One(sending)
    BY <2>2, ShortQueues
  <2>7. Sending'
    BY <1>4, <2>5, <2>6 DEF Sending
  <2>8. Types'
    BY <1>1, <1>3, <1>4, <1>6, <2>1, <2>2, <2>3 DEF IInv, Types
  <2> QED
    BY <1>3, <2>7, <2>8 DEF IInv, StageInv, Untouched
<1> QED
  BY <1>5, <1>6 DEF Start

(* The handlers of a receive, with the timer cancelled.                    *)
LEMMA ReceiveStep ==
  ASSUME IInv, ready # <<>>,
         Head(ready) \in {"reply", "receive error", "receive aborted"},
         CancelTimer, NEW outcome \in Outcome,
         callbacks' = Append(callbacks, outcome),
         buffer' \in Names \cup {NoName, Reply},
         UNCHANGED <<name, attempts, receiving, sent>>
  PROVE  IInv'
<1>1. callbacks' \in Seq(Outcome) /\ Calls' = Calls + 1 /\ Calls \in Nat
  BY CalledOnce DEF IInv, Types
<1>2. Types' /\ name' # NoName
  BY <1>1, HeadOfReady DEF IInv, Types, CancelTimer
<1>3. /\ ~timing'
      /\ ready' = Tail(ready) \o (IF timing THEN One("timer aborted") ELSE <<>>)
  BY DEF CancelTimer, One
<1>4. CASE Heard /\ Tail(ready) = IF timing THEN <<>> ELSE One("timer expired")
  <2>1. LateCalls' /\ FewCalls' /\ ~receiving'
    BY <1>1, <1>4, OneCallMore DEF Heard
  <2>2. CASE timing
    <3>1. ready' = One("timer aborted")
      BY <1>3, <1>4, <2>2, ShortQueues
    <3>2. Quiet'
      BY <1>3, <2>1, <3>1 DEF Quiet
    <3> QED
      BY <1>2, <3>2 DEF IInv, StageInv, Untouched
  <2>3. CASE ~timing
    <3>1. ready' = One("timer expired")
      BY <1>3, <1>4, <2>3, ShortQueues
    <3>2. Expiring'
      BY <1>3, <2>1, <3>1 DEF Expiring
    <3> QED
      BY <1>2, <3>2 DEF IInv, StageInv, Untouched
  <2> QED
    BY <2>2, <2>3
<1>5. CASE SendingBehind
           /\ \E sending \in {"sent", "send error"} : Tail(ready) = One(sending)
  <2>1. \E sending \in {"sent", "send error"} : ready' = One(sending)
    BY <1>3, <1>5, ShortQueues DEF SendingBehind
  <2>2. EarlyCalls' /\ ~receiving'
    BY <1>1, <1>5, OneCallMore DEF SendingBehind
  <2>3. Sending'
    BY <1>3, <2>1, <2>2 DEF Sending
  <2> QED
    BY <1>2, <2>3 DEF IInv, StageInv, Untouched
<1>6. CASE GivenUp /\ Tail(ready) = <<>>
  <2>1. ready' = <<>>
    BY <1>3, <1>6, NoQueue DEF GivenUp
  <2>2. FewCalls' /\ ~receiving'
    BY <1>1, <1>6, OneCallMore DEF GivenUp
  <2>3. Quiet'
    BY <1>3, <2>1, <2>2 DEF Quiet
  <2> QED
    BY <1>2, <2>3 DEF IInv, StageInv, Untouched
<1> QED
  BY <1>4, <1>5, <1>6, HeadOfReady

LEMMA TimerExpiredStep ==
  ASSUME IInv, TimerExpired
  PROVE  /\ IInv'
         /\ \/ callbacks' = Append(callbacks, "timed out")
            \/ UNCHANGED callbacks /\ (Sending' \/ SendingBehind')
<1> DEFINE queue == IF receiving THEN One("receive aborted") ELSE <<>>
<1>1. Expiring /\ Tail(ready) = <<>> /\ name # NoName
  BY HeadOfReady DEF TimerExpired, Run
<1>2. Attempt(buffer, queue)
  <2>1. Tail(ready) \o (IF receiving THEN <<"receive aborted">> ELSE <<>>) = queue
    BY <1>1, ShortQueues, NoQueue DEF One
  <2> QED
    BY <2>1 DEF TimerExpired
<1>3. /\ ~receiving' /\ ~timing' /\ UNCHANGED <<name, buffer>>
      /\ receiving => EarlyCalls
      /\ ~receiving => LateCalls
  BY <1>1 DEF TimerExpired, Expiring
<1>4. /\ callbacks \in Seq(Outcome) /\ attempts \in Nat
      /\ name \in Names \cup {NoName}
      /\ buffer \in Names \cup {NoName, Reply}
      /\ sent \in Seq(Names \cup {NoName, Reply})
  BY DEF IInv, Types
<1>5. Calls \in Nat
  BY <1>4 DEF Calls
<1> HIDE DEF queue
<1>6. /\ attempts' = attempts + 1
      /\ \/ /\ attempts' > MaxAttempts
            /\ callbacks' = Append(callbacks, "timed out")
            /\ ready' = queue
            /\ UNCHANGED sent
         \/ /\ attempts' <= MaxAttempts
            /\ \E sending \in {"sent", "send error"} : ready' = Append(queue, sending)
            /\ sent' \in {sent, Append(sent, buffer)}
            /\ UNCHANGED callbacks
  BY <1>2, <1>4, AttemptEffect
<1>7. attempts' \in Nat
  <2>1. attempts \in Nat /\ attempts' = attempts + 1
    BY <1>4, <1>6
  <2> QED
    BY <2>1
<1>8. CASE attempts' > MaxAttempts /\ callbacks' = Append(callbacks, "timed out")
           /\ ready' = queue /\ UNCHANGED sent
  <2>1. callbacks' \in Seq(Outcome) /\ Calls' = Calls + 1
    BY <1>4, <1>8, CalledOnce DEF Outcome
  <2>2. Types'
    BY <1>1, <1>3, <1>4, <1>7, <1>8, <2>1 DEF Types
  <2>3. (EarlyCalls => GivenUpCalls') /\ (LateCalls => FewCalls')
    BY <1>5, <1>6, <1>8, <2>1, GivingUp
  <2>4. CASE receiving
    <3>1. ready' = One("receive aborted")
      BY <1>8, <2>4 DEF queue
    <3>2. GivenUp'
      BY <1>3, <2>3, <2>4, <3>1 DEF GivenUp
    <3> QED
      BY <1>1, <1>3, <1>8, <2>2, <3>2 DEF IInv, StageInv, Untouched
  <2>5. CASE ~receiving
    <3>1. ready' = <<>>
      BY <1>8, <2>5 DEF queue
    <3>2. Quiet'
      BY <1>3, <2>3, <2>5, <3>1 DEF Quiet
    <3> QED
      BY <1>1, <1>3, <1>8, <2>2, <3>2 DEF IInv, StageInv, Untouched
  <2> QED
    BY <2>4, <2>5
<1>9. CASE /\ attempts' <= MaxAttempts
           /\ \E sending \in {"sent", "send error"} : ready' = Append(queue, sending)
           /\ sent' \in {sent, Append(sent, buffer)}
           /\ UNCHANGED callbacks
  <2>1. Calls' = Calls
    BY <1>9 DEF Calls
  <2>2. sent' \in Seq(Names \cup {NoName, Reply})
    BY <1>4, <1>9, SentMore
  <2>3. Types'
    BY <1>1, <1>3, <1>4, <1>7, <1>9, <2>2 DEF Types
  <2>4. (EarlyCalls => BehindCalls') /\ (LateCalls => EarlyCalls')
    BY <1>5, <1>6, <1>9, <2>1, OneAttemptMore
  <2>5. PICK sending \in {"sent", "send error"} : ready' = Append(queue, sending)
    BY <1>9
  <2>6. CASE receiving
    <3>1. ready' = Two("receive aborted", sending)
      BY <2>5, <2>6, ShortQueues DEF queue
    <3>2. SendingBehind'
      BY <1>3, <2>4, <2>6, <3>1 DEF SendingBehind
    <3> QED
      BY <1>1, <1>3, <1>9, <2>3, <3>2 DEF IInv, StageInv, Untouched
  <2>7. CASE ~receiving
    <3>1. ready' = One(sending)
      BY <2>5, <2>7, ShortQueues DEF queue
    <3>2. Sending'
      BY <1>3, <2>4, <2>7, <3>1 DEF Sending
    <3> QED
      BY <1>1, <1>3, <1>9, <2>3, <3>2 DEF IInv, StageInv, Untouched
  <2> QED
    BY <2>6, <2>7
<1> QED
  BY <1>6, <1>8, <1>9

LEMMA HandlerStep ==
  ASSUME IInv, Handler
  PROVE  IInv'
<1>1. CASE SendDone
  <2>1. Sending /\ Tail(ready) = <<>> /\ name # NoName
    BY <1>1, HeadOfReady DEF SendDone, Run
  <2>2. EarlyCalls'
    BY <1>1, <2>1 DEF SendDone, Sending, EarlyCalls, Calls
  <2>3. Waits'
    BY <1>1, <2>1, <2>2 DEF SendDone, Waits
  <2> QED
    BY <1>1, <2>1, <2>3 DEF SendDone, IInv, Types, StageInv, Untouched
<1>2. CASE SendFailed
  <2>1. Sending /\ Tail(ready) = <<>> /\ name # NoName
    BY <1>2, HeadOfReady DEF SendFailed, Run
  <2>2. callbacks' \in Seq(Outcome) /\ Calls' = Calls + 1 /\ Calls \in Nat
    BY <1>2, CalledOnce DEF SendFailed, IInv, Types, Outcome
  <2>3. FewCalls'
    BY <1>2, <2>1, <2>2, OneCallMore DEF SendFailed, Sending
  <2>4. Quiet'
    BY <1>2, <2>1, <2>3 DEF SendFailed, Sending, Quiet
  <2> QED
    BY <1>2, <2>1, <2>2, <2>4 DEF SendFailed, IInv, Types, StageInv, Untouched
<1>3. CASE ReceiveDone
  BY <1>3, ReceiveStep DEF ReceiveDone, Run, Outcome
<1>4. CASE ReceiveFailed
  <2>1. buffer' \in Names \cup {NoName, Reply}
    BY <1>4 DEF ReceiveFailed, IInv, Types
  <2> QED
    BY <1>4, <2>1, ReceiveStep DEF ReceiveFailed, Run, Outcome
<1>5. CASE TimerExpired
  BY <1>5, TimerExpiredStep
<1>6. CASE TimerAborted
  <2>1. Quiet /\ Tail(ready) = <<>> /\ name # NoName
    BY <1>6, HeadOfReady DEF TimerAborted, Run
  <2>2. Quiet'
    BY <1>6, <2>1 DEF TimerAborted, Quiet, FewCalls, Calls
  <2> QED
    BY <1>6, <2>1, <2>2 DEF TimerAborted, IInv, Types, StageInv, Untouched
<1> QED
  BY <1>1, <1>2, <1>3, <1>4, <1>5, <1>6 DEF Handler

LEMMA ReactorStep ==
  ASSUME IInv, Reactor
  PROVE  IInv' /\ name # NoName /\ Waits /\ (Heard' \/ Expiring')
<1>1. PICK socket \in {<<>>, <<"reply">>, <<"receive error">>},
           timer \in {<<>>, <<"timer expired">>} :
        /\ socket # <<>> => receiving
        /\ timer # <<>> => timing
        /\ ready' = socket \o timer
        /\ ready' # <<>>
        /\ receiving' = (receiving /\ socket = <<>>)
        /\ timing' = (timing /\ timer = <<>>)
  BY DEF Reactor
<1>2. /\ socket = <<>> \/ \E heard \in {"reply", "receive error"} : socket = One(heard)
      /\ timer = <<>> \/ timer = One("timer expired")
      /\ UNCHANGED <<name, attempts, buffer, callbacks, sent>>
  BY DEF Reactor, One
<1>3. socket # <<>> \/ timer # <<>>
  BY <1>1, NoQueue
<1>4. Waits
  BY <1>1, <1>3, ShortQueues
     DEF Reactor, IInv, StageInv, Quiet, Sending, SendingBehind, GivenUp, Heard,
         Expiring
<1>5. Types' /\ name' # NoName
  BY <1>1, <1>2, <1>4 DEF IInv, Types, Untouched, Waits
<1>8. EarlyCalls'
  BY <1>2, <1>4 DEF Waits, EarlyCalls, Calls
<1>6. CASE socket = <<>>
  <2>1. ready' = One("timer expired") /\ receiving' /\ ~timing'
    BY <1>1, <1>2, <1>3, <1>4, <1>6, ShortQueues DEF Waits
  <2>2. Expiring'
    BY <1>8, <2>1 DEF Expiring
  <2> QED
    BY <1>2, <1>4, <1>5, <2>2 DEF IInv, StageInv, Untouched
<1>7. CASE socket # <<>>
  <2>1. PICK heard \in {"reply", "receive error"} : socket = One(heard)
    BY <1>2, <1>7
  <2>2. /\ ~receiving'
        /\ ready' = IF timing' THEN One(heard) ELSE Two(heard, "timer expired")
    BY <1>1, <1>2, <1>4, <1>7, <2>1, ShortQueues DEF Waits
  <2>3. Heard'
    BY <1>8, <2>1, <2>2 DEF Heard
  <2> QED
    BY <1>2, <1>4, <1>5, <2>3 DEF IInv, StageInv, Untouched
<1> QED
  BY <1>6, <1>7

LEMMA InvInit == Init => IInv
<1> SUFFICES ASSUME Init PROVE IInv
  OBVIOUS
<1>1. FewCalls
  BY ClientAssumption DEF Init, FewCalls, Calls
<1>2. Types
  BY DEF Init, Types
<1>3. Quiet
  BY <1>1 DEF Init, Quiet
<1> QED
  BY <1>2, <1>3 DEF Init, IInv, StageInv, Untouched

LEMMA InvStep == IInv /\ [Next]_vars => IInv'
<1> SUFFICES ASSUME IInv, [Next]_vars PROVE IInv'
  OBVIOUS
<1>1. CASE UNCHANGED vars
  BY <1>1 DEF vars, IInv, Types, StageInv, Untouched, Quiet, Sending, SendingBehind, GivenUp,
              Waits, Heard, Expiring, Calls, FewCalls, GivenUpCalls, LateCalls,
              EarlyCalls, BehindCalls
<1> QED
  BY <1>1, StartStep, HandlerStep, ReactorStep DEF Next

LEMMA InvCorrect == Spec => []IInv
<1> QED
  BY InvInit, InvStep, PTL DEF Spec

(* A client that waits for a datagram always has a timer running, or one   *)
(* whose handler is about to run.                                          *)
THEOREM WaitsHaveDeadlines == Spec => []WaitHasDeadline
<1>1. IInv => WaitHasDeadline
  <2> SUFFICES ASSUME IInv, receiving, ~timing
               PROVE  \E i \in DOMAIN ready : ready[i] = "timer expired"
    BY DEF WaitHasDeadline
  <2>1. ready = One("timer expired")
    BY DEF IInv, StageInv, Quiet, Sending, SendingBehind, GivenUp, Waits, Heard,
           Expiring
  <2>2. 1 \in DOMAIN One("timer expired") /\ One("timer expired")[1] = "timer expired"
    BY DEF One
  <2> QED
    BY <2>1, <2>2
<1> QED
  BY <1>1, InvCorrect, PTL

-----------------------------------------------------------------------------
(* What is asked of the name service *)

Answered == \E j \in DOMAIN callbacks : callbacks[j] = "addresses"

(* buffer_ holds the query as long as it may be sent, until an answer has  *)
(* overwritten it and been handed on.                                      *)
QueryInv == /\ name = NoName => sent = <<>>
            /\ ready # <<>> \/ receiving => buffer = name \/ Answered
            /\ QuerySpoiltByAnswerOnly

LEMMA AnsweredStays ==
  ASSUME callbacks \in Seq(Outcome), Answered,
         \/ UNCHANGED callbacks
         \/ \E outcome \in Outcome : callbacks' = Append(callbacks, outcome)
  PROVE  Answered'
BY DEF Answered

LEMMA AnsweredNow ==
  ASSUME callbacks \in Seq(Outcome), callbacks' = Append(callbacks, "addresses")
  PROVE  Answered'
<1>1. /\ Len(callbacks) + 1 \in DOMAIN callbacks'
      /\ callbacks'[Len(callbacks) + 1] = "addresses"
  OBVIOUS
<1> QED
  BY <1>1 DEF Answered

(* What a step may add to sent is the buffer it started with.              *)
LEMMA SentStep ==
  ASSUME IInv, [Next]_vars, name # NoName
  PROVE  /\ UNCHANGED name
         /\ callbacks \in Seq(Outcome)
         /\ \/ UNCHANGED callbacks
            \/ \E outcome \in Outcome : callbacks' = Append(callbacks, outcome)
         /\ \/ UNCHANGED sent
            \/ sent' = Append(sent, buffer) /\ ready # <<>>
         /\ ready' # <<>> \/ receiving' =>
              /\ ready # <<>> \/ receiving
              /\ buffer' = buffer \/ callbacks' = Append(callbacks, "addresses")
<1>1. callbacks \in Seq(Outcome) /\ attempts \in Nat
  BY DEF IInv, Types
<1>2. CASE Handler
  <2>1. ready # <<>>
    BY <1>2 DEF Handler, SendDone, SendFailed, ReceiveDone, ReceiveFailed,
                TimerExpired, TimerAborted, Run
  <2>2. CASE TimerExpired
    <3>1. /\ UNCHANGED <<name, buffer>>
          /\ \E queue : Attempt(buffer, queue)
      BY <2>2 DEF TimerExpired
    <3>2. /\ \/ UNCHANGED callbacks
             \/ callbacks' = Append(callbacks, "timed out")
          /\ UNCHANGED sent \/ sent' = Append(sent, buffer)
      BY <1>1, <3>1, AttemptEffect
    <3> QED
      BY <1>1, <2>1, <3>1, <3>2 DEF Outcome
  <2>3. CASE ~TimerExpired
    BY <1>1, <1>2, <2>1, <2>3
       DEF Handler, SendDone, SendFailed, ReceiveDone, ReceiveFailed, TimerAborted,
           Outcome
  <2> QED
    BY <2>2, <2>3
<1>3. CASE Reactor
  <2>1. receiving
    BY <1>3, ReactorStep DEF Waits
  <2> QED
    BY <1>1, <1>3, <2>1 DEF Reactor
<1>4. CASE UNCHANGED vars
  BY <1>1, <1>4 DEF vars
<1> QED
  BY <1>2, <1>3, <1>4 DEF Next, Start

LEMMA QueryStep == IInv /\ QueryInv /\ [Next]_vars => QueryInv'
<1> SUFFICES ASSUME IInv, QueryInv, [Next]_vars PROVE QueryInv'
  OBVIOUS
<1>1. sent \in Seq(Names \cup {NoName, Reply}) /\ buffer \in Names \cup {NoName, Reply}
  BY DEF IInv, Types
<1>2. CASE name = NoName
  <2>1. CASE UNCHANGED vars
    BY <2>1 DEF vars, QueryInv, QuerySpoiltByAnswerOnly, Answered
  <2>2. CASE ~UNCHANGED vars
    <3>1. PICK n \in Names : Start(n)
      BY <1>2, <2>2, HeadOfReady, ReactorStep
         DEF Next, Handler, SendDone, SendFailed, ReceiveDone, ReceiveFailed,
             TimerExpired, TimerAborted, Run
    <3>2. name' = n /\ n # NoName /\ sent = <<>> /\ ready = <<>>
          /\ ~receiving' /\ attempts \in Nat
      BY <1>2, <3>1, ClientAssumption DEF Start, QueryInv, IInv, Untouched, Types
    <3>3. CASE UNCHANGED <<ready, sent>>
      BY <3>2, <3>3 DEF QueryInv, QuerySpoiltByAnswerOnly
    <3>4. CASE buffer' = n /\ Attempt(n, ready)
      <4>1. sent' \in {sent, Append(sent, n)}
        BY <3>2, <3>4, AttemptEffect
      <4>2. \A i \in DOMAIN sent' : sent'[i] = n
        BY <3>2, <4>1
      <4> QED
        BY <3>2, <3>4, <4>2 DEF QueryInv, QuerySpoiltByAnswerOnly
    <3> QED
      BY <3>1, <3>3, <3>4 DEF Start
  <2> QED
    BY <2>1, <2>2
<1>3. CASE name # NoName
  <2>1. Answered => Answered'
    BY <1>3, SentStep, AnsweredStays
  <2>2. ready' # <<>> \/ receiving' => buffer' = name' \/ Answered'
    BY <1>3, <2>1, SentStep, AnsweredNow DEF QueryInv
  <2>3. QuerySpoiltByAnswerOnly'
    <3>1. UNCHANGED name
      BY <1>3, SentStep
    <3>2. CASE UNCHANGED sent
      BY <2>1, <3>1, <3>2 DEF QueryInv, QuerySpoiltByAnswerOnly, Answered
    <3>3. CASE sent' = Append(sent, buffer) /\ (buffer = name \/ Answered)
      <4>1. \A i \in DOMAIN sent' : \/ i \in DOMAIN sent /\ sent'[i] = sent[i]
                                  \/ sent'[i] = buffer
        BY <1>1, <3>3
      <4> QED
        BY <2>1, <3>1, <3>3, <4>1 DEF QueryInv, QuerySpoiltByAnswerOnly, Answered
    <3> QED
      BY <1>3, <3>2, <3>3, SentStep DEF QueryInv
  <2> QED
    BY <1>3, <2>2, <2>3, SentStep DEF QueryInv
<1> QED
  BY <1>2, <1>3

(* Until an answer has been handed on no query but the name goes out.      *)
THEOREM QueriesAreNames == Spec => []QuerySpoiltByAnswerOnly
<1>1. Init => QueryInv
  <2> SUFFICES ASSUME Init PROVE QueryInv
    OBVIOUS
  <2>1. sent = <<>> /\ ready = <<>> /\ ~receiving
    BY DEF Init
  <2>2. QuerySpoiltByAnswerOnly
    BY <2>1 DEF QuerySpoiltByAnswerOnly
  <2> QED
    BY <2>1, <2>2 DEF QueryInv
<1>2. QueryInv => QuerySpoiltByAnswerOnly
  BY DEF QueryInv
<1> QED
  BY <1>1, <1>2, InvInit, InvStep, QueryStep, PTL DEF Spec

-----------------------------------------------------------------------------
(* The contract *)

Stage == IF name = NoName THEN "idle"
         ELSE IF WillCallBack THEN "running" ELSE "over"

LEMMA OneIsOne ==
  ASSUME NEW a
  PROVE  DOMAIN One(a) = {1} /\ One(a)[1] = a
<1>1. DOMAIN <<a>> = 1..1 /\ <<a>>[1] = a
  OBVIOUS
<1>2. 1..1 = {1}
  OBVIOUS
<1> QED
  BY <1>1, <1>2 DEF One

LEMMA TwoIsTwo ==
  ASSUME NEW a, NEW b
  PROVE  1 \in DOMAIN Two(a, b) /\ Two(a, b)[1] = a
BY DEF Two

LEMMA NoneIsEmpty == DOMAIN <<>> = {}
OBVIOUS

LEMMA QuietIsOver ==
  ASSUME Quiet
  PROVE  ~WillCallBack
<1>1. CASE ready = <<>>
  BY <1>1 DEF Quiet, WillCallBack
<1>2. CASE ready = One("timer aborted")
  <2>1. \A i \in DOMAIN ready : ready[i] = "timer aborted"
    BY <1>2, OneIsOne
  <2> QED
    BY <2>1 DEF Quiet, WillCallBack
<1> QED
  BY <1>1, <1>2 DEF Quiet

LEMMA FirstCounts ==
  ASSUME NEW a, NEW b, a # "timer aborted", ready = One(a) \/ ready = Two(a, b)
  PROVE  WillCallBack
<1>1. 1 \in DOMAIN ready /\ ready[1] = a
  BY OneIsOne, TwoIsTwo
<1> QED
  BY <1>1 DEF WillCallBack

(* Something is under way.                                                 *)
Underway == Sending \/ SendingBehind \/ GivenUp \/ Waits \/ Heard \/ Expiring

LEMMA OthersRun == Underway => WillCallBack
<1> SUFFICES ASSUME Underway PROVE WillCallBack
  OBVIOUS
<1>1. CASE Sending
  BY <1>1, FirstCounts DEF Sending
<1>2. CASE SendingBehind
  BY <1>2, FirstCounts DEF SendingBehind
<1>3. CASE GivenUp
  BY <1>3, FirstCounts DEF GivenUp
<1>4. CASE Waits
  BY <1>4 DEF Waits, WillCallBack
<1>5. CASE Heard
  BY <1>5, FirstCounts DEF Heard
<1>6. CASE Expiring
  BY <1>6, FirstCounts DEF Expiring
<1> QED
  BY <1>1, <1>2, <1>3, <1>4, <1>5, <1>6 DEF Underway

LEMMA OthersRunNext == Underway' => WillCallBack'
<1> QED
  BY OthersRun, PTL

LEMMA CallsLeft ==
  ASSUME IInv, Underway
  PROVE  Calls \in Nat /\ Calls < MaxAttempts + 1
<1>1. Calls \in Nat
  BY DEF IInv, Types, Calls
<1>2. GivenUpCalls \/ LateCalls \/ EarlyCalls \/ BehindCalls
  BY DEF Underway, Sending, SendingBehind, GivenUp, Waits, Heard, Expiring
<1> QED
  BY <1>1, <1>2, ClientAssumption
     DEF GivenUpCalls, LateCalls, EarlyCalls, BehindCalls

(* A handler that calls back is Callback, whether it is the last or not.   *)
LEMMA CallMaps ==
  ASSUME IInv, Underway, name # NoName, UNCHANGED name,
         NEW outcome \in Outcome, callbacks' = Append(callbacks, outcome)
  PROVE  Contract!Callback
<1>1. Stage = "running" /\ Stage' \in {"running", "over"}
  BY OthersRun DEF Stage
<1>2. Calls < MaxAttempts + 1 /\ Calls' = Calls + 1
  BY CallsLeft, CalledOnce DEF IInv, Types
<1> QED
  BY <1>1, <1>2 DEF Contract!Callback, Stage, Calls

(* A handler that does not is invisible while something is under way.      *)
LEMMA SilenceMaps ==
  ASSUME Underway, Underway', name # NoName, UNCHANGED <<name, callbacks>>
  PROVE  UNCHANGED Contract!vars
<1>1. Stage = "running"
  BY OthersRun DEF Stage
<1>2. Stage' = "running"
  <2>1. WillCallBack'
    BY OthersRunNext
  <2> QED
    BY <2>1 DEF Stage
<1> QED
  BY <1>1, <1>2 DEF Contract!vars, Stage

LEMMA StartMaps ==
  ASSUME IInv, NEW n \in Names, Start(n)
  PROVE  Contract!Begin \/ Contract!Refuse
<1>1. /\ ready = <<>> /\ ~receiving /\ callbacks = <<>> /\ attempts = 0
      /\ Stage = "idle" /\ name' # NoName /\ UNCHANGED receiving
  BY ClientAssumption DEF Start, IInv, Untouched, Stage
<1>2. CASE callbacks' = Append(callbacks, "invalid name") /\ UNCHANGED ready
  <2>1. Len(callbacks') = 1
    <3>1. Len(Append(<<>>, "invalid name")) = 1
      OBVIOUS
    <3> QED
      BY <1>1, <1>2, <3>1
  <2>2. ~WillCallBack'
    <3>1. ready' = <<>> /\ ~receiving'
      BY <1>1, <1>2
    <3> QED
      BY <3>1, NoneIsEmpty DEF WillCallBack
  <2> QED
    BY <1>1, <2>1, <2>2 DEF Contract!Refuse, Stage
<1>3. CASE Attempt(n, ready)
  <2>0. attempts \in Nat /\ attempts' = 1 /\ ~(attempts' > MaxAttempts)
    <3>1. attempts \in Nat /\ attempts = 0
      BY <1>1
    <3>2. attempts' = attempts + 1
      BY <1>3, <3>1, AttemptEffect
    <3> QED
      BY <3>1, <3>2, ClientAssumption
  <2>1. UNCHANGED callbacks /\ ready' \in {Append(ready, "sent"), Append(ready, "send error")}
    BY <1>3, <2>0, AttemptEffect
  <2>2. \E sending \in {"sent", "send error"} : ready' = One(sending)
    <3>1. \E sending \in {"sent", "send error"} : ready' = Append(ready, sending)
      BY <2>1
    <3> QED
      BY <1>1, <3>1, ShortQueues
  <2>3. WillCallBack'
    <3>1. PICK sending \in {"sent", "send error"} : ready' = One(sending)
      BY <2>2
    <3>2. 1 \in DOMAIN ready' /\ ready'[1] # "timer aborted"
      BY <3>1, OneIsOne
    <3> QED
      BY <3>2 DEF WillCallBack
  <2> QED
    BY <1>1, <2>1, <2>3 DEF Contract!Begin, Stage
<1> QED
  BY <1>2, <1>3 DEF Start

LEMMA HandlerMaps ==
  ASSUME IInv, Handler
  PROVE  Contract!Callback \/ UNCHANGED Contract!vars
<1>1. name # NoName /\ ready # <<>>
  BY HeadOfReady DEF Handler, SendDone, SendFailed, ReceiveDone, ReceiveFailed,
                     TimerExpired, TimerAborted, Run
<1>2. CASE SendDone
  <2>1. Sending /\ Tail(ready) = <<>>
    BY <1>2, HeadOfReady DEF SendDone, Run
  <2>2. EarlyCalls'
    BY <1>2, <2>1 DEF SendDone, Sending, EarlyCalls, Calls
  <2>3. Waits'
    BY <1>2, <2>1, <2>2 DEF SendDone, Waits
  <2> QED
    BY <1>1, <1>2, <2>1, <2>3, SilenceMaps DEF SendDone, Underway
<1>3. CASE SendFailed
  <2>1. Sending
    BY <1>3, HeadOfReady DEF SendFailed, Run
  <2> QED
    BY <1>1, <1>3, <2>1, CallMaps DEF SendFailed, Underway, Outcome
<1>4. CASE ReceiveDone \/ ReceiveFailed
  <2>1. Underway
    BY <1>4, HeadOfReady DEF ReceiveDone, ReceiveFailed, Run, Underway
  <2>2. UNCHANGED name /\ \E outcome \in Outcome : callbacks' = Append(callbacks, outcome)
    BY <1>4 DEF ReceiveDone, ReceiveFailed, Outcome
  <2> QED
    BY <1>1, <2>1, <2>2, CallMaps
<1>5. CASE TimerExpired
  <2>1. Underway /\ UNCHANGED name
    BY <1>5, HeadOfReady DEF TimerExpired, Run, Underway
  <2>2. CASE callbacks' = Append(callbacks, "timed out")
    BY <1>1, <2>1, <2>2, CallMaps DEF Outcome
  <2>3. CASE UNCHANGED callbacks /\ (Sending' \/ SendingBehind')
    BY <1>1, <2>1, <2>3, SilenceMaps DEF Underway
  <2> QED
    BY <1>5, <2>2, <2>3, TimerExpiredStep
<1>6. CASE TimerAborted
  <2>1. Quiet /\ Tail(ready) = <<>>
    BY <1>6, HeadOfReady DEF TimerAborted, Run
  <2>2. UNCHANGED <<name, callbacks, receiving>> /\ ready' = <<>> /\ ~receiving
    BY <1>6, <2>1 DEF TimerAborted, Quiet
  <2>3. ~WillCallBack /\ ~WillCallBack'
    <3>1. ~receiving' /\ ready' = <<>>
      BY <2>2
    <3> QED
      BY <2>1, <3>1, QuietIsOver, NoneIsEmpty DEF WillCallBack
  <2> QED
    BY <2>2, <2>3 DEF Contract!vars
<1> QED
  BY <1>2, <1>3, <1>4, <1>5, <1>6 DEF Handler

(* Whatever the order of datagrams, errors and timers: the handler given   *)
(* to Resolve is called again only while the client is under way, and      *)
(* MaxAttempts + 1 times at most.  (That it is called at all is fairness,  *)
(* which TLC checks.)                                                      *)
THEOREM KeepsLookupContract == Spec => Contract!Init /\ [][Contract!Next]_(Contract!vars)
<1>1. Init => Contract!Init
  BY DEF Init, Contract!Init
<1>2. IInv /\ [Next]_vars => [Contract!Next]_(Contract!vars)
  <2> SUFFICES ASSUME IInv, [Next]_vars
               PROVE  Contract!Next \/ UNCHANGED Contract!vars
    OBVIOUS
  <2>1. CASE \E n \in Names : Start(n)
    BY <2>1, StartMaps DEF Contract!Next
  <2>2. CASE Handler
    BY <2>2, HandlerMaps DEF Contract!Next
  <2>3. CASE Reactor
    <3>1. UNCHANGED <<name, callbacks>>
      BY <2>3 DEF Reactor
    <3> QED
      BY <2>3, <3>1, ReactorStep, SilenceMaps DEF Underway
  <2>4. CASE UNCHANGED vars
    BY <2>4 DEF vars, Contract!vars, WillCallBack
  <2> QED
    BY <2>1, <2>2, <2>3, <2>4 DEF Next
<1> QED
  BY <1>1, <1>2, InvInit, InvStep, PTL DEF Spec

=============================================================================
