------------------------- MODULE NameServiceClient -------------------------
(***************************************************************************)
(* One Client of name_service_client.cpp: a UDP query to hood-name-service *)
(* with a timer and retries.                                               *)
(*                                                                         *)
(* asio runs completion handlers one at a time in the order they became    *)
(* ready.  ready is that queue, restricted to this client.  Cancelling an  *)
(* operation that still waits makes it ready with operation_aborted;       *)
(* cancelling one that is already in the queue changes nothing.  The       *)
(* reactor runs when the queue is empty and appends what has become ready  *)
(* meanwhile, sockets before timers.                                       *)
(***************************************************************************)
EXTENDS Naturals, Sequences

CONSTANTS Names,       \* host names
          NoName,
          TooLong,     \* names longer than max_length_of_a_domain
          Reply,       \* the bytes of an answer
          MaxAttempts  \* 3 in the code

ASSUME ClientAssumption == /\ NoName \notin Names
                           /\ TooLong \subseteq Names
                           /\ Reply \notin Names
                           /\ MaxAttempts \in Nat \ {0}

VARIABLES name,       \* host_name, NoName before Start
          attempts,   \* attempts_
          buffer,     \* what buffer_ starts with
          receiving,  \* async_receive_from waits for a datagram
          timing,     \* timer_ is being waited for
          ready,      \* completions to handle, oldest first: "sent", "send
                      \* error", "reply", "receive error", "receive aborted",
                      \* "timer expired", "timer aborted"
          callbacks,  \* what handler_ was called with: "addresses", "error",
                      \* "timed out", "invalid name"
          sent        \* history: the queries sent

vars == <<name, attempts, buffer, receiving, timing, ready, callbacks, sent>>

Init == /\ name = NoName
        /\ attempts = 0
        /\ buffer = NoName
        /\ receiving = FALSE
        /\ timing = FALSE
        /\ ready = <<>>
        /\ callbacks = <<>>
        /\ sent = <<>>

-----------------------------------------------------------------------------
(* Mutant: attempts_ is not compared with the limit.                       *)
AttemptForever(query, queue) ==
  /\ attempts' = attempts + 1
  /\ ready' = Append(queue, "sent")
  /\ sent' = Append(sent, query)
  /\ UNCHANGED callbacks

(* Attempt, with the completions queue already posted by the caller.  From *)
(* the second attempt on it starts by replacing the socket, so an answer   *)
(* to an earlier query cannot arrive any more.                             *)
Attempt(query, queue) ==
  /\ attempts' = attempts + 1
  /\ \/ /\ attempts + 1 > MaxAttempts
        /\ callbacks' = Append(callbacks, "timed out")
        /\ ready' = queue
        /\ UNCHANGED sent
     \/ /\ attempts + 1 <= MaxAttempts
        /\ \/ ready' = Append(queue, "sent") /\ sent' = Append(sent, query)
           \/ ready' = Append(queue, "send error") /\ UNCHANGED sent
        /\ UNCHANGED callbacks

(* Resolve creates a client and starts it.                                 *)
Start(n) ==
  /\ name = NoName
  /\ name' = n
  /\ \/ /\ n \in TooLong
        /\ callbacks' = Append(callbacks, "invalid name")
        /\ UNCHANGED <<attempts, buffer, ready, sent>>
     \/ /\ n \notin TooLong
        /\ buffer' = n
        /\ Attempt(n, ready)
  /\ UNCHANGED <<receiving, timing>>

-----------------------------------------------------------------------------
(* Completion handlers; each runs with the head of ready.                  *)

Run(completion) == ready # <<>> /\ Head(ready) = completion

(* Mutant: the timer is not started.                                       *)
SendDoneUntimed ==
  /\ Run("sent")
  /\ receiving' = TRUE
  /\ ready' = Tail(ready)
  /\ UNCHANGED <<name, attempts, buffer, timing, callbacks, sent>>

SendDone ==
  /\ Run("sent")
  /\ timing' = TRUE
  /\ receiving' = TRUE
  /\ ready' = Tail(ready)
  /\ UNCHANGED <<name, attempts, buffer, callbacks, sent>>

(* No retry after a failed send.                                           *)
SendFailed ==
  /\ Run("send error")
  /\ callbacks' = Append(callbacks, "error")
  /\ ready' = Tail(ready)
  /\ UNCHANGED <<name, attempts, buffer, receiving, timing, sent>>

(* timer_.cancel() *)
CancelTimer == /\ timing' = FALSE
               /\ ready' = Tail(ready) \o
                             (IF timing THEN <<"timer aborted">> ELSE <<>>)

ReceiveDone ==
  /\ Run("reply")
  /\ CancelTimer
  /\ buffer' = Reply
  /\ callbacks' = Append(callbacks, "addresses")
  /\ UNCHANGED <<name, attempts, receiving, sent>>

(* Mutant: an aborted receive leaves rubbish in the buffer.                *)
ReceiveFailedDirty ==
  /\ Run("receive error") \/ Run("receive aborted")
  /\ CancelTimer
  /\ buffer' = Reply
  /\ callbacks' = Append(callbacks, "error")
  /\ UNCHANGED <<name, attempts, receiving, sent>>

(* Also the receive that the timer's handler cancelled: the caller is told *)
(* of an error while the next attempt is already under way.                *)
ReceiveFailed ==
  /\ Run("receive error") \/ Run("receive aborted")
  /\ CancelTimer
  /\ callbacks' = Append(callbacks, "error")
  /\ UNCHANGED <<name, attempts, buffer, receiving, sent>>

(* socket_.cancel(), then Attempt, which sends the first data_size_ bytes  *)
(* of buffer_, whatever they are by now.                                   *)
TimerExpired ==
  /\ Run("timer expired")
  /\ receiving' = FALSE
  /\ Attempt(buffer, Tail(ready) \o
                       (IF receiving THEN <<"receive aborted">> ELSE <<>>))
  /\ UNCHANGED <<name, buffer, timing>>

TimerAborted ==
  /\ Run("timer aborted")
  /\ ready' = Tail(ready)
  /\ UNCHANGED <<name, attempts, buffer, receiving, timing, callbacks, sent>>

Handler == \/ SendDone \/ SendFailed \/ ReceiveDone \/ ReceiveFailed
           \/ TimerExpired \/ TimerAborted

-----------------------------------------------------------------------------
(* One turn of the reactor: a datagram or an error for the socket, the     *)
(* expiry of the timer, or both.                                           *)
Reactor ==
  /\ ready = <<>>
  /\ \E socket \in {<<>>, <<"reply">>, <<"receive error">>},
        timer \in {<<>>, <<"timer expired">>} :
       /\ socket # <<>> => receiving
       /\ timer # <<>> => timing
       /\ ready' = socket \o timer
       /\ ready' # <<>>
       /\ receiving' = (receiving /\ socket = <<>>)
       /\ timing' = (timing /\ timer = <<>>)
  /\ UNCHANGED <<name, attempts, buffer, callbacks, sent>>

Next == (\E n \in Names : Start(n)) \/ Handler \/ Reactor

(* The io_context keeps running; the name service need not answer.         *)
Spec == Init /\ [][Next]_vars /\ WF_vars(Handler) /\ WF_vars(Reactor)

-----------------------------------------------------------------------------
(* Properties *)

(* A client that waits for a datagram has a deadline: asio never cancels a *)
(* receive by itself, so without the timer the client would wait for ever. *)
WaitHasDeadline ==
  receiving => timing \/ \E i \in DOMAIN ready : ready[i] = "timer expired"

(* Whether handler_ will be called again.                                  *)
WillCallBack ==
  receiving \/ \E i \in DOMAIN ready : ready[i] # "timer aborted"

Contract == INSTANCE LookupContract
              WITH MaxCallbacks <- MaxAttempts + 1,
                   calls <- Len(callbacks),
                   stage <- IF name = NoName THEN "idle"
                            ELSE IF WillCallBack THEN "running" ELSE "over"

(* The client calls back once at least, four times at most, and becomes    *)
(* quiet, whatever the order of datagrams and timers.                      *)
ImplementsLookupContract == Contract!Spec

(* A query other than the name goes out only if an answer had already been *)
(* delivered: errors and timeouts leave the query in the buffer.           *)
QuerySpoiltByAnswerOnly ==
  \A i \in DOMAIN sent :
    sent[i] = name \/ \E j \in DOMAIN callbacks : callbacks[j] = "addresses"

=============================================================================
