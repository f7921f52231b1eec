---------------------------- MODULE HttpHandler ----------------------------
(***************************************************************************)
(* hood-http-handler.py, with the name service it asks: a proxy that reads *)
(* the head of a request, looks up its host, connects to it and forwards   *)
(* bytes in both directions until one of them ends.  The handlers of all   *)
(* connections share one asyncio loop.                                     *)
(*                                                                         *)
(* Callers of the name service are the connections.  Some of them are      *)
(* those of hood-expose.py, a process of its own, which connects to the    *)
(* one host it is given, with the same two forwarders.                     *)
(***************************************************************************)
EXTENDS HoodNameService

CONSTANTS OcspHosts,  \* ocsp_or_crl_hosts, asked in plain HTTP
          ForwardTo,  \* forward_to_address, or NoName for "off"
          Exposed,    \* connections of hood-expose.py
          Heads,      \* per connection: heads of requests it may send,
                      \* or <<args_.from_address>>
          Unreachable,\* addresses where nobody accepts a connection
          Chunks      \* per connection: how much each side sends at most

ASSUME HandlerAssumption ==
  /\ OcspHosts \subseteq Names /\ Exposed \subseteq Callers
  /\ ForwardTo \in Addresses \cup {NoName}
  /\ NoName \notin Addresses \cup Names
  /\ Heads \in [Callers -> SUBSET Seq(Names \cup Addresses)]
  /\ Chunks \in [Callers -> Nat]

VARIABLES phase,    \* where handle_connection is
          target,   \* the address it connects to
          sent,     \* per side: chunks it has sent
          taken,    \* per side: chunks its forwarder has read
          passed,   \* per side: chunks written to the other side
          fin,      \* per side: it has ended its stream
          broken,   \* per side: its connection is lost
          pump,     \* per side: the forwarder that reads from it
          closed,   \* client_writer and host_writer are closed
          loopStuck \* the loop of the http handler never comes back

streamVars == <<sent, taken, passed, fin, broken, pump, closed>>
handlerVars == <<phase, target, streamVars, loopStuck>>
vars == <<nameVars, handlerVars>>

-----------------------------------------------------------------------------

Sides == {"client", "host"}
Other(x) == IF x = "client" THEN "host" ELSE "client"
PerSide(v) == [c \in Callers |-> [x \in Sides |-> v]]

Init ==
  /\ NameInit
  /\ phase = [c \in Callers |-> "reading"]
  /\ target = [c \in Callers |-> NoName]
  /\ sent = PerSide(0) /\ taken = PerSide(0) /\ passed = PerSide(0)
  /\ fin = PerSide(FALSE) /\ broken = PerSide(FALSE)
  /\ pump = PerSide("none")
  /\ closed = [c \in Callers |-> FALSE]
  /\ loopStuck = FALSE

Goes(c, to) == phase' = [phase EXCEPT ![c] = to]

-----------------------------------------------------------------------------
(* The head of the request *)

Blocked(host) == host \in BlockedAddresses \cup BlockedNames

Forwarded(host) == host \notin OcspHosts /\ ForwardTo # NoName

Reads(c) == phase[c] = "reading" /\ c \notin Exposed

(* A head is the list of hosts its "host" lines name, without port.        *)
(* Without one, or with two, the handler returns and closes nothing.       *)
HeadUnclear(c, head) ==
  /\ Reads(c) /\ Len(head) # 1
  /\ Goes(c, "left")
  /\ UNCHANGED <<nameVars, target, streamVars, loopStuck>>

HeadBlocked(c, head) ==
  /\ Reads(c) /\ Len(head) = 1 /\ Blocked(head[1])
  /\ Goes(c, "ended")
  /\ closed' = [closed EXCEPT ![c] = TRUE]
  /\ UNCHANGED <<nameVars, target, sent, taken, passed, fin, broken, pump, loopStuck>>

HeadForwarded(c, head) ==
  /\ Reads(c) /\ Len(head) = 1 /\ ~Blocked(head[1])
  /\ Forwarded(head[1])
  /\ Goes(c, "connecting")
  /\ target' = [target EXCEPT ![c] = ForwardTo]
  /\ UNCHANGED <<nameVars, streamVars, loopStuck>>

HeadResolved(c, head) ==
  /\ Reads(c) /\ Len(head) = 1 /\ ~Blocked(head[1])
  /\ ~Forwarded(head[1])
  /\ Resolve(c, head[1])
  /\ Goes(c, "resolving")
  /\ UNCHANGED <<serviceVars, target, streamVars, loopStuck>>

(* A client that closes before the empty line: readline returns nothing    *)
(* for ever and never suspends.                                            *)
ClientLeavesEarly(c) ==
  /\ Reads(c)
  /\ loopStuck' = TRUE
  /\ UNCHANGED <<nameVars, phase, target, streamVars>>

(* hood-expose.py: open_connection calls HoodGetAddrInfo.                   *)
Expose(c, head) ==
  /\ phase[c] = "reading" /\ c \in Exposed
  /\ Resolve(c, head[1])
  /\ Goes(c, "resolving")
  /\ UNCHANGED <<serviceVars, target, streamVars, loopStuck>>

NothingToExpose(c) ==
  /\ phase[c] = "resolving" /\ c \in Exposed
  /\ future[c] = "done" /\ result[c] = {}
  /\ Goes(c, "left")
  /\ UNCHANGED <<nameVars, target, streamVars, loopStuck>>

Unresolvable(c) ==
  /\ phase[c] = "resolving" /\ c \notin Exposed
  /\ future[c] = "done" /\ result[c] = {}
  /\ Goes(c, "ended")
  /\ closed' = [closed EXCEPT ![c] = TRUE]
  /\ UNCHANGED <<nameVars, target, sent, taken, passed, fin, broken, pump, loopStuck>>

Resolved(c) ==
  /\ phase[c] = "resolving" /\ future[c] = "done"
  /\ \E address \in result[c] : target' = [target EXCEPT ![c] = address]
  /\ Goes(c, "connecting")
  /\ UNCHANGED <<nameVars, streamVars, loopStuck>>

(* open_connection fails, or the head cannot be sent: an exception, after  *)
(* which nothing is closed.                                                *)
ConnectFails(c) ==
  /\ phase[c] = "connecting"
  /\ Goes(c, "left")
  /\ UNCHANGED <<nameVars, target, streamVars, loopStuck>>

(* Connected, and the head is sent.                                        *)
Connected(c) ==
  /\ phase[c] = "connecting" /\ target[c] \notin Unreachable
  /\ Goes(c, "forwarding")
  /\ pump' = [pump EXCEPT ![c] = [x \in Sides |-> "reading"]]
  /\ UNCHANGED <<nameVars, target, sent, taken, passed, fin, broken, closed, loopStuck>>

-----------------------------------------------------------------------------
(* forward_client_to_server and forward_server_to_client *)

At(c, x, where) == phase[c] = "forwarding" /\ pump[c][x] = where
PumpGoes(c, x, to) == pump' = [pump EXCEPT ![c][x] = to]

(* A read brings some of what has arrived.  What is written to a side that *)
(* is closed or broken is lost.                                            *)
Forward(c, x) ==
  /\ At(c, x, "reading") /\ ~broken[c][x]
  /\ \E n \in 1..(sent[c][x] - taken[c][x]) :
       /\ taken' = [taken EXCEPT ![c][x] = @ + n]
       /\ passed' = IF closed[c] \/ broken[c][Other(x)] THEN passed
                    ELSE [passed EXCEPT ![c][x] = @ + n]
  /\ PumpGoes(c, x, "draining")
  /\ UNCHANGED <<nameVars, phase, target, sent, fin, broken, closed, loopStuck>>

Drained(c, x) ==
  /\ At(c, x, "draining") /\ ~broken[c][Other(x)]
  /\ PumpGoes(c, x, "reading")
  /\ UNCHANGED <<nameVars, phase, target, sent, taken, passed, fin, broken,
                 closed, loopStuck>>

(* drain raises when the connection it writes to is gone.                  *)
DrainFails(c, x) ==
  /\ At(c, x, "draining") /\ (closed[c] \/ broken[c][Other(x)])
  /\ PumpGoes(c, x, "ended")
  /\ UNCHANGED <<nameVars, phase, target, sent, taken, passed, fin, broken,
                 closed, loopStuck>>

(* Mutant: whoever fails closes both connections ("finally").              *)
ReadFailsClosing(c, x) ==
  /\ At(c, x, "reading") /\ broken[c][x]
  /\ PumpGoes(c, x, "ended")
  /\ closed' = [closed EXCEPT ![c] = TRUE]
  /\ UNCHANGED <<nameVars, phase, target, sent, taken, passed, fin, broken, loopStuck>>

(* read raises: this direction is over, nothing is closed.                 *)
ReadFails(c, x) ==
  /\ At(c, x, "reading") /\ broken[c][x]
  /\ PumpGoes(c, x, "ended")
  /\ UNCHANGED <<nameVars, phase, target, sent, taken, passed, fin, broken,
                 closed, loopStuck>>

(* Nothing is left to read and nothing will come: both are closed.         *)
EndOfStream(c, x) ==
  /\ At(c, x, "reading") /\ ~broken[c][x]
  /\ taken[c][x] = sent[c][x] /\ (fin[c][x] \/ closed[c])
  /\ PumpGoes(c, x, "ended")
  /\ closed' = [closed EXCEPT ![c] = TRUE]
  /\ UNCHANGED <<nameVars, phase, target, sent, taken, passed, fin, broken, loopStuck>>

(* asyncio.wait, then wait_closed of both.                                 *)
HandlerEnds(c) ==
  /\ phase[c] = "forwarding"
  /\ \A x \in Sides : pump[c][x] = "ended" /\ (closed[c] \/ broken[c][x])
  /\ Goes(c, "ended")
  /\ UNCHANGED <<nameVars, target, streamVars, loopStuck>>

-----------------------------------------------------------------------------
(* The peers *)

Open(c, x) ==
  phase[c] = "forwarding" /\ ~closed[c] /\ ~fin[c][x] /\ ~broken[c][x]

PeerSends(c, x) ==
  /\ Open(c, x) /\ sent[c][x] < Chunks[c]
  /\ sent' = [sent EXCEPT ![c][x] = @ + 1]
  /\ UNCHANGED <<nameVars, phase, target, taken, passed, fin, broken, pump,
                 closed, loopStuck>>

PeerEnds(c, x) ==
  /\ Open(c, x)
  /\ fin' = [fin EXCEPT ![c][x] = TRUE]
  /\ UNCHANGED <<nameVars, phase, target, sent, taken, passed, broken, pump,
                 closed, loopStuck>>

PeerBreaks(c, x) ==
  /\ phase[c] = "forwarding" /\ ~closed[c] /\ ~broken[c][x]
  /\ broken' = [broken EXCEPT ![c][x] = TRUE]
  /\ UNCHANGED <<nameVars, phase, target, sent, taken, passed, fin, pump,
                 closed, loopStuck>>

-----------------------------------------------------------------------------

HeadNext(c, head) == \/ HeadUnclear(c, head) \/ HeadBlocked(c, head)
                     \/ HeadForwarded(c, head) \/ HeadResolved(c, head)
                     \/ Expose(c, head)

ConnectNext(c) == \/ ClientLeavesEarly(c) \/ Unresolvable(c) \/ NothingToExpose(c)
                  \/ Resolved(c)
                  \/ ConnectFails(c) \/ Connected(c) \/ HandlerEnds(c)

PumpNext(c, x) == \/ Forward(c, x) \/ Drained(c, x) \/ DrainFails(c, x)
                  \/ ReadFails(c, x) \/ EndOfStream(c, x)

PeerNext(c, x) == PeerSends(c, x) \/ PeerEnds(c, x) \/ PeerBreaks(c, x)

(* hood-expose.py has a loop of its own.                                   *)
Runs(c) == ~loopStuck \/ c \in Exposed

HandlerNext(c) == \/ \E head \in Heads[c] : HeadNext(c, head)
                  \/ ConnectNext(c)
                  \/ \E x \in Sides : PumpNext(c, x)

(* HoodResolve runs in the loop of its caller.                             *)
Next == \/ \E c \in Callers :
             \/ Runs(c) /\ HandlerNext(c)
             \/ Runs(c) /\ ResolveNext(c) /\ UNCHANGED handlerVars
             \/ \E x \in Sides : PeerNext(c, x)
        \/ ServiceNext /\ UNCHANGED handlerVars

Spec == Init /\ [][Next]_vars

(* The loop runs what is ready, and its timers expire.  Nothing is assumed *)
(* of the network, the servers or the name service.                        *)
TimerRuns(c) == Runs(c) /\ TimerExpires(c) /\ UNCHANGED handlerVars

FairSpec == Spec /\ \A c \in Callers : WF_vars(TimerRuns(c))

-----------------------------------------------------------------------------
(* Properties *)

(* The http handler connects to no blacklisted address but the one it is   *)
(* told to forward to: whether the host of the request is one              *)
(* (hood-http-handler.py:107), a name has one among its records, was       *)
(* cached with one, or the reply is that to someone else's query           *)
(* (hood-name-service.py:229).                                             *)
NeverToBlocked ==
  \A c \in Callers \ Exposed : target[c] \notin BlockedAddresses \ {ForwardTo}

(* Every lookup has a result in the end, whatever is lost, late, or sent   *)
(* to the wrong socket, and even when the name service is stuck: the timer *)
(* of the last attempt gives it (hood-name-service.py:336-354).  Only a    *)
(* loop that does not run any more keeps one waiting.                      *)
EveryLookupEnds ==
  \A c \in Callers : future[c] = "pending" ~> future[c] = "done" \/ ~Runs(c)

(* The connections are closed only when one side has ended its stream and  *)
(* all of it was written to the other (hood-http-handler.py:143-172): an   *)
(* error in one direction does not cut the other, in which bytes may be on *)
(* their way.                                                              *)
ClosedAfterWholeStream ==
  \A c \in Callers : phase[c] = "forwarding" /\ closed[c] =>
    \E x \in Sides : fin[c][x] /\ passed[c][x] = sent[c][x]

=============================================================================
