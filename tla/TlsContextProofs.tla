-------------------------- MODULE TlsContextProofs --------------------------
(***************************************************************************)
(* Theorems about TlsContext, for all hosts and all worlds: whatever the   *)
(* peers send and whatever fails.                                          *)
(*                                                                         *)
(* A handler calls several methods of Context one after the other (Queue   *)
(* and then Stop, WriteDone and then the destructor), so the invariant is  *)
(* stated of any contexts cx: each method has a lemma of its own, and the  *)
(* proof of a handler chains them.                                         *)
(***************************************************************************)
EXTENDS TlsContext, FiniteSetTheorems, SequenceTheorems, TLAPS

-----------------------------------------------------------------------------
(* Streams.  sc is what a peer sends; q holds positions in it.             *)

Hello(sc, i)   == sc[i].kind = "hello"
Skipped(sc, i) == sc[i].kind = "empty"
Bad(sc, i)     == \/ Skipped(sc, i)
                  \/ sc[i].kind = "bad" /\ \A j \in 1..(i - 1) : sc[j].kind # "ccs"

(* A stretch of the first n records without a gap: it begins with a hello, *)
(* leaves out records without content only and holds no refused one.       *)
Relayed(sc, q, n) ==
  /\ \A k \in DOMAIN q : q[k] \in 1..n /\ ~Bad(sc, q[k])
  /\ \A j, k \in DOMAIN q : j < k => q[j] < q[k]
  /\ q # <<>> => Hello(sc, q[1])
  /\ \A k \in DOMAIN q : \A i \in q[1]..q[k] :
       Skipped(sc, i) \/ \E j \in DOMAIN q : q[j] = i

(* It reaches up to the n-th.                                              *)
Complete(sc, q, n) ==
  /\ q # <<>>
  /\ \A i \in q[1]..n : Skipped(sc, i) \/ \E j \in DOMAIN q : q[j] = i

Writes == [rec : Nat, to : Hosts \cup {NoHost}]

(* What a context x whose peer has been sent w has still to send.          *)
Sent(x, w)   == Records(w) \o Records(x.flying)
Output(x, w) == Records(w) \o Records(x.flying) \o x.queue

(* writing_ is set for ever: a closed socket has lost the task.            *)
Jammed(x) == x.writing /\ x.flying = <<>>

-----------------------------------------------------------------------------
(* The parts of the inductive invariant.                                   *)

Counters(W, cr, rd, tk) ==
  /\ \A c \in Contexts :
       /\ tk[c] <= rd[c]
       /\ rd[c] <= Len(IF c = Client THEN W.client ELSE W.server)
  /\ cr <= tk[Client]

(* One write at a time.                                                    *)
Writer(x) == Len(x.flying) <= 1 /\ (x.flying # <<>> => x.writing)

(* Before Start.                                                           *)
Unstarted(x, w, t) == x.socket = "none" => /\ x.reader = "idle" /\ ~x.running
                                           /\ x.flying = <<>> /\ ~x.writing
                                           /\ w = <<>> /\ t = 0

Born(cx, cr, cn, cs, cg, tk, wr) ==
  /\ \A s \in Servers : s > cr => cx[s] = Blank /\ wr[s] = <<>> /\ tk[s] = 0
  /\ \A c \in Contexts : Unstarted(cx[c], wr[c], tk[c])
  /\ cx[Client].reader = "idle" => cx[Client] = Blank
  /\ cx[Client].socket = "none" =>
       cr = 0 /\ ~cn /\ \A h \in Hosts : cs[h] = 0 /\ cg[h] = 0

(* Nothing has been given to x to send.                                    *)
Untold(x, w) == x.queue = <<>> /\ x.flying = <<>> /\ ~x.writing /\ w = <<>>

Links(cx, cr, wr) ==
  /\ cx[Client].paired = None \/ cx[Client].paired \in 1..cr
  /\ \A s \in Servers :
       /\ cx[s].paired \in {None, Client}
       /\ cx[s].paired = Client => cx[Client].paired = s
       /\ cx[Client].paired = s /\ cx[s].paired = None => Untold(cx[s], wr[s])

(* A server context x, when the client's first n records were handled.     *)
ToServer(cl, n, x, w) ==
  /\ \A k \in DOMAIN Output(x, w) : Output(x, w)[k] \in 1..n
  /\ Relayed(cl, Sent(x, w), n)
  /\ ~Jammed(x) => Relayed(cl, Output(x, w), n)
  /\ x.paired = Client /\ ~Jammed(x) => Complete(cl, Output(x, w), n)

(* The client context x, when m records of the first server were handled.  *)
ToClient(sv, m, x, w) ==
  \A k \in DOMAIN Sent(x, w) : /\ Sent(x, w)[k] = k
                               /\ k <= m
                               /\ ~Bad(sv, k)

Encrypts(sc, t, x) == x.encrypted => \E i \in 1..t : sc[i].kind = "ccs"

(* Until Stop there is one server context, and it is paired both ways or   *)
(* has not been of any use.                                                *)
Useless(cl, cx, cn, cs, cg, tk) ==
  /\ cx[1].socket = "none"
  /\ \A h \in Hosts : cs[h] = 0 /\ cg[h] = 0
  /\ ~cn
  /\ cx[Client].encrypted \/ \A i \in 1..tk[Client] : ~Hello(cl, i)

Useful(cl, x, w) ==
  /\ x.socket # "closed" /\ ~Jammed(x)
  /\ \A i \in 1..(Output(x, w)[1] - 1) : ~Hello(cl, i)

Echo(sv, m, x, w) ==
  /\ ~Jammed(x)
  /\ Len(Output(x, w)) = m
  /\ \A k \in DOMAIN Output(x, w) : Output(x, w)[k] = k /\ ~Bad(sv, k)

Open(W, cx, cr, cn, cs, cg, tk, wr) ==
  cx[Client].socket = "open" =>
    /\ cr <= 1
    /\ cx[Client].paired = IF cr = 0 THEN None ELSE 1
    /\ Echo(W.server, tk[1], cx[Client], wr[Client])
    /\ cx[1].paired = None => Useless(W.client, cx, cn, cs, cg, tk)
    /\ cx[1].paired = Client => Useful(W.client, cx[1], wr[1])

-----------------------------------------------------------------------------
(* With a polite client.                                                   *)

(* A hello that is looked at, for another host than hn.                    *)
Mismatch(cl, hn, i) == /\ Hello(cl, i) /\ cl[i].host # hn
                       /\ \A j \in 1..(i - 1) : cl[j].kind # "ccs"

Matching(cl, hn, q) == \A k \in DOMAIN q : ~Mismatch(cl, hn, q[k])
LastOnly(cl, hn, q) == \A k \in DOMAIN q : Mismatch(cl, hn, q[k]) => k = Len(q)

(* All that x sends goes to the host hn that was checked.                  *)
Addressed(hn, cn, x, w) ==
  /\ \A k \in DOMAIN w : w[k].to = hn
  /\ \A k \in DOMAIN x.flying : x.flying[k].to = hn
  /\ x.socket # "none" => cn
  /\ x.socket = "open" => x.remote = hn

(* s is never given anything to send, nor started, any more.               *)
Dead(cx, s) == cx[s].socket # "open" /\ cx[Client].paired # s

(* v is the server context about to be stopped, if any.                    *)
Civil(cl, hn, cn, cx, wr, v) ==
  /\ cx \in [Contexts -> Fields] /\ wr \in [Contexts -> Seq(Writes)]
  /\ \A c \in Contexts : Writer(cx[c])
  /\ \A s \in Servers :
       /\ Addressed(hn, cn, cx[s], wr[s])
       /\ LastOnly(cl, hn, Output(cx[s], wr[s]))
       /\ Dead(cx, s) \/ s = v \/ Matching(cl, hn, Output(cx[s], wr[s]))

(* The client sends a second hello after an answer only.                   *)
Spaced(cl, m, w) ==
  \A i \in 1..m : \A j \in 1..(i - 1) : Hello(cl, i) /\ Hello(cl, j) => w # <<>>

(* One lookup or connect at most, for the host of the one hello.           *)
Asked(cl, n, hn, cn, cs, cg) ==
  /\ (\A i \in 1..n : ~Hello(cl, i)) => ~cn /\ \A h \in Hosts : cs[h] = 0 /\ cg[h] = 0
  /\ \A h \in Hosts : cs[h] + cg[h] > 0 => h = hn /\ cs[h] + cg[h] = 1
  /\ cn => \A h \in Hosts : cs[h] = 0 /\ cg[h] = 0

-----------------------------------------------------------------------------
ContextTypes(W, cx, cr, cs, cg, tk, wr) ==
  /\ W \in Worlds
  /\ cx \in [Contexts -> Fields]
  /\ cr \in 0..MaxServers
  /\ cs \in [Hosts -> Nat] /\ cg \in [Hosts -> Nat]
  /\ tk \in [Contexts -> Nat]
  /\ wr \in [Contexts -> Seq(Writes)]

(* What each method keeps.                                                 *)
Sound(W, cx, cr, cn, cs, cg, tk, wr) ==
  /\ ContextTypes(W, cx, cr, cs, cg, tk, wr)
  /\ Born(cx, cr, cn, cs, cg, tk, wr)
  /\ \A c \in Contexts : Writer(cx[c])
  /\ Links(cx, cr, wr)
  /\ \A s \in Servers : ToServer(W.client, tk[Client], cx[s], wr[s])
  /\ ToClient(W.server, tk[1], cx[Client], wr[Client])
  /\ Open(W, cx, cr, cn, cs, cg, tk, wr)

IInv ==
  /\ TypeOK
  /\ Counters(world, created, read, taken)
  /\ \A c \in Contexts : Encrypts(Script(c), taken[c], ctx[c])
  /\ Sound(world, ctx, created, connected, checks, connecting, taken, wrote)
  /\ CrashOnlyAfterStop

PoliteInv ==
  world.polite =>
    /\ Spaced(clientScript, read[Client], wrote[Client])
    /\ Asked(clientScript, taken[Client], hostName, connected, checks, connecting)
    /\ Civil(clientScript, hostName, connected, ctx, wrote, None)

-----------------------------------------------------------------------------
(* Sequences of writes and what is on its way through a context.           *)

LEMMA RecordsOf ==
  ASSUME NEW w \in Seq(Writes)
  PROVE  /\ Records(w) \in Seq(Nat) /\ Len(Records(w)) = Len(w)
         /\ DOMAIN Records(w) = 1..Len(w)
         /\ \A k \in 1..Len(w) : Records(w)[k] = w[k].rec
<1>1. DOMAIN w = 1..Len(w) /\ Len(w) \in Nat /\ \A k \in 1..Len(w) : w[k].rec \in Nat
  <2>1. \A k \in 1..Len(w) : w[k] \in Writes
    BY ElementOfSeq
  <2> QED
    BY <2>1, LenProperties DEF Writes
<1>2. /\ Records(w) = [k \in 1..Len(w) |-> w[k].rec]
      /\ Records(w) \in [1..Len(w) -> Nat]
  BY <1>1 DEF Records
<1>3. Records(w) \in Seq(Nat)
  BY <1>1, <1>2, SeqDef
<1>4. DOMAIN Records(w) = 1..Len(w)
  BY <1>2
<1>5. Len(Records(w)) = Len(w)
  BY <1>1, <1>3, <1>4, LenProperties
<1> QED
  BY <1>2, <1>3, <1>4, <1>5

LEMMA NoRecords == Records(<<>>) = <<>>
BY DEF Records

LEMMA RecordsAppend ==
  ASSUME NEW w \in Seq(Writes), NEW e \in Writes
  PROVE  Records(Append(w, e)) = Append(Records(w), e.rec)
<1>1. /\ Append(w, e) \in Seq(Writes) /\ Len(Append(w, e)) = Len(w) + 1
      /\ \A k \in 1..(Len(w) + 1) :
           Append(w, e)[k] = IF k = Len(w) + 1 THEN e ELSE w[k]
  OBVIOUS
<1>2. e.rec \in Nat /\ Len(w) \in Nat
  BY DEF Writes
<1>3. /\ Append(Records(w), e.rec) \in Seq(Nat)
      /\ Len(Append(Records(w), e.rec)) = Len(w) + 1
      /\ \A k \in 1..(Len(w) + 1) :
           Append(Records(w), e.rec)[k] = IF k = Len(w) + 1 THEN e.rec ELSE w[k].rec
  BY <1>2, RecordsOf, AppendProperties
<1>4. /\ Records(Append(w, e)) \in Seq(Nat)
      /\ Len(Records(Append(w, e))) = Len(w) + 1
      /\ \A k \in 1..(Len(w) + 1) : Records(Append(w, e))[k] = Append(w, e)[k].rec
  BY <1>1, RecordsOf
<1>5. \A k \in 1..(Len(w) + 1) : Records(Append(w, e))[k] = Append(Records(w), e.rec)[k]
  BY <1>1, <1>3, <1>4
<1> QED
  BY <1>3, <1>4, <1>5, SeqEqual

LEMMA ConcatAppend ==
  ASSUME NEW S, NEW s \in Seq(S), NEW t \in Seq(S), NEW e \in S
  PROVE  s \o Append(t, e) = Append(s \o t, e)
<1>1. <<e>> \in Seq(S) /\ s \o t \in Seq(S)
  BY ConcatProperties
<1>2. Append(t, e) = t \o <<e>> /\ Append(s \o t, e) = (s \o t) \o <<e>>
  BY <1>1, AppendIsConcat
<1>3. (s \o t) \o <<e>> = s \o (t \o <<e>>)
  BY ONLY <1>1, t \in Seq(S), s \in Seq(S), ConcatAssociative
<1> QED
  BY ONLY <1>2, <1>3

(* The same of queues.                                                     *)
LEMMA QueueAppend ==
  ASSUME NEW p \in Seq(Nat), NEW q \in Seq(Nat), NEW i \in Nat
  PROVE  p \o Append(q, i) = Append(p \o q, i)
BY ConcatAppend

LEMMA QueueAssociative ==
  ASSUME NEW p \in Seq(Nat), NEW q \in Seq(Nat), NEW r \in Seq(Nat)
  PROVE  (p \o q) \o r = p \o (q \o r)
<1> DEFINE N == Nat
<1>1. p \in Seq(N) /\ q \in Seq(N) /\ r \in Seq(N)
  OBVIOUS
<1> HIDE DEF N
<1>2. \A a, b, d \in Seq(N) : (a \o b) \o d = a \o (b \o d)
  BY ConcatAssociative
<1> QED
  BY ONLY <1>1, <1>2

LEMMA HeadFirst ==
  ASSUME NEW S, NEW s \in Seq(S), s # <<>>
  PROVE  s = <<Head(s)>> \o Tail(s)
<1>1. /\ Head(s) \in S /\ Tail(s) \in Seq(S) /\ Len(Tail(s)) = Len(s) - 1
      /\ \A k \in 1..Len(Tail(s)) : Tail(s)[k] = s[k + 1]
      /\ Len(s) \in Nat \ {0} /\ Head(s) = s[1]
  BY HeadTailProperties, EmptySeq
<1>2. <<Head(s)>> \in Seq(S) /\ Len(<<Head(s)>>) = 1 /\ <<Head(s)>>[1] = s[1]
  BY <1>1
<1> DEFINE h == <<Head(s)>>
<1> HIDE DEF h
<1>3. /\ h \o Tail(s) \in Seq(S) /\ Len(h \o Tail(s)) = Len(s)
      /\ \A k \in 1..Len(s) : (h \o Tail(s))[k] = IF k <= 1 THEN h[k] ELSE Tail(s)[k - 1]
  BY <1>1, <1>2, ConcatProperties DEF h
<1>4. \A k \in 1..Len(s) : (h \o Tail(s))[k] = s[k]
  BY <1>1, <1>2, <1>3 DEF h
<1> QED
  BY <1>3, <1>4, SeqEqual DEF h

(* The parts of what is sent, as functions of their positions.             *)
LEMMA OutputOf ==
  ASSUME NEW x \in Fields, NEW w \in Seq(Writes)
  PROVE  /\ Records(w) \in Seq(Nat) /\ Records(x.flying) \in Seq(Nat)
         /\ x.queue \in Seq(Nat) /\ x.flying \in Seq(Writes)
         /\ Sent(x, w) \in Seq(Nat) /\ Output(x, w) \in Seq(Nat)
         /\ Output(x, w) = Sent(x, w) \o x.queue
BY RecordsOf, ConcatProperties DEF Fields, Writes, Sent, Output

LEMMA OutputAppended ==
  ASSUME NEW x \in Fields, NEW y \in Fields, NEW w \in Seq(Writes), NEW i \in Nat,
         y.flying = x.flying, y.queue = Append(x.queue, i)
  PROVE  Output(y, w) = Append(Output(x, w), i)
<1>1. Sent(x, w) \in Seq(Nat) /\ x.queue \in Seq(Nat) /\ Sent(y, w) = Sent(x, w)
  BY OutputOf DEF Sent
<1>2. Sent(x, w) \o Append(x.queue, i) = Append(Sent(x, w) \o x.queue, i)
  BY <1>1, QueueAppend
<1> QED
  BY <1>1, <1>2, OutputOf

(* DoWrite with an open socket: the oldest task begins to fly.             *)
LEMMA OutputTaken ==
  ASSUME NEW x \in Fields, NEW y \in Fields, NEW w \in Seq(Writes),
         x.flying = <<>>, x.queue # <<>>,
         y.queue = Tail(x.queue), NEW e \in Writes, e.rec = Head(x.queue),
         y.flying = <<e>>
  PROVE  Output(y, w) = Output(x, w)
<1> DEFINE R == Records(w)
           Q == x.queue
           h == <<Head(x.queue)>>
<1>1. R \in Seq(Nat) /\ Q \in Seq(Nat) /\ Tail(Q) \in Seq(Nat) /\ h \in Seq(Nat)
  <2>1. R \in Seq(Nat) /\ Q \in Seq(Nat)
    BY OutputOf
  <2>2. Tail(Q) \in Seq(Nat) /\ Head(Q) \in Nat
    BY <2>1, HeadTailProperties
  <2> QED
    BY <2>1, <2>2
<1>2. Records(y.flying) = h
  <2>1. y.flying = Append(<<>>, e) /\ <<>> \in Seq(Writes) /\ h = Append(<<>>, e.rec)
    OBVIOUS
  <2> QED
    BY <2>1, RecordsAppend, NoRecords
<1>3. Output(y, w) = (R \o h) \o Tail(Q) /\ Output(x, w) = (R \o <<>>) \o Q
  BY <1>2, NoRecords DEF Output
<1>4. Q = h \o Tail(Q)
  BY <1>1, HeadFirst
<1> HIDE DEF R, Q, h
<1>5. (R \o h) \o Tail(Q) = R \o (h \o Tail(Q))
  BY <1>1, QueueAssociative
<1>6. R \o <<>> = R
  BY <1>1, ConcatEmptySeq
<1> QED
  BY <1>3, <1>4, <1>5, <1>6

(* WriteDone.                                                              *)
LEMMA OutputDone ==
  ASSUME NEW x \in Fields, NEW y \in Fields, NEW w \in Seq(Writes), NEW e \in Writes,
         x.flying = <<e>>, y.flying = <<>>, y.queue = x.queue
  PROVE  /\ Sent(y, Append(w, e)) = Sent(x, w)
         /\ Output(y, Append(w, e)) = Output(x, w)
<1> DEFINE R == Records(w)
           h == <<e.rec>>
<1>1. R \in Seq(Nat) /\ h \in Seq(Nat) /\ e.rec \in Nat /\ x.queue \in Seq(Nat)
  <2>1. e.rec \in Nat
    BY DEF Writes
  <2> QED
    BY <2>1, OutputOf
<1>2. Records(x.flying) = h
  <2>1. x.flying = Append(<<>>, e) /\ <<>> \in Seq(Writes) /\ h = Append(<<>>, e.rec)
    OBVIOUS
  <2> QED
    BY <2>1, RecordsAppend, NoRecords
<1>3. Records(Append(w, e)) = R \o h
  BY <1>1, RecordsAppend, AppendIsConcat
<1>4. Sent(y, Append(w, e)) = (R \o h) \o <<>> /\ Sent(x, w) = R \o h
  BY <1>2, <1>3, NoRecords DEF Sent
<1>5. Sent(y, Append(w, e)) = Sent(x, w)
  <2>1. R \o h \in Seq(Nat)
    BY <1>1, ConcatProperties
  <2> HIDE DEF R, h
  <2> QED
    BY <1>4, <2>1, ConcatEmptySeq
<1> QED
  BY <1>5 DEF Output, Sent

(* p is q with records left out, but not moved to the end.                 *)
Thinned(p, q) ==
  \A k \in DOMAIN p : \E j \in DOMAIN q : p[k] = q[j] /\ (j = Len(q) => k = Len(p))

LEMMA ConcatAt ==
  ASSUME NEW a \in Seq(Nat), NEW b \in Seq(Nat)
  PROVE  /\ a \o b \in Seq(Nat)
         /\ Len(a) \in Nat /\ Len(b) \in Nat /\ Len(a \o b) = Len(a) + Len(b)
         /\ DOMAIN (a \o b) = 1..(Len(a) + Len(b))
         /\ \A k \in 1..Len(a) : (a \o b)[k] = a[k]
         /\ \A k \in 1..Len(b) : (a \o b)[Len(a) + k] = b[k]
<1>1. /\ a \o b \in Seq(Nat)
      /\ Len(a) \in Nat /\ Len(b) \in Nat /\ Len(a \o b) = Len(a) + Len(b)
      /\ \A k \in 1..(Len(a) + Len(b)) :
           (a \o b)[k] = IF k <= Len(a) THEN a[k] ELSE b[k - Len(a)]
  BY ConcatProperties, LenProperties
<1>2. DOMAIN (a \o b) = 1..(Len(a) + Len(b))
  BY <1>1, LenProperties
<1>3. ASSUME NEW k \in 1..Len(a) PROVE (a \o b)[k] = a[k]
  <2>1. k \in 1..(Len(a) + Len(b)) /\ k <= Len(a)
    BY <1>1
  <2> QED
    BY <1>1, <2>1
<1>4. ASSUME NEW k \in 1..Len(b) PROVE (a \o b)[Len(a) + k] = b[k]
  <2>1. /\ Len(a) + k \in 1..(Len(a) + Len(b)) /\ ~(Len(a) + k <= Len(a))
        /\ Len(a) + k - Len(a) = k
    BY <1>1
  <2> QED
    BY <1>1, <2>1
<1> QED
  BY <1>1, <1>2, <1>3, <1>4

LEMMA OneLeftOut ==
  ASSUME NEW R \in Seq(Nat), NEW h \in Seq(Nat), NEW T \in Seq(Nat), Len(h) = 1
  PROVE  Thinned(R \o T, (R \o h) \o T)
<1> DEFINE p == R \o T
           q == (R \o h) \o T
           r == Len(R)
           t == Len(T)
<1>1. /\ r \in Nat /\ t \in Nat /\ DOMAIN p = 1..(r + t) /\ Len(p) = r + t
      /\ \A k \in 1..r : p[k] = R[k]
      /\ \A k \in 1..t : p[r + k] = T[k]
  BY ConcatAt
<1>2. /\ R \o h \in Seq(Nat) /\ Len(R \o h) = r + 1
      /\ \A k \in 1..r : (R \o h)[k] = R[k]
  <2>1. /\ R \o h \in Seq(Nat) /\ Len(R \o h) = Len(R) + Len(h)
        /\ \A k \in 1..Len(R) : (R \o h)[k] = R[k]
    BY ConcatAt
  <2> QED
    BY <2>1
<1>3. /\ DOMAIN q = 1..(r + 1 + t) /\ Len(q) = r + 1 + t
      /\ \A k \in 1..(r + 1) : q[k] = (R \o h)[k]
      /\ \A k \in 1..t : q[r + 1 + k] = T[k]
  <2> DEFINE g == R \o h
  <2>1. g \in Seq(Nat) /\ Len(g) = r + 1
    BY <1>2
  <2> HIDE DEF g, r, t
  <2>2. /\ DOMAIN (g \o T) = 1..(Len(g) + Len(T)) /\ Len(g \o T) = Len(g) + Len(T)
        /\ \A k \in 1..Len(g) : (g \o T)[k] = g[k]
        /\ \A k \in 1..Len(T) : (g \o T)[Len(g) + k] = T[k]
    BY <2>1, ConcatAt
  <2>3. t = Len(T) /\ q = g \o T /\ g = R \o h
    BY DEF t, g
  <2> QED
    BY <2>1, <2>2, <2>3
<1>4. \A k \in 1..r : q[k] = R[k]
  <2>1. \A k \in 1..r : k \in 1..(r + 1)
    BY <1>1
  <2> QED
    BY <1>2, <1>3, <2>1
<1> HIDE DEF p, q, r, t
<1>5. ASSUME NEW k \in 1..(r + t)
      PROVE  \E j \in 1..(r + 1 + t) : p[k] = q[j] /\ (j = r + 1 + t => k = r + t)
  <2>1. CASE k \in 1..r
    <3>1. k \in 1..(r + 1 + t) /\ k # r + 1 + t
      BY <1>1, <2>1
    <3> QED
      BY <1>1, <1>4, <2>1, <3>1
  <2>2. CASE k \notin 1..r
    <3>1. PICK m \in 1..t : k = r + m
      <4>1. k - r \in 1..t /\ k = r + (k - r)
        BY <1>1, <2>2
      <4> QED
        BY <4>1
    <3>2. /\ r + 1 + m \in 1..(r + 1 + t)
          /\ r + 1 + m = r + 1 + t => k = r + t
      BY <1>1, <3>1
    <3>3. p[k] = q[r + 1 + m]
      BY <1>1, <1>3, <3>1
    <3> QED
      BY <3>2, <3>3
  <2> QED
    BY <2>1, <2>2
<1>6. Thinned(p, q)
  <2> SUFFICES ASSUME NEW k \in DOMAIN p
               PROVE  \E j \in DOMAIN q : p[k] = q[j] /\ (j = Len(q) => k = Len(p))
    BY DEF Thinned
  <2>1. k \in 1..(r + t)
    BY <1>1
  <2>2. PICK j \in 1..(r + 1 + t) : p[k] = q[j] /\ (j = r + 1 + t => k = r + t)
    BY <1>5, <2>1
  <2> QED
    BY <1>1, <1>3, <2>2
<1> QED
  BY <1>6 DEF p, q

(* DoWrite with a closed socket: the oldest task is lost.                  *)
LEMMA OutputLost ==
  ASSUME NEW x \in Fields, NEW y \in Fields, NEW w \in Seq(Writes),
         x.flying = <<>>, y.flying = <<>>, x.queue # <<>>, y.queue = Tail(x.queue)
  PROVE  Sent(y, w) = Sent(x, w) /\ Thinned(Output(y, w), Output(x, w))
<1> DEFINE R == Records(w)
           T == Tail(x.queue)
           h == <<Head(x.queue)>>
<1>1. R \in Seq(Nat) /\ x.queue \in Seq(Nat)
  BY OutputOf
<1>2. T \in Seq(Nat) /\ h \in Seq(Nat) /\ Len(h) = 1
  <2>1. T \in Seq(Nat) /\ Head(x.queue) \in Nat
    BY <1>1, HeadTailProperties
  <2> QED
    BY <2>1
<1>3. x.queue = h \o T
  BY <1>1, HeadFirst
<1>4. R \o <<>> = R
  BY <1>1, ConcatEmptySeq
<1>5. Output(x, w) = R \o x.queue /\ Output(y, w) = R \o T
  BY <1>4, NoRecords DEF Output
<1> HIDE DEF R, T, h
<1>6. Output(x, w) = (R \o h) \o T
  <2>1. (R \o h) \o T = R \o (h \o T)
    BY <1>1, <1>2, QueueAssociative
  <2> QED
    BY <1>3, <1>5, <2>1
<1>7. Thinned(R \o T, (R \o h) \o T)
  BY <1>1, <1>2, OneLeftOut
<1> QED
  BY <1>5, <1>6, <1>7 DEF Sent

(* WriteFailed.                                                            *)
LEMMA OutputFailed ==
  ASSUME NEW x \in Fields, NEW y \in Fields, NEW w \in Seq(Writes), NEW e \in Writes,
         x.flying = <<e>>, y.flying = <<>>, y.queue = x.queue
  PROVE  /\ Sent(y, w) = Records(w)
         /\ Sent(x, w) = Append(Records(w), e.rec)
         /\ Thinned(Output(y, w), Output(x, w))
<1> DEFINE R == Records(w)
           h == <<e.rec>>
<1>1. R \in Seq(Nat) /\ x.queue \in Seq(Nat) /\ e.rec \in Nat
  <2>1. e.rec \in Nat
    BY DEF Writes
  <2> QED
    BY <2>1, OutputOf
<1>2. h \in Seq(Nat) /\ Len(h) = 1
  BY <1>1
<1>3. Records(x.flying) = h
  <2>1. x.flying = Append(<<>>, e) /\ <<>> \in Seq(Writes) /\ h = Append(<<>>, e.rec)
    OBVIOUS
  <2> QED
    BY <2>1, RecordsAppend, NoRecords
<1>4. R \o <<>> = R /\ Append(R, e.rec) = R \o h
  <2>1. R \o <<>> = R
    BY <1>1, ConcatEmptySeq
  <2>2. Append(R, e.rec) = R \o h
    BY <1>1, AppendIsConcat
  <2> QED
    BY <2>1, <2>2
<1>5. Output(x, w) = (R \o h) \o x.queue /\ Output(y, w) = R \o x.queue
  BY <1>3, <1>4, NoRecords DEF Output
<1> HIDE DEF R, h
<1>6. Thinned(R \o x.queue, (R \o h) \o x.queue)
  BY <1>1, <1>2, OneLeftOut
<1> QED
  BY <1>3, <1>4, <1>5, <1>6, NoRecords DEF Sent, R

-----------------------------------------------------------------------------
(* Stretches.                                                              *)

LEMMA RelayedPrefix ==
  ASSUME NEW sc, NEW n \in Nat, NEW a \in Seq(Nat), NEW b \in Seq(Nat),
         Relayed(sc, a \o b, n)
  PROVE  Relayed(sc, a, n)
<1> DEFINE q == a \o b
           l == Len(a)
<1>1. /\ l \in Nat /\ DOMAIN a = 1..l /\ DOMAIN q = 1..(l + Len(b)) /\ Len(b) \in Nat
      /\ \A k \in 1..l : q[k] = a[k]
  BY ConcatAt, LenProperties
<1>2. \A k \in 1..l : q[k] \in Nat
  BY <1>1, ElementOfSeq
<1>3. a # <<>> => l >= 1
  BY EmptySeq
<1>4. Relayed(sc, q, n)
  OBVIOUS
<1>5. q = <<>> => l = 0
  BY <1>1
<1> HIDE DEF q, l
<1>6. \A k \in 1..l : k \in DOMAIN q
  BY <1>1
<1>7. \A k \in DOMAIN a : a[k] \in 1..n /\ ~Bad(sc, a[k])
  BY <1>1, <1>4, <1>6 DEF Relayed
<1>8. \A j, k \in DOMAIN a : j < k => a[j] < a[k]
  BY <1>1, <1>4, <1>6 DEF Relayed
<1>9. a # <<>> => Hello(sc, a[1])
  <2> SUFFICES ASSUME a # <<>> PROVE Hello(sc, a[1])
    OBVIOUS
  <2>1. 1 \in 1..l /\ q # <<>>
    BY <1>1, <1>3, <1>5
  <2> QED
    BY <1>1, <1>4, <2>1 DEF Relayed
<1>10. ASSUME NEW k \in DOMAIN a, NEW i \in a[1]..a[k], ~Skipped(sc, i)
       PROVE  \E j \in DOMAIN a : a[j] = i
  <2>1. k \in 1..l /\ 1 \in 1..l /\ q[1] = a[1] /\ q[k] = a[k]
    BY <1>1, <1>10
  <2>2. PICK j \in DOMAIN q : q[j] = i
    BY <1>4, <1>6, <1>10, <2>1 DEF Relayed
  <2>3. i \in Nat /\ i <= a[k] /\ a[k] \in Nat
    BY <1>2, <1>10, <2>1
  <2>4. ~(k < j)
    BY <1>4, <1>6, <2>1, <2>2, <2>3 DEF Relayed
  <2>5. j \in 1..l
    BY <1>1, <2>1, <2>2, <2>4
  <2> QED
    BY <1>1, <2>2, <2>5
<1> QED
  BY <1>7, <1>8, <1>9, <1>10 DEF Relayed

LEMMA RelayedMore ==
  ASSUME NEW sc, NEW n \in Nat, NEW q \in Seq(Nat), Relayed(sc, q, n)
  PROVE  Relayed(sc, q, n + 1)
<1>1. \A i \in 1..n : i \in 1..(n + 1)
  OBVIOUS
<1> QED
  BY <1>1 DEF Relayed

LEMMA CompleteMore ==
  ASSUME NEW sc, NEW n \in Nat, NEW q \in Seq(Nat), Complete(sc, q, n),
         Skipped(sc, n + 1)
  PROVE  Complete(sc, q, n + 1)
<1>1. q[1] \in Nat /\ q # <<>>
  BY EmptySeq, ElementOfSeq DEF Complete
<1>2. \A i \in q[1]..(n + 1) : i \in q[1]..n \/ i = n + 1
  BY <1>1
<1> QED
  BY <1>2 DEF Complete

(* The next record behind a stretch that reaches up to it, or a hello as   *)
(* the first.                                                              *)
LEMMA StretchGrows ==
  ASSUME NEW sc, NEW n \in Nat, NEW q \in Seq(Nat), Relayed(sc, q, n),
         ~Bad(sc, n + 1),
         Complete(sc, q, n) \/ (q = <<>> /\ Hello(sc, n + 1))
  PROVE  /\ Relayed(sc, Append(q, n + 1), n + 1)
         /\ Complete(sc, Append(q, n + 1), n + 1)
<1> DEFINE p == Append(q, n + 1)
           l == Len(q)
<1>1. /\ l \in Nat /\ DOMAIN q = 1..l /\ DOMAIN p = 1..(l + 1)
      /\ \A k \in 1..l : p[k] = q[k]
      /\ p[l + 1] = n + 1
      /\ p # <<>> /\ p \in Seq(Nat)
      /\ q = <<>> => l = 0
      /\ q # <<>> => l >= 1
  BY AppendProperties, LenProperties, EmptySeq
<1>2. \A k \in 1..l : q[k] \in 1..n
  BY <1>1 DEF Relayed
<1> HIDE DEF p, l
<1>3. \A k \in 1..(l + 1) : k \in 1..l \/ k = l + 1
  BY <1>1
<1>4. ASSUME NEW k \in DOMAIN p
      PROVE  p[k] \in 1..(n + 1) /\ ~Bad(sc, p[k])
  <2>1. CASE k \in 1..l
    BY <1>1, <1>2, <2>1 DEF Relayed
  <2>2. CASE k = l + 1
    BY <1>1, <2>2
  <2> QED
    BY <1>1, <1>3, <2>1, <2>2
<1>5. ASSUME NEW j \in DOMAIN p, NEW k \in DOMAIN p, j < k
      PROVE  p[j] < p[k]
  <2>1. CASE k \in 1..l
    <3>1. j \in 1..l
      BY <1>1, <1>5, <2>1
    <3> QED
      BY <1>1, <1>5, <2>1, <3>1 DEF Relayed
  <2>2. CASE k = l + 1
    <3>1. j \in 1..l
      BY <1>1, <1>5, <2>2
    <3>2. p[j] \in 1..n /\ p[k] = n + 1
      BY <1>1, <1>2, <2>2, <3>1
    <3> QED
      BY <3>2
  <2> QED
    BY <1>1, <1>3, <2>1, <2>2
<1>6. Hello(sc, p[1])
  <2>1. CASE q = <<>>
    <3>1. p[1] = n + 1
      BY <1>1, <2>1
    <3> QED
      BY <2>1, <3>1 DEF Complete
  <2>2. CASE q # <<>>
    <3>1. p[1] = q[1]
      BY <1>1, <2>2
    <3> QED
      BY <2>2, <3>1 DEF Relayed
  <2> QED
    BY <2>1, <2>2
<1>7. ASSUME NEW i \in p[1]..(n + 1), ~Skipped(sc, i)
      PROVE  \E j \in DOMAIN p : p[j] = i
  <2>1. CASE i = n + 1
    <3>1. l + 1 \in DOMAIN p
      BY <1>1
    <3> QED
      BY <1>1, <2>1, <3>1
  <2>2. CASE i # n + 1
    <3>1. q # <<>>
      <4>1. q = <<>> => p[1] = n + 1
        BY <1>1
      <4> QED
        BY <1>7, <2>2, <4>1
    <3>2. 1 \in 1..l /\ p[1] = q[1] /\ q[1] \in 1..n
      BY <1>1, <1>2, <3>1
    <3>3. i \in q[1]..n
      BY <1>7, <2>2, <3>2
    <3>4. PICK j \in DOMAIN q : q[j] = i
      BY <1>7, <3>1, <3>3 DEF Complete
    <3>5. j \in DOMAIN p /\ p[j] = i
      BY <1>1, <3>4
    <3> QED
      BY <3>5
  <2> QED
    BY <2>1, <2>2
<1>8. ASSUME NEW k \in DOMAIN p, NEW i \in p[1]..p[k]
      PROVE  i \in p[1]..(n + 1)
  <2>1. p[k] \in 1..(n + 1) /\ p[1] \in 1..(n + 1)
    BY <1>1, <1>4
  <2> QED
    BY <1>8, <2>1
<1>9. Relayed(sc, p, n + 1)
  BY <1>4, <1>5, <1>6, <1>7, <1>8 DEF Relayed
<1>10. Complete(sc, p, n + 1)
  BY <1>1, <1>7 DEF Complete
<1> QED
  BY <1>9, <1>10 DEF p

-----------------------------------------------------------------------------
(* What the methods do to one context.                                     *)

(* Everything but the tasks.                                               *)
SameButTasks(x, y) ==
  /\ y.socket = x.socket /\ y.remote = x.remote /\ y.reader = x.reader
  /\ y.running = x.running /\ y.stray = x.stray /\ y.paired = x.paired
  /\ y.encrypted = x.encrypted

SameTasks(x, y) ==
  y.queue = x.queue /\ y.writing = x.writing /\ y.flying = x.flying

(* DoWrite.                                                                *)
Written(x) ==
  IF x.writing \/ x.queue = <<>> \/ x.socket = "none" THEN x
  ELSE [x EXCEPT !.writing = TRUE, !.queue = Tail(@),
                 !.flying = @ \o
                   IF x.socket = "open"
                   THEN <<[rec |-> Head(x.queue), to |-> x.remote]>>
                   ELSE <<>>]

Appended(x, i) == [x EXCEPT !.queue = Append(@, i)]

Opened(x, remote) ==
  [x EXCEPT !.socket = "open", !.remote = remote, !.running = TRUE,
            !.stray = x.running,
            !.reader = IF x.running THEN @ ELSE "reading"]

LEMMA WithIs ==
  ASSUME NEW cx \in [Contexts -> Fields], NEW c \in Contexts, NEW x \in Fields
  PROVE  /\ With(cx, c, x) \in [Contexts -> Fields]
         /\ With(cx, c, x)[c] = x
         /\ \A d \in Contexts \ {c} : With(cx, c, x)[d] = cx[d]
BY DEF With

LEMMA HeadTail ==
  ASSUME NEW q \in Seq(Nat), q # <<>>
  PROVE  Head(q) \in Nat /\ Tail(q) \in Seq(Nat)
BY HeadTailProperties

LEMMA WrittenIs ==
  ASSUME NEW x \in Fields, Writer(x)
  PROVE  LET y == Written(x)
         IN /\ y \in Fields /\ Writer(y) /\ SameButTasks(x, y)
            /\ \/ y = x /\ (x.writing \/ x.queue = <<>> \/ x.socket = "none")
               \/ /\ x.socket # "none" /\ ~x.writing /\ x.flying = <<>>
                  /\ x.queue # <<>> /\ y.queue = Tail(x.queue) /\ y.writing
                  /\ \/ x.socket = "closed" /\ y.flying = <<>>
                     \/ /\ x.socket = "open"
                        /\ \E e \in Writes : /\ y.flying = <<e>>
                                             /\ e.rec = Head(x.queue)
                                             /\ e.to = x.remote
<1> DEFINE y == Written(x)
<1>1. CASE x.writing \/ x.queue = <<>> \/ x.socket = "none"
  <2>1. y = x
    BY <1>1 DEF Written
  <2> QED
    BY <1>1, <2>1 DEF SameButTasks
<1>2. CASE ~(x.writing \/ x.queue = <<>> \/ x.socket = "none")
  <2>1. x.flying = <<>> /\ x.socket \in {"open", "closed"} /\ x.queue \in Seq(Nat)
        /\ x.queue # <<>> /\ x.remote \in Hosts \cup {NoHost} /\ ~x.writing
    BY <1>2 DEF Writer, Fields
  <2>2. Head(x.queue) \in Nat /\ Tail(x.queue) \in Seq(Nat)
    BY <2>1, HeadTail
  <2> DEFINE e == [rec |-> Head(x.queue), to |-> x.remote]
             f == IF x.socket = "open" THEN <<e>> ELSE <<>>
  <2>3. e \in Writes /\ e.rec = Head(x.queue) /\ e.to = x.remote
    BY <2>1, <2>2 DEF Writes
  <2>4. f \in Seq(Writes) /\ Len(f) <= 1 /\ x.flying \o f = f
    BY <2>1, <2>3
  <2>5. y = [x EXCEPT !.writing = TRUE, !.queue = Tail(@), !.flying = f]
    BY <1>2, <2>4 DEF Written
  <2> HIDE DEF e, f, y
  <2>6. /\ y \in Fields /\ SameButTasks(x, y) /\ y.writing
        /\ y.queue = Tail(x.queue) /\ y.flying = f
    BY <2>2, <2>4, <2>5 DEF Fields, Writes, SameButTasks
  <2>7. Writer(y)
    BY <2>4, <2>6 DEF Writer
  <2>8. CASE x.socket = "open"
    <3>1. f = <<e>>
      BY <2>8 DEF f
    <3> QED
      BY <2>1, <2>3, <2>6, <2>7, <2>8, <3>1 DEF y
  <2>9. CASE x.socket = "closed"
    <3>1. f = <<>>
      BY <2>9 DEF f
    <3> QED
      BY <2>1, <2>6, <2>7, <2>9, <3>1 DEF y
  <2> QED
    BY <2>1, <2>8, <2>9
<1> QED
  BY <1>1, <1>2

LEMMA DoWriteIs ==
  ASSUME NEW cx \in [Contexts -> Fields], NEW c \in Contexts, Writer(cx[c])
  PROVE  /\ DoWrite(cx, c) \in [Contexts -> Fields]
         /\ DoWrite(cx, c)[c] = Written(cx[c])
         /\ \A d \in Contexts \ {c} : DoWrite(cx, c)[d] = cx[d]
<1>1. Written(cx[c]) \in Fields
  BY WrittenIs
<1>2. DoWrite(cx, c) = cx \/ DoWrite(cx, c) = With(cx, c, Written(cx[c]))
  BY DEF DoWrite, Written
<1>3. DoWrite(cx, c) = cx => Written(cx[c]) = cx[c]
  <2>1. CASE cx[c].writing \/ cx[c].queue = <<>> \/ cx[c].socket = "none"
    BY <2>1 DEF Written
  <2>2. CASE ~(cx[c].writing \/ cx[c].queue = <<>> \/ cx[c].socket = "none")
    <3>1. DoWrite(cx, c) = With(cx, c, Written(cx[c]))
      BY <2>2 DEF DoWrite, Written
    <3>2. With(cx, c, Written(cx[c]))[c] = Written(cx[c])
      BY <1>1, WithIs
    <3> QED
      BY <3>1, <3>2
  <2> QED
    BY <2>1, <2>2
<1> QED
  BY <1>1, <1>2, <1>3, WithIs

LEMMA ClosedIs ==
  ASSUME NEW x \in Fields
  PROVE  LET y == Closed(x)
         IN /\ y \in Fields /\ SameTasks(x, y)
            /\ y.remote = x.remote /\ y.reader = x.reader /\ y.running = FALSE
            /\ y.stray = x.stray /\ y.paired = None /\ y.encrypted = x.encrypted
            /\ y.socket = IF x.socket = "none" THEN "none" ELSE "closed"
BY DEF Closed, Fields, SameTasks

LEMMA BlankIs == /\ Blank \in Fields /\ Writer(Blank)
                 /\ Blank.socket = "none" /\ Blank.paired = None /\ Blank.running = FALSE
                 /\ Blank.queue = <<>> /\ Blank.flying = <<>> /\ ~Blank.writing
                 /\ Blank.reader = "idle" /\ ~Blank.encrypted
<1>1. <<>> \in Seq(Nat) /\ <<>> \in Seq(Writes) /\ Len(<<>>) = 0
  OBVIOUS
<1> QED
  BY <1>1 DEF Blank, Fields, Writer, Writes

LEMMA SameFields ==
  ASSUME NEW x \in Fields, NEW y \in Fields, SameButTasks(x, y), SameTasks(x, y)
  PROVE  x = y
<1> DEFINE All(z) == [socket |-> z.socket, remote |-> z.remote,
                      reader |-> z.reader, running |-> z.running,
                      stray |-> z.stray, paired |-> z.paired,
                      queue |-> z.queue, writing |-> z.writing,
                      flying |-> z.flying, encrypted |-> z.encrypted]
<1>1. \A z \in Fields : z = All(z)
  BY DEF Fields
<1>2. All(x) = All(y)
  BY DEF SameButTasks, SameTasks
<1> QED
  BY ONLY <1>1, <1>2, x \in Fields, y \in Fields

LEMMA BlankClosed == Closed(Blank) = Blank
<1>1. SameButTasks(Blank, Closed(Blank))
  BY BlankIs, ClosedIs DEF SameButTasks
<1>2. Closed(Blank) \in Fields /\ SameTasks(Blank, Closed(Blank))
  BY BlankIs, ClosedIs
<1> QED
  BY <1>1, <1>2, BlankIs, SameFields

LEMMA StopIs ==
  ASSUME NEW cx \in [Contexts -> Fields], NEW c \in Contexts
  PROVE  /\ Stop(cx, c) \in [Contexts -> Fields]
         /\ \A d \in Contexts :
              Stop(cx, c)[d] = IF d \in {c, cx[c].paired} THEN Closed(cx[d]) ELSE cx[d]
BY ClosedIs DEF Stop

LEMMA AppendedIs ==
  ASSUME NEW x \in Fields, NEW i \in Nat, Writer(x)
  PROVE  LET y == Appended(x, i)
         IN /\ y \in Fields /\ Writer(y) /\ SameButTasks(x, y)
            /\ y.queue = Append(x.queue, i)
            /\ y.writing = x.writing /\ y.flying = x.flying
<1>1. Append(x.queue, i) \in Seq(Nat)
  BY DEF Fields
<1> QED
  BY <1>1 DEF Appended, Fields, SameButTasks, Writer

LEMMA OpenedIs ==
  ASSUME NEW x \in Fields, NEW r \in Hosts \cup {NoHost}
  PROVE  LET y == Opened(x, r)
         IN /\ y \in Fields /\ SameTasks(x, y)
            /\ y.socket = "open" /\ y.remote = r /\ y.running
            /\ y.paired = x.paired /\ y.encrypted = x.encrypted
            /\ y.reader = IF x.running THEN x.reader ELSE "reading"
BY DEF Opened, Fields, SameTasks

LEMMA QueueIs ==
  ASSUME NEW cx \in [Contexts -> Fields], NEW c \in Contexts, NEW d, NEW i \in Nat,
         Writer(cx[c])
  PROVE  /\ Queue(cx, c, d, i) \in [Contexts -> Fields]
         /\ Queue(cx, c, d, i)[c] = IF cx[c].paired = d THEN Written(Appended(cx[c], i))
                                    ELSE cx[c]
         /\ \A e \in Contexts \ {c} : Queue(cx, c, d, i)[e] = cx[e]
<1>1. CASE cx[c].paired = d
  <2> DEFINE cy == With(cx, c, Appended(cx[c], i))
  <2>1. /\ cy \in [Contexts -> Fields] /\ cy[c] = Appended(cx[c], i)
        /\ \A e \in Contexts \ {c} : cy[e] = cx[e]
        /\ Writer(cy[c])
    <3>1. Appended(cx[c], i) \in Fields /\ Writer(Appended(cx[c], i))
      BY AppendedIs
    <3> QED
      BY <3>1, WithIs
  <2>2. Queue(cx, c, d, i) = DoWrite(cy, c)
    BY <1>1 DEF Queue, Appended
  <2> HIDE DEF cy
  <2> QED
    BY <1>1, <2>1, <2>2, DoWriteIs
<1>2. CASE cx[c].paired # d
  BY <1>2 DEF Queue
<1> QED
  BY <1>1, <1>2

LEMMA StartIs ==
  ASSUME NEW cx \in [Contexts -> Fields], NEW c \in Contexts,
         NEW r \in Hosts \cup {NoHost}, Writer(cx[c])
  PROVE  /\ Start(cx, c, r) \in [Contexts -> Fields]
         /\ Start(cx, c, r)[c] = Written(Opened(cx[c], r))
         /\ \A e \in Contexts \ {c} : Start(cx, c, r)[e] = cx[e]
<1> DEFINE cy == With(cx, c, Opened(cx[c], r))
<1>1. /\ cy \in [Contexts -> Fields] /\ cy[c] = Opened(cx[c], r)
      /\ \A e \in Contexts \ {c} : cy[e] = cx[e]
  BY OpenedIs, WithIs
<1>2. Writer(cy[c])
  BY <1>1, OpenedIs DEF Writer, SameTasks
<1>3. Start(cx, c, r) = DoWrite(cy, c)
  BY DEF Start, Opened
<1> HIDE DEF cy
<1> QED
  BY <1>1, <1>2, <1>3, DoWriteIs

-----------------------------------------------------------------------------
(* What is sent to a server.                                               *)

LEMMA NothingOut ==
  ASSUME NEW x, NEW w, Untold(x, w)
  PROVE  Output(x, w) = <<>> /\ Sent(x, w) = <<>>
<1>1. <<>> \o <<>> = <<>>
  OBVIOUS
<1> QED
  BY <1>1, NoRecords DEF Untold, Output, Sent

LEMMA NothingRelayed ==
  ASSUME NEW sc, NEW n
  PROVE  Relayed(sc, <<>>, n)
<1>1. DOMAIN <<>> = {}
  OBVIOUS
<1> QED
  BY <1>1 DEF Relayed

LEMMA ToServerUntold ==
  ASSUME NEW sc, NEW n, NEW x, NEW w, Untold(x, w), x.paired # Client
  PROVE  ToServer(sc, n, x, w)
<1>1. DOMAIN <<>> = {}
  OBVIOUS
<1> QED
  BY <1>1, NothingOut, NothingRelayed DEF ToServer

LEMMA ToServerSame ==
  ASSUME NEW sc, NEW n, NEW x, NEW y, NEW w, ToServer(sc, n, x, w),
         SameTasks(x, y), y.paired = Client => x.paired = Client
  PROVE  ToServer(sc, n, y, w)
<1>1. Output(y, w) = Output(x, w) /\ Sent(y, w) = Sent(x, w) /\ Jammed(y) = Jammed(x)
  BY DEF Output, Sent, Jammed, SameTasks
<1> QED
  BY <1>1 DEF ToServer

LEMMA ThinnedBound ==
  ASSUME NEW p, NEW q, NEW n, Thinned(p, q), \A k \in DOMAIN q : q[k] \in 1..n
  PROVE  \A k \in DOMAIN p : p[k] \in 1..n
BY DEF Thinned

LEMMA ToServerWritten ==
  ASSUME NEW sc, NEW n \in Nat, NEW x \in Fields, NEW w \in Seq(Writes),
         Writer(x), ToServer(sc, n, x, w)
  PROVE  ToServer(sc, n, Written(x), w)
<1> DEFINE y == Written(x)
<1>1. y \in Fields /\ Writer(y) /\ SameButTasks(x, y)
  BY WrittenIs
<1>2. CASE y = x
  BY <1>2
<1>3. CASE /\ ~x.writing /\ x.flying = <<>>
           /\ x.queue # <<>> /\ y.queue = Tail(x.queue) /\ y.writing
           /\ x.socket = "closed" /\ y.flying = <<>>
  <2> HIDE DEF y
  <2>1. Sent(y, w) = Sent(x, w) /\ Thinned(Output(y, w), Output(x, w))
    BY <1>1, <1>3, OutputLost
  <2>2. Jammed(y)
    BY <1>3 DEF Jammed
  <2>3. \A k \in DOMAIN Output(y, w) : Output(y, w)[k] \in 1..n
    BY <2>1, ThinnedBound DEF ToServer
  <2>4. ToServer(sc, n, y, w)
    BY <2>1, <2>2, <2>3 DEF ToServer
  <2> QED
    BY <2>4 DEF y
<1>4. CASE /\ ~x.writing /\ x.flying = <<>>
           /\ x.queue # <<>> /\ y.queue = Tail(x.queue) /\ y.writing
           /\ \E e \in Writes : y.flying = <<e>> /\ e.rec = Head(x.queue)
  <2> HIDE DEF y
  <2>1. PICK e \in Writes : y.flying = <<e>> /\ e.rec = Head(x.queue)
    BY <1>4
  <2>2. Output(y, w) = Output(x, w)
    BY <1>1, <1>4, <2>1, OutputTaken
  <2>3. ~Jammed(x) /\ Relayed(sc, Output(x, w), n)
    BY <1>4 DEF Jammed, ToServer
  <2>4. /\ Sent(y, w) \in Seq(Nat) /\ y.queue \in Seq(Nat)
        /\ Output(y, w) = Sent(y, w) \o y.queue
    BY <1>1, OutputOf
  <2>5. Relayed(sc, Sent(y, w), n)
    BY <2>2, <2>3, <2>4, RelayedPrefix
  <2>6. y.paired = x.paired
    BY <1>1 DEF SameButTasks
  <2>7. ToServer(sc, n, y, w)
    BY <2>2, <2>3, <2>5, <2>6 DEF ToServer
  <2> QED
    BY <2>7 DEF y
<1> QED
  BY <1>2, <1>3, <1>4, WrittenIs

LEMMA ToServerSkipped ==
  ASSUME NEW sc, NEW n \in Nat, NEW x \in Fields, NEW w \in Seq(Writes),
         ToServer(sc, n, x, w), x.paired # Client \/ Skipped(sc, n + 1)
  PROVE  ToServer(sc, n + 1, x, w)
<1>1. Sent(x, w) \in Seq(Nat) /\ Output(x, w) \in Seq(Nat)
  BY OutputOf
<1>2. \A i \in 1..n : i \in 1..(n + 1)
  OBVIOUS
<1>3. Relayed(sc, Sent(x, w), n + 1)
  BY <1>1, RelayedMore DEF ToServer
<1>4. ~Jammed(x) => Relayed(sc, Output(x, w), n + 1)
  BY <1>1, RelayedMore DEF ToServer
<1>5. x.paired = Client /\ ~Jammed(x) => Complete(sc, Output(x, w), n + 1)
  BY <1>1, CompleteMore DEF ToServer
<1> QED
  BY <1>2, <1>3, <1>4, <1>5 DEF ToServer

(* The n+1st record of the client is queued.                               *)
LEMMA ToServerAppended ==
  ASSUME NEW sc, NEW n \in Nat, NEW x \in Fields, NEW y \in Fields, NEW w \in Seq(Writes),
         ToServer(sc, n, x, w), ~Bad(sc, n + 1),
         x.paired = Client \/ (Untold(x, w) /\ Hello(sc, n + 1)),
         y.queue = Append(x.queue, n + 1), y.flying = x.flying, y.writing = x.writing
  PROVE  ToServer(sc, n + 1, y, w)
<1> DEFINE q == Output(x, w)
<1>1. q \in Seq(Nat) /\ Sent(x, w) \in Seq(Nat) /\ n + 1 \in Nat
  BY OutputOf
<1>2. Output(y, w) = Append(q, n + 1)
  BY <1>1, OutputAppended
<1>3. Sent(y, w) = Sent(x, w) /\ Jammed(y) = Jammed(x)
  BY DEF Sent, Jammed
<1>4. Relayed(sc, Sent(y, w), n + 1)
  BY <1>1, <1>3, RelayedMore DEF ToServer
<1>5. \A k \in DOMAIN Output(y, w) : Output(y, w)[k] \in 1..(n + 1)
  <2>1. \A k \in DOMAIN Append(q, n + 1) :
          (k \in DOMAIN q /\ Append(q, n + 1)[k] = q[k]) \/ Append(q, n + 1)[k] = n + 1
    <3> HIDE DEF q
    <3> QED
      BY <1>1
  <2>2. \A k \in DOMAIN q : q[k] \in 1..n
    BY DEF ToServer
  <2> HIDE DEF q
  <2> QED
    BY <1>2, <2>1, <2>2
<1>6. ~Jammed(y) => Relayed(sc, Output(y, w), n + 1) /\ Complete(sc, Output(y, w), n + 1)
  <2> SUFFICES ASSUME ~Jammed(x)
               PROVE  /\ Relayed(sc, Append(q, n + 1), n + 1)
                      /\ Complete(sc, Append(q, n + 1), n + 1)
    BY <1>2, <1>3
  <2>1. Relayed(sc, q, n)
    BY DEF ToServer
  <2>2. Complete(sc, q, n) \/ (q = <<>> /\ Hello(sc, n + 1))
    BY NothingOut DEF ToServer
  <2> HIDE DEF q
  <2> QED
    BY <1>1, <2>1, <2>2, StretchGrows
<1> QED
  BY <1>4, <1>5, <1>6 DEF ToServer

LEMMA FlyingOne ==
  ASSUME NEW x \in Fields, Writer(x), x.flying # <<>>
  PROVE  /\ x.writing /\ Len(x.flying) = 1 /\ DOMAIN x.flying = {1}
         /\ x.flying[1] \in Writes /\ x.flying = <<x.flying[1]>>
         /\ Tail(x.flying) = <<>>
<1>1. x.flying \in Seq(Writes) /\ x.flying # <<>> /\ Len(x.flying) <= 1 /\ x.writing
  BY DEF Fields, Writes, Writer
<1>2. Len(x.flying) \in Nat \ {0} /\ DOMAIN x.flying = 1..Len(x.flying)
  BY <1>1, EmptySeq, LenProperties
<1>3. Len(x.flying) = 1
  <2>1. Len(x.flying) \in Nat \ {0} /\ Len(x.flying) <= 1
    BY <1>1, <1>2
  <2>2. \A l \in Nat \ {0} : l <= 1 => l = 1
    OBVIOUS
  <2> QED
    BY <2>1, <2>2
<1>4. 1 \in 1..Len(x.flying) /\ 1..1 = {1}
  BY <1>3
<1>5. x.flying[1] \in Writes
  BY <1>1, <1>4, ElementOfSeq
<1> DEFINE e == x.flying[1]
<1>6. <<e>> \in Seq(Writes) /\ Len(<<e>>) = 1 /\ <<e>>[1] = e
  BY <1>5
<1>7. \A i \in 1..Len(x.flying) : x.flying[i] = <<e>>[i]
  BY <1>3, <1>6
<1>8. x.flying = <<e>>
  <2> HIDE DEF e
  <2> QED
    BY <1>1, <1>3, <1>6, <1>7, SeqEqual
<1>9. Tail(x.flying) = <<>>
  <2>1. Tail(x.flying) \in Seq(Writes) /\ Len(Tail(x.flying)) = Len(x.flying) - 1
    BY <1>1, HeadTailProperties
  <2>2. Len(Tail(x.flying)) = 0
    BY <1>3, <2>1
  <2>3. Tail(x.flying) # <<>> => Len(Tail(x.flying)) \in Nat \ {0}
    BY <2>1, EmptySeq
  <2> QED
    BY <2>2, <2>3
<1> QED
  BY <1>1, <1>2, <1>3, <1>4, <1>5, <1>8, <1>9

LEMMA ToServerDone ==
  ASSUME NEW sc, NEW n \in Nat, NEW x \in Fields, NEW y \in Fields, NEW w \in Seq(Writes),
         NEW e \in Writes, ToServer(sc, n, x, w),
         x.flying = <<e>>, y.flying = <<>>, ~y.writing, y.queue = x.queue,
         y.paired = x.paired
  PROVE  ToServer(sc, n, y, Append(w, e))
<1>1. /\ Sent(y, Append(w, e)) = Sent(x, w)
      /\ Output(y, Append(w, e)) = Output(x, w)
  BY OutputDone
<1>2. ~Jammed(x)
  BY DEF Jammed
<1> QED
  BY <1>1, <1>2 DEF ToServer

LEMMA ToServerFailed ==
  ASSUME NEW sc, NEW n \in Nat, NEW x \in Fields, NEW y \in Fields, NEW w \in Seq(Writes),
         NEW e \in Writes, ToServer(sc, n, x, w),
         x.flying = <<e>>, y.flying = <<>>, y.writing, y.queue = x.queue
  PROVE  ToServer(sc, n, y, w)
<1>1. /\ Sent(y, w) = Records(w)
      /\ Sent(x, w) = Append(Records(w), e.rec)
      /\ Thinned(Output(y, w), Output(x, w))
  BY OutputFailed
<1>2. Jammed(y)
  BY DEF Jammed
<1>3. \A k \in DOMAIN Output(y, w) : Output(y, w)[k] \in 1..n
  BY <1>1, ThinnedBound DEF ToServer
<1>4. Records(w) \in Seq(Nat) /\ e.rec \in Nat /\ <<e.rec>> \in Seq(Nat)
  <2>1. e.rec \in Nat
    BY DEF Writes
  <2> QED
    BY <2>1, RecordsOf
<1>5. Sent(x, w) = Records(w) \o <<e.rec>>
  BY <1>1, <1>4, AppendIsConcat
<1>6. Relayed(sc, Records(w), n)
  BY <1>4, <1>5, RelayedPrefix DEF ToServer
<1> QED
  BY <1>1, <1>2, <1>3, <1>6 DEF ToServer

-----------------------------------------------------------------------------
(* What is sent to the client, and a connection that nobody has stopped.   *)

LEMMA WrittenOut ==
  ASSUME NEW x \in Fields, NEW w \in Seq(Writes),
         Writer(x), ~Jammed(x), x.socket # "closed"
  PROVE  ~Jammed(Written(x)) /\ Output(Written(x), w) = Output(x, w)
<1> DEFINE y == Written(x)
<1>1. y \in Fields
  BY WrittenIs
<1>2. CASE y = x
  BY <1>2
<1>3. CASE /\ x.flying = <<>> /\ x.queue # <<>> /\ y.queue = Tail(x.queue)
           /\ \E e \in Writes : y.flying = <<e>> /\ e.rec = Head(x.queue)
  <2> HIDE DEF y
  <2>1. PICK e \in Writes : y.flying = <<e>> /\ e.rec = Head(x.queue)
    BY <1>3
  <2>2. Output(y, w) = Output(x, w)
    BY <1>1, <1>3, <2>1, OutputTaken
  <2>3. <<e>> # <<>>
    OBVIOUS
  <2>4. ~Jammed(y)
    BY <2>1, <2>3 DEF Jammed
  <2> QED
    BY <2>2, <2>4 DEF y
<1> QED
  BY <1>2, <1>3, WrittenIs

LEMMA ToClientSame ==
  ASSUME NEW sv, NEW m \in Nat, NEW l \in Nat, NEW x, NEW y, NEW w,
         ToClient(sv, m, x, w), SameTasks(x, y), m <= l,
         DOMAIN Sent(x, w) \subseteq Nat
  PROVE  ToClient(sv, l, y, w)
<1>1. Sent(y, w) = Sent(x, w)
  BY DEF Sent, SameTasks
<1> QED
  BY <1>1 DEF ToClient

LEMMA ToClientPrefix ==
  ASSUME NEW sv, NEW m \in Nat, NEW a \in Seq(Nat), NEW b \in Seq(Nat),
         \A k \in DOMAIN (a \o b) : (a \o b)[k] = k /\ k <= m /\ ~Bad(sv, k)
  PROVE  \A k \in DOMAIN a : a[k] = k /\ k <= m /\ ~Bad(sv, k)
<1>1. /\ DOMAIN a = 1..Len(a) /\ DOMAIN (a \o b) = 1..(Len(a) + Len(b))
      /\ Len(a) \in Nat /\ Len(b) \in Nat
      /\ \A k \in 1..Len(a) : (a \o b)[k] = a[k]
  BY ConcatAt, LenProperties
<1>2. \A k \in 1..Len(a) : k \in 1..(Len(a) + Len(b))
  BY <1>1
<1> QED
  BY <1>1, <1>2

LEMMA EchoWhole ==
  ASSUME NEW sv, NEW m \in Nat, NEW x \in Fields, NEW w \in Seq(Writes), Echo(sv, m, x, w)
  PROVE  ToClient(sv, m, x, w)
<1>1. /\ Sent(x, w) \in Seq(Nat) /\ x.queue \in Seq(Nat)
      /\ Output(x, w) = Sent(x, w) \o x.queue /\ Output(x, w) \in Seq(Nat)
  BY OutputOf
<1>2. DOMAIN Output(x, w) = 1..m
  BY <1>1, LenProperties DEF Echo
<1>3. \A k \in DOMAIN Output(x, w) : Output(x, w)[k] = k /\ k <= m /\ ~Bad(sv, k)
  BY <1>2 DEF Echo
<1> DEFINE a == Sent(x, w)
<1>4. a \in Seq(Nat) /\ \A k \in DOMAIN (a \o x.queue) :
        (a \o x.queue)[k] = k /\ k <= m /\ ~Bad(sv, k)
  BY <1>1, <1>3
<1> HIDE DEF a
<1>5. \A k \in DOMAIN a : a[k] = k /\ k <= m /\ ~Bad(sv, k)
  BY <1>1, <1>4, ToClientPrefix
<1> QED
  BY <1>5 DEF ToClient, a

LEMMA EchoSame ==
  ASSUME NEW sv, NEW m, NEW x, NEW y, NEW w, Echo(sv, m, x, w), SameTasks(x, y)
  PROVE  Echo(sv, m, y, w)
<1>1. Output(y, w) = Output(x, w) /\ Jammed(y) = Jammed(x)
  BY DEF Output, Jammed, SameTasks
<1> QED
  BY <1>1 DEF Echo

LEMMA EchoWritten ==
  ASSUME NEW sv, NEW m, NEW x \in Fields, NEW w \in Seq(Writes),
         Writer(x), Echo(sv, m, x, w), x.socket # "closed"
  PROVE  Echo(sv, m, Written(x), w)
BY WrittenOut DEF Echo

LEMMA EchoAppended ==
  ASSUME NEW sv, NEW m \in Nat, NEW x \in Fields, NEW y \in Fields, NEW w \in Seq(Writes),
         Echo(sv, m, x, w), ~Bad(sv, m + 1),
         y.queue = Append(x.queue, m + 1), y.flying = x.flying, y.writing = x.writing
  PROVE  Echo(sv, m + 1, y, w)
<1>1. Output(x, w) \in Seq(Nat) /\ m + 1 \in Nat
  BY OutputOf
<1>2. Output(y, w) = Append(Output(x, w), m + 1)
  BY <1>1, OutputAppended
<1>3. ~Jammed(y)
  BY DEF Echo, Jammed
<1>4. Len(Output(x, w)) = m
  BY DEF Echo
<1>5. /\ Len(Output(y, w)) = m + 1 /\ DOMAIN Output(y, w) = 1..(m + 1)
      /\ DOMAIN Output(x, w) = 1..m
      /\ Output(y, w)[m + 1] = m + 1
      /\ \A k \in 1..m : Output(y, w)[k] = Output(x, w)[k]
  BY <1>1, <1>2, <1>4, AppendProperties, LenProperties
<1>6. \A k \in 1..(m + 1) : k \in 1..m \/ k = m + 1
  OBVIOUS
<1> QED
  BY <1>3, <1>5, <1>6 DEF Echo

LEMMA EchoDone ==
  ASSUME NEW sv, NEW m, NEW x \in Fields, NEW y \in Fields, NEW w \in Seq(Writes),
         NEW e \in Writes, Echo(sv, m, x, w),
         x.flying = <<e>>, y.flying = <<>>, ~y.writing, y.queue = x.queue
  PROVE  Echo(sv, m, y, Append(w, e))
<1>1. Output(y, Append(w, e)) = Output(x, w)
  BY OutputDone
<1> QED
  BY <1>1 DEF Echo, Jammed

LEMMA ToClientDone ==
  ASSUME NEW sv, NEW m, NEW x \in Fields, NEW y \in Fields, NEW w \in Seq(Writes),
         NEW e \in Writes, ToClient(sv, m, x, w),
         x.flying = <<e>>, y.flying = <<>>, y.queue = x.queue
  PROVE  ToClient(sv, m, y, Append(w, e))
<1>1. Sent(y, Append(w, e)) = Sent(x, w)
  BY OutputDone
<1> QED
  BY <1>1 DEF ToClient

LEMMA ToClientFailed ==
  ASSUME NEW sv, NEW m \in Nat, NEW x \in Fields, NEW y \in Fields, NEW w \in Seq(Writes),
         NEW e \in Writes, ToClient(sv, m, x, w),
         x.flying = <<e>>, y.flying = <<>>, y.queue = x.queue
  PROVE  ToClient(sv, m, y, w)
<1>1. Sent(y, w) = Records(w) /\ Sent(x, w) = Append(Records(w), e.rec)
  BY OutputFailed
<1>2. Records(w) \in Seq(Nat) /\ e.rec \in Nat /\ <<e.rec>> \in Seq(Nat)
  <2>1. e.rec \in Nat
    BY DEF Writes
  <2> QED
    BY <2>1, RecordsOf
<1>3. Sent(x, w) = Records(w) \o <<e.rec>>
  BY <1>1, <1>2, AppendIsConcat
<1> DEFINE a == Records(w)
           b == <<e.rec>>
<1>4. \A k \in DOMAIN (a \o b) : (a \o b)[k] = k /\ k <= m /\ ~Bad(sv, k)
  BY <1>3 DEF ToClient
<1>5. a \in Seq(Nat) /\ b \in Seq(Nat)
  BY <1>2
<1> HIDE DEF a, b
<1>6. \A k \in DOMAIN a : a[k] = k /\ k <= m /\ ~Bad(sv, k)
  BY <1>4, <1>5, ToClientPrefix
<1> QED
  BY <1>1, <1>6 DEF ToClient, a

LEMMA ToClientWritten ==
  ASSUME NEW sv, NEW m \in Nat, NEW x \in Fields, NEW w \in Seq(Writes),
         Writer(x), ToClient(sv, m, x, w), x.socket = "open" => Echo(sv, m, x, w)
  PROVE  ToClient(sv, m, Written(x), w)
<1> DEFINE y == Written(x)
<1>1. y \in Fields
  BY WrittenIs
<1>2. CASE x.socket = "open"
  BY <1>1, <1>2, EchoWritten, EchoWhole
<1>3. CASE y = x
  BY <1>3
<1>4. CASE x.flying = <<>> /\ y.flying = <<>>
  BY <1>4 DEF ToClient, Sent
<1> QED
  BY <1>2, <1>3, <1>4, WrittenIs

LEMMA UsefulSame ==
  ASSUME NEW cl, NEW x, NEW y, NEW w, Useful(cl, x, w), SameTasks(x, y),
         y.socket # "closed"
  PROVE  Useful(cl, y, w)
<1>1. Output(y, w) = Output(x, w) /\ Jammed(y) = Jammed(x)
  BY DEF Output, Jammed, SameTasks
<1> QED
  BY <1>1 DEF Useful

LEMMA UsefulWritten ==
  ASSUME NEW cl, NEW x \in Fields, NEW w \in Seq(Writes), Writer(x), Useful(cl, x, w)
  PROVE  Useful(cl, Written(x), w)
<1>1. ~Jammed(Written(x)) /\ Output(Written(x), w) = Output(x, w)
  BY WrittenOut DEF Useful
<1>2. Written(x).socket # "closed"
  BY WrittenIs DEF Useful, SameButTasks
<1> QED
  BY <1>1, <1>2 DEF Useful

LEMMA UsefulAppended ==
  ASSUME NEW cl, NEW n \in Nat, NEW x \in Fields, NEW y \in Fields, NEW w \in Seq(Writes),
         Useful(cl, x, w), Output(x, w) # <<>>,
         y.queue = Append(x.queue, n), y.flying = x.flying, y.writing = x.writing,
         y.socket = x.socket
  PROVE  Useful(cl, y, w)
<1>1. Output(x, w) \in Seq(Nat) /\ Output(y, w) = Append(Output(x, w), n)
  BY OutputOf, OutputAppended
<1>2. Append(Output(x, w), n)[1] = Output(x, w)[1]
  BY <1>1, AppendProperties, EmptySeq
<1> QED
  BY <1>1, <1>2 DEF Useful, Jammed

(* The first hello.                                                        *)
LEMMA UsefulFirst ==
  ASSUME NEW cl, NEW n \in Nat, NEW x \in Fields, NEW y \in Fields, NEW w \in Seq(Writes),
         Untold(x, w), x.socket # "closed", \A i \in 1..n : ~Hello(cl, i),
         y.queue = Append(x.queue, n + 1), y.flying = x.flying, y.writing = x.writing,
         y.socket = x.socket
  PROVE  Useful(cl, y, w)
<1>1. Output(y, w) = Append(<<>>, n + 1)
  <2>1. n + 1 \in Nat
    OBVIOUS
  <2>2. Output(y, w) = Append(Output(x, w), n + 1)
    BY <2>1, OutputAppended
  <2> QED
    BY <2>2, NothingOut
<1>2. Append(<<>>, n + 1)[1] = n + 1 /\ n + 1 - 1 = n
  OBVIOUS
<1>3. ~Jammed(y)
  BY DEF Untold, Jammed
<1> QED
  BY <1>1, <1>2, <1>3 DEF Useful

LEMMA UsefulDone ==
  ASSUME NEW cl, NEW x \in Fields, NEW y \in Fields, NEW w \in Seq(Writes),
         NEW e \in Writes, Useful(cl, x, w),
         x.flying = <<e>>, y.flying = <<>>, ~y.writing, y.queue = x.queue,
         y.socket = x.socket
  PROVE  Useful(cl, y, Append(w, e))
<1>1. Output(y, Append(w, e)) = Output(x, w)
  BY OutputDone
<1> QED
  BY <1>1 DEF Useful, Jammed

-----------------------------------------------------------------------------
(* One context changes.                                                    *)

LEMMA SomeServer == 1 \in Servers /\ Servers \subseteq Contexts /\ Client \in Contexts
                    /\ Client \notin Servers /\ None \notin Contexts
                    /\ Contexts = Servers \cup {Client}
BY ContextAssumption DEF Servers, Contexts, Client, None

LEMMA ServerChange ==
  ASSUME NEW W, NEW cx, NEW cr, NEW cn, NEW cs, NEW cg, NEW tk, NEW wr,
         Sound(W, cx, cr, cn, cs, cg, tk, wr),
         NEW s \in Servers, s <= cr,
         NEW cy \in [Contexts -> Fields], \A d \in Contexts \ {s} : cy[d] = cx[d],
         NEW wy \in [Contexts -> Seq(Writes)], \A d \in Contexts \ {s} : wy[d] = wr[d],
         Writer(cy[s]), Unstarted(cy[s], wy[s], tk[s]),
         cy[s].paired = cx[s].paired,
         ToServer(W.client, tk[Client], cy[s], wy[s]),
         cx[s].paired = None /\ Untold(cx[s], wr[s]) => Untold(cy[s], wy[s]),
         cx[Client].socket = "open" =>
           IF cx[s].paired = Client THEN Useful(W.client, cx[s], wr[s])
                                           => Useful(W.client, cy[s], wy[s])
           ELSE cy[s].socket = "none"
  PROVE  Sound(W, cy, cr, cn, cs, cg, tk, wy)
<1>1. /\ s \in Contexts /\ Client \in Contexts /\ Client # s /\ 1 \in Contexts
      /\ cy[Client] = cx[Client] /\ wy[Client] = wr[Client]
      /\ \A d \in Servers : d # s => cy[d] = cx[d] /\ wy[d] = wr[d]
  BY SomeServer
<1>2. ContextTypes(W, cy, cr, cs, cg, tk, wy)
  BY DEF Sound, ContextTypes
<1>3. Born(cy, cr, cn, cs, cg, tk, wy)
  <2>1. \A d \in Servers : d > cr => d # s
    <3>1. cr \in Nat /\ s \in Nat
      BY DEF Sound, ContextTypes, Servers
    <3> QED
      BY <3>1
  <2> QED
    BY <1>1, <2>1 DEF Sound, Born
<1>4. \A c \in Contexts : Writer(cy[c])
  BY DEF Sound
<1>5. Links(cy, cr, wy)
  BY <1>1 DEF Sound, Links
<1>6. \A d \in Servers : ToServer(W.client, tk[Client], cy[d], wy[d])
  BY <1>1 DEF Sound
<1>7. ToClient(W.server, tk[1], cy[Client], wy[Client])
  BY <1>1 DEF Sound
<1>8. Open(W, cy, cr, cn, cs, cg, tk, wy)
  <2> SUFFICES ASSUME cx[Client].socket = "open" PROVE Open(W, cy, cr, cn, cs, cg, tk, wy)
    BY <1>1 DEF Open
  <2>1. /\ cr <= 1 /\ cx[Client].paired = IF cr = 0 THEN None ELSE 1
        /\ Echo(W.server, tk[1], cx[Client], wr[Client])
        /\ cx[1].paired = None => Useless(W.client, cx, cn, cs, cg, tk)
        /\ cx[1].paired = Client => Useful(W.client, cx[1], wr[1])
    BY DEF Sound, Open
  <2>2. s = 1
    <3>1. cr \in Nat /\ s \in Nat /\ s >= 1
      BY DEF Sound, ContextTypes, Servers
    <3> QED
      BY <2>1, <3>1
  <2>3. cx[1].paired \in {None, Client} /\ None # Client
    BY SomeServer DEF Sound, Links
  <2>4. cy[1].paired = None => Useless(W.client, cy, cn, cs, cg, tk)
    BY <1>1, <2>1, <2>2, <2>3 DEF Useless
  <2>5. cy[1].paired = Client => Useful(W.client, cy[1], wy[1])
    BY <2>1, <2>2
  <2> QED
    BY <1>1, <2>1, <2>4, <2>5 DEF Open
<1> QED
  BY <1>2, <1>3, <1>4, <1>5, <1>6, <1>7, <1>8 DEF Sound

LEMMA ClientChange ==
  ASSUME NEW W, NEW cx, NEW cr, NEW cn, NEW cs, NEW cg, NEW tk, NEW wr,
         Sound(W, cx, cr, cn, cs, cg, tk, wr),
         NEW cy \in [Contexts -> Fields], \A s \in Servers : cy[s] = cx[s],
         NEW wy \in [Contexts -> Seq(Writes)], \A s \in Servers : wy[s] = wr[s],
         cx[Client].socket # "none", cy[Client].socket = cx[Client].socket,
         cy[Client].reader # "idle",
         Writer(cy[Client]), cy[Client].paired = cx[Client].paired,
         cx[Client].encrypted => cy[Client].encrypted,
         ToClient(W.server, tk[1], cy[Client], wy[Client]),
         cx[Client].socket = "open" => Echo(W.server, tk[1], cy[Client], wy[Client])
  PROVE  Sound(W, cy, cr, cn, cs, cg, tk, wy)
<1>1. /\ Client \in Contexts /\ 1 \in Servers /\ Contexts = Servers \cup {Client}
  BY SomeServer
<1>2. ContextTypes(W, cy, cr, cs, cg, tk, wy)
  BY DEF Sound, ContextTypes
<1>3. Born(cy, cr, cn, cs, cg, tk, wy)
  <2>1. \A c \in Contexts : Unstarted(cy[c], wy[c], tk[c])
    <3>1. \A c \in Servers : Unstarted(cy[c], wy[c], tk[c])
      BY <1>1 DEF Sound, Born
    <3>2. Unstarted(cy[Client], wy[Client], tk[Client])
      BY DEF Unstarted
    <3> QED
      BY <1>1, <3>1, <3>2
  <2> QED
    BY <2>1 DEF Sound, Born
<1>4. \A c \in Contexts : Writer(cy[c])
  BY <1>1 DEF Sound
<1>5. Links(cy, cr, wy)
  BY <1>1 DEF Sound, Links
<1>6. \A d \in Servers : ToServer(W.client, tk[Client], cy[d], wy[d])
  BY DEF Sound
<1>7. Open(W, cy, cr, cn, cs, cg, tk, wy)
  BY <1>1 DEF Sound, Open, Useless
<1> QED
  BY <1>2, <1>3, <1>4, <1>5, <1>6, <1>7 DEF Sound

(* Stop, of a context that is started.                                     *)
LEMMA StopKeeps ==
  ASSUME NEW W, NEW cx, NEW cr, NEW cn, NEW cs, NEW cg, NEW tk, NEW wr,
         Sound(W, cx, cr, cn, cs, cg, tk, wr),
         NEW c \in Contexts, cx[c].socket # "none"
  PROVE  /\ Sound(W, Stop(cx, c), cr, cn, cs, cg, tk, wr)
         /\ Stop(cx, c)[Client].socket # "open"
         /\ cx[Client].socket # "none" => Stop(cx, c)[Client].socket = "closed"
         /\ \A d \in Contexts : Stop(cx, c)[d].encrypted = cx[d].encrypted
<1> DEFINE cy == Stop(cx, c)
<1>1. /\ cx \in [Contexts -> Fields] /\ cr \in 0..MaxServers
      /\ Client \in Contexts /\ 1 \in Servers /\ Contexts = Servers \cup {Client}
      /\ None \notin Contexts /\ Client \notin Servers
  BY SomeServer DEF Sound, ContextTypes
<1>2. /\ cy \in [Contexts -> Fields]
      /\ \A d \in Contexts : cy[d] = IF d \in {c, cx[c].paired} THEN Closed(cx[d]) ELSE cx[d]
  BY <1>1, StopIs
<1> HIDE DEF cy
<1>3. ASSUME NEW d \in Contexts
      PROVE  /\ SameTasks(cx[d], cy[d])
             /\ cy[d].socket # "open" \/ cy[d].socket = cx[d].socket
             /\ cy[d].socket = "none" <=> cx[d].socket = "none"
             /\ cy[d].reader = cx[d].reader /\ cy[d].encrypted = cx[d].encrypted
             /\ cy[d].running => cx[d].running
             /\ \/ cy[d].paired = cx[d].paired /\ d \notin {c, cx[c].paired}
                \/ cy[d].paired = None /\ d \in {c, cx[c].paired} /\ cy[d].socket # "open"
  <2>1. CASE d \in {c, cx[c].paired}
    <3>1. cx[d] \in Fields /\ cy[d] = Closed(cx[d])
      BY <1>1, <1>2, <2>1
    <3>2. ~cy[d].running
      BY <3>1, ClosedIs
    <3> QED
      BY <1>1, <2>1, <3>1, <3>2, ClosedIs
  <2>2. CASE d \notin {c, cx[c].paired}
    BY <1>2, <2>2 DEF SameTasks
  <2> QED
    BY <2>1, <2>2
<1>4. ContextTypes(W, cy, cr, cs, cg, tk, wr)
  BY <1>2 DEF Sound, ContextTypes
<1>5. ASSUME NEW d \in Contexts, cx[d] = Blank
      PROVE  cy[d] = Blank
  BY <1>2, <1>5, BlankClosed
<1>6. Born(cy, cr, cn, cs, cg, tk, wr)
  <2>1. \A d \in Contexts : Unstarted(cy[d], wr[d], tk[d])
    BY <1>3 DEF Sound, Born, Unstarted, SameTasks
  <2> QED
    BY <1>1, <1>3, <1>5, <2>1 DEF Sound, Born
<1>7. \A d \in Contexts : Writer(cy[d])
  BY <1>3 DEF Sound, Writer, SameTasks
<1>8. Links(cy, cr, wr)
  <2>1. Links(cx, cr, wr)
    BY DEF Sound
  <2>2. cy[Client].paired = None \/ cy[Client].paired \in 1..cr
    BY <1>1, <1>3, <2>1 DEF Links
  <2> SUFFICES ASSUME NEW s \in Servers
               PROVE  /\ cy[s].paired \in {None, Client}
                      /\ cy[s].paired = Client => cy[Client].paired = s
                      /\ cy[Client].paired = s /\ cy[s].paired = None => Untold(cy[s], wr[s])
    BY <2>2 DEF Links
  <2>3. s \in Contexts /\ s # Client /\ s # None /\ Client # None
    BY <1>1
  <2>4. cy[s].paired \in {None, Client}
    BY <1>3, <2>1, <2>3 DEF Links
  <2>5. ASSUME cy[s].paired = Client
        PROVE  cy[Client].paired = s
    <3>1. cx[s].paired = Client /\ cx[Client].paired = s /\ s \notin {c, cx[c].paired}
      BY <1>3, <2>1, <2>3, <2>5 DEF Links
    <3>2. c # Client
      BY <3>1
    <3>3. cx[c].paired # Client
      BY <1>1, <2>1, <3>1, <3>2 DEF Links
    <3> QED
      BY <1>1, <1>3, <3>1, <3>2, <3>3
  <2>6. ASSUME cy[Client].paired = s, cy[s].paired = None
        PROVE  Untold(cy[s], wr[s])
    <3>1. cx[Client].paired = s /\ Client \notin {c, cx[c].paired}
      BY <1>1, <1>3, <2>3, <2>6
    <3>2. cx[s].paired = None
      <4>1. CASE s \in {c, cx[c].paired}
        <5>1. s = c
          BY <1>1, <2>1, <2>3, <3>1, <4>1 DEF Links
        <5> QED
          BY <2>1, <3>1, <5>1 DEF Links
      <4>2. CASE s \notin {c, cx[c].paired}
        BY <1>3, <2>3, <2>6, <4>2
      <4> QED
        BY <4>1, <4>2
    <3> QED
      BY <1>3, <2>1, <2>3, <3>1, <3>2 DEF Links, Untold, SameTasks
  <2> QED
    BY <2>4, <2>5, <2>6
<1>9. \A s \in Servers : ToServer(W.client, tk[Client], cy[s], wr[s])
  <2> SUFFICES ASSUME NEW s \in Servers
               PROVE  ToServer(W.client, tk[Client], cy[s], wr[s])
    OBVIOUS
  <2>1. SameTasks(cx[s], cy[s]) /\ (cy[s].paired = Client => cx[s].paired = Client)
    BY <1>1, <1>3
  <2>2. ToServer(W.client, tk[Client], cx[s], wr[s])
    BY DEF Sound
  <2> QED
    BY <2>1, <2>2, ToServerSame
<1>10. ToClient(W.server, tk[1], cy[Client], wr[Client])
  BY <1>1, <1>3 DEF Sound, ToClient, Sent, SameTasks
<1>11. cy[Client].socket # "open"
  <2>1. CASE Client \in {c, cx[c].paired}
    BY <1>1, <1>3, <2>1
  <2>2. CASE Client \notin {c, cx[c].paired} /\ cx[Client].socket # "open"
    BY <1>1, <1>3, <2>2
  <2>3. CASE Client \notin {c, cx[c].paired} /\ cx[Client].socket = "open"
    <3>1. c \in Servers /\ cx[c].paired = None
      BY <1>1, <2>3 DEF Sound, Links
    <3>2. c <= cr
      <4>1. c > cr => cx[c].socket = "none"
        BY <3>1 DEF Sound, Born, Blank
      <4>2. c \in Nat /\ cr \in Nat
        BY <1>1, <3>1 DEF Servers
      <4> QED
        BY <4>1, <4>2
    <3>3. c = 1
      <4>1. cr <= 1
        BY <2>3 DEF Sound, Open
      <4>2. c \in Nat /\ cr \in Nat /\ c >= 1
        BY <1>1, <3>1 DEF Servers
      <4> QED
        BY <3>2, <4>1, <4>2
    <3>4. cx[1].socket = "none"
      BY <2>3, <3>1, <3>3 DEF Sound, Open, Useless
    <3> QED
      BY <3>3, <3>4
  <2> QED
    BY <2>1, <2>2, <2>3
<1>12. Open(W, cy, cr, cn, cs, cg, tk, wr)
  BY <1>11 DEF Open
<1>13. Sound(W, cy, cr, cn, cs, cg, tk, wr)
  BY <1>4, <1>6, <1>7, <1>8, <1>9, <1>10, <1>12 DEF Sound
<1>14. cx[Client].socket # "none" => cy[Client].socket = "closed"
  BY <1>1, <1>2, <1>3, <1>11 DEF Fields
<1> QED
  BY <1>3, <1>11, <1>13, <1>14 DEF cy

LEMMA ReleaseKeeps ==
  ASSUME NEW W, NEW cx, NEW cr, NEW cn, NEW cs, NEW cg, NEW tk, NEW wr, NEW waiting,
         Sound(W, cx, cr, cn, cs, cg, tk, wr), cx[Client].socket # "none"
  PROVE  /\ Sound(W, Release(cx, waiting), cr, cn, cs, cg, tk, wr)
         /\ Release(cx, waiting)[Client].socket # "none"
         /\ cx[Client].socket = "closed" => Release(cx, waiting)[Client].socket = "closed"
         /\ \A d \in Contexts : Release(cx, waiting)[d].encrypted = cx[d].encrypted
<1>1. Release(cx, waiting) = cx \/ Release(cx, waiting) = Stop(cx, Client)
  BY DEF Release
<1>2. Client \in Contexts
  BY SomeServer
<1>3. /\ Sound(W, Stop(cx, Client), cr, cn, cs, cg, tk, wr)
      /\ Stop(cx, Client)[Client].socket = "closed"
      /\ \A d \in Contexts : Stop(cx, Client)[d].encrypted = cx[d].encrypted
  BY <1>2, StopKeeps
<1> QED
  BY <1>1, <1>3

(* Lookups and connects come and go, but not for a useless server context. *)
LEMMA RequestsKeep ==
  ASSUME NEW W, NEW cx, NEW cr, NEW cn, NEW cs, NEW cg, NEW tk, NEW wr,
         Sound(W, cx, cr, cn, cs, cg, tk, wr),
         NEW cm, NEW ds \in [Hosts -> Nat], NEW dg \in [Hosts -> Nat],
         cx[Client].socket # "none",
         cx[Client].socket = "open" => cx[1].paired = Client
  PROVE  Sound(W, cx, cr, cm, ds, dg, tk, wr)
<1>1. ContextTypes(W, cx, cr, ds, dg, tk, wr) /\ Born(cx, cr, cm, ds, dg, tk, wr)
  BY DEF Sound, ContextTypes, Born
<1>2. Client # None
  BY SomeServer
<1>3. Open(W, cx, cr, cm, ds, dg, tk, wr)
  BY <1>2 DEF Sound, Open
<1> QED
  BY <1>1, <1>3 DEF Sound

(* A server context that is not blank has been created.                    *)
LEMMA StartedIsBorn ==
  ASSUME NEW W, NEW cx, NEW cr, NEW cn, NEW cs, NEW cg, NEW tk, NEW wr,
         Sound(W, cx, cr, cn, cs, cg, tk, wr),
         NEW s \in Servers, cx[s].socket # "none"
  PROVE  /\ s <= cr /\ cx[Client].socket # "none"
         /\ cx[Client].socket = "open" => s = 1 /\ cx[s].paired = Client
<1>1. s > cr => cx[s] = Blank
  BY DEF Sound, Born
<1>2. ~(s > cr)
  BY <1>1, BlankIs
<1>3. s \in Nat /\ s >= 1 /\ cr \in Nat
  BY DEF Servers, Sound, ContextTypes
<1>4. s <= cr
  BY <1>2, <1>3
<1>5. cx[Client].socket # "none"
  <2>1. cx[Client].socket = "none" => cr = 0
    BY DEF Sound, Born
  <2> QED
    BY <1>3, <1>4, <2>1
<1>6. ASSUME cx[Client].socket = "open"
      PROVE  s = 1 /\ cx[s].paired = Client
  <2>1. cr <= 1
    BY <1>6 DEF Sound, Open
  <2>2. s = 1
    BY <1>3, <1>4, <2>1
  <2> QED
    BY <1>6, <2>2 DEF Sound, Open, Links, Useless
<1> QED
  BY <1>4, <1>5, <1>6

(* A reader goes on or ends.                                               *)
LEMMA ReaderKeeps ==
  ASSUME NEW W, NEW cx, NEW cr, NEW cn, NEW cs, NEW cg, NEW tk, NEW wr,
         Sound(W, cx, cr, cn, cs, cg, tk, wr),
         NEW c \in Contexts, cx[c].socket # "none",
         NEW y \in Fields, SameTasks(cx[c], y), y.socket = cx[c].socket,
         y.paired = cx[c].paired, cx[c].encrypted => y.encrypted, y.reader # "idle"
  PROVE  Sound(W, With(cx, c, y), cr, cn, cs, cg, tk, wr)
<1> DEFINE cy == With(cx, c, y)
<1>1. /\ cx \in [Contexts -> Fields] /\ wr \in [Contexts -> Seq(Writes)]
      /\ tk \in [Contexts -> Nat] /\ Writer(cx[c])
  BY DEF Sound, ContextTypes
<1>2. /\ cy \in [Contexts -> Fields] /\ cy[c] = y
      /\ \A d \in Contexts \ {c} : cy[d] = cx[d]
  BY ONLY <1>1, c \in Contexts, y \in Fields DEF cy, With
<1>3. Writer(y)
  BY <1>1 DEF Writer, SameTasks
<1> HIDE DEF cy
<1>4. CASE c \in Servers
  <2>1. /\ c <= cr
        /\ cx[Client].socket = "open" => cx[c].paired = Client
    BY <1>4, StartedIsBorn
  <2>2. Unstarted(y, wr[c], tk[c])
    BY DEF Unstarted
  <2>3. ToServer(W.client, tk[Client], cx[c], wr[c])
    BY <1>4 DEF Sound
  <2>4. ToServer(W.client, tk[Client], y, wr[c])
    BY <2>3, ToServerSame
  <2>5. Untold(cx[c], wr[c]) => Untold(y, wr[c])
    BY DEF Untold, SameTasks
  <2>6. Useful(W.client, cx[c], wr[c]) => Useful(W.client, y, wr[c])
    BY UsefulSame DEF Useful
  <2>7. Sound(W, cy, cr, cn, cs, cg, tk, wr)
    BY <1>1, <1>2, <1>3, <1>4, <2>1, <2>2, <2>4, <2>5, <2>6, ServerChange
  <2> QED
    BY <2>7 DEF cy
<1>5. CASE c = Client
  <2>1. /\ \A s \in Servers : cy[s] = cx[s]
        /\ tk[1] \in Nat
    BY <1>1, <1>2, <1>5, SomeServer
  <2>2. ToClient(W.server, tk[1], y, wr[c])
    <3>1. ToClient(W.server, tk[1], cx[c], wr[c])
      BY <1>5 DEF Sound
    <3> QED
      BY <3>1 DEF ToClient, Sent, SameTasks
  <2>3. cx[Client].socket = "open" => Echo(W.server, tk[1], y, wr[c])
    BY <1>5, EchoSame DEF Sound, Open
  <2>4. Sound(W, cy, cr, cn, cs, cg, tk, wr)
    BY <1>1, <1>2, <1>3, <1>5, <2>1, <2>2, <2>3, ClientChange
  <2> QED
    BY <2>4 DEF cy
<1> QED
  BY <1>4, <1>5, SomeServer

(* The server context is started.                                          *)
LEMMA StartKeeps ==
  ASSUME NEW W, NEW cx, NEW cr, NEW cn, NEW cs, NEW cg, NEW tk, NEW wr,
         Sound(W, cx, cr, cn, cs, cg, tk, wr),
         NEW s \in Servers, cx[Client].paired = s, NEW r \in Hosts \cup {NoHost},
         cx[Client].socket = "open" => cx[s].paired = Client
  PROVE  /\ Sound(W, Start(cx, s, r), cr, cn, cs, cg, tk, wr)
         /\ Start(cx, s, r)[Client] = cx[Client]
         /\ \A d \in Contexts : Start(cx, s, r)[d].encrypted = cx[d].encrypted
<1> DEFINE cy == Start(cx, s, r)
           x  == cx[s]
           y  == Opened(x, r)
           z  == Written(y)
<1>1. /\ cx \in [Contexts -> Fields] /\ wr \in [Contexts -> Seq(Writes)]
      /\ tk \in [Contexts -> Nat] /\ x \in Fields /\ Writer(x) /\ s \in Contexts
      /\ wr[s] \in Seq(Writes) /\ tk[Client] \in Nat /\ Client \in Contexts \ {s}
  BY SomeServer DEF Sound, ContextTypes
<1>2. /\ cy \in [Contexts -> Fields] /\ cy[s] = z
      /\ \A d \in Contexts \ {s} : cy[d] = cx[d]
  BY ONLY <1>1, r \in Hosts \cup {NoHost}, StartIs DEF cy, x, y, z
<1>3. /\ y \in Fields /\ SameTasks(x, y) /\ y.socket = "open" /\ y.paired = x.paired
      /\ y.encrypted = x.encrypted
  BY <1>1, OpenedIs
<1>4. Writer(y)
  BY <1>1, <1>3 DEF Writer, SameTasks
<1>5. z \in Fields /\ Writer(z) /\ SameButTasks(y, z)
  BY <1>3, <1>4, WrittenIs
<1> HIDE DEF cy, y, z
<1>6. z.paired = x.paired /\ z.socket = "open" /\ z.encrypted = x.encrypted
  BY <1>3, <1>5 DEF SameButTasks
<1>7. Unstarted(z, wr[s], tk[s])
  BY <1>6 DEF Unstarted
<1>8. s <= cr
  <2>1. s # None /\ cr \in Nat /\ s \in Nat /\ None = -1
    BY SomeServer DEF Servers, Sound, ContextTypes, None
  <2> QED
    BY <2>1 DEF Sound, Links
<1>9. ToServer(W.client, tk[Client], z, wr[s])
  <2>1. ToServer(W.client, tk[Client], x, wr[s])
    BY DEF Sound
  <2>2. ToServer(W.client, tk[Client], y, wr[s])
    BY <1>3, <2>1, ToServerSame
  <2>3. ToServer(W.client, tk[Client], Written(y), wr[s])
    BY <1>1, <1>3, <1>4, <2>2, ToServerWritten
  <2> QED
    BY <2>3 DEF z
<1>10. Untold(x, wr[s]) => Untold(z, wr[s])
  <2> SUFFICES ASSUME Untold(x, wr[s]) PROVE Untold(z, wr[s])
    OBVIOUS
  <2>1. Untold(y, wr[s])
    BY <1>3 DEF Untold, SameTasks
  <2>2. Written(y) = y
    BY <2>1 DEF Written, Untold
  <2> QED
    BY <2>1, <2>2 DEF z
<1>11. Useful(W.client, x, wr[s]) => Useful(W.client, z, wr[s])
  <2> SUFFICES ASSUME Useful(W.client, x, wr[s]) PROVE Useful(W.client, z, wr[s])
    OBVIOUS
  <2>1. Useful(W.client, y, wr[s])
    BY <1>3, UsefulSame
  <2> QED
    BY <1>1, <1>3, <1>4, <2>1, UsefulWritten DEF z
<1>12. Sound(W, cy, cr, cn, cs, cg, tk, wr)
  BY <1>1, <1>2, <1>5, <1>6, <1>7, <1>8, <1>9, <1>10, <1>11, ServerChange
<1>13. \A d \in Contexts : cy[d].encrypted = cx[d].encrypted
  BY <1>2, <1>6
<1> QED
  BY <1>1, <1>2, <1>12, <1>13 DEF cy

(* A write is over and the next one begins.                                *)
Delivers(wr, wy, c, x) == /\ x.flying # <<>>
                          /\ wy = [wr EXCEPT ![c] = Append(@, x.flying[1])]

Finished(x, y) == /\ SameButTasks(x, y) /\ y.queue = x.queue
                  /\ y.flying = <<>> /\ y.writing = FALSE

LEMMA DoneKeeps ==
  ASSUME NEW W, NEW cx, NEW cr, NEW cn, NEW cs, NEW cg, NEW tk, NEW wr,
         Sound(W, cx, cr, cn, cs, cg, tk, wr),
         NEW c \in Contexts, NEW y \in Fields, Finished(cx[c], y),
         NEW wy, Delivers(wr, wy, c, cx[c])
  PROVE  /\ Sound(W, DoWrite(With(cx, c, y), c), cr, cn, cs, cg, tk, wy)
         /\ DoWrite(With(cx, c, y), c)[Client].socket = cx[Client].socket
         /\ \A d \in Contexts :
              DoWrite(With(cx, c, y), c)[d].encrypted = cx[d].encrypted
<1> DEFINE cy == DoWrite(With(cx, c, y), c)
           x  == cx[c]
           e  == x.flying[1]
           z  == Written(y)
<1>0. /\ SameButTasks(cx[c], y) /\ y.flying = <<>> /\ ~y.writing
      /\ y.queue = cx[c].queue /\ cx[c].flying # <<>>
  BY DEF Finished, Delivers
<1>1. /\ cx \in [Contexts -> Fields] /\ wr \in [Contexts -> Seq(Writes)]
      /\ tk \in [Contexts -> Nat] /\ x \in Fields /\ Writer(x)
      /\ wr[c] \in Seq(Writes) /\ tk[Client] \in Nat /\ tk[1] \in Nat
      /\ Unstarted(x, wr[c], tk[c])
  BY SomeServer DEF Sound, ContextTypes, Born
<1>2. e \in Writes /\ x.flying = <<e>> /\ x.writing
  BY <1>0, <1>1, FlyingOne
<1> USE <1>0
<1>3. /\ wy \in [Contexts -> Seq(Writes)]
      /\ wy[c] = Append(wr[c], e) /\ wy[c] \in Seq(Writes)
      /\ \A d \in Contexts \ {c} : wy[d] = wr[d]
  <2>1. Append(wr[c], e) \in Seq(Writes)
    BY <1>1, <1>2
  <2> QED
    BY <1>1, <2>1 DEF Delivers
<1>4. Writer(y)
  <2>1. Len(y.flying) <= 1
    OBVIOUS
  <2> QED
    BY <2>1 DEF Writer
<1>5. z \in Fields /\ Writer(z) /\ SameButTasks(y, z)
  BY <1>4, WrittenIs
<1>6. /\ cy \in [Contexts -> Fields] /\ cy[c] = z
      /\ \A d \in Contexts \ {c} : cy[d] = cx[d]
  <2> DEFINE cz == With(cx, c, y)
  <2>1. /\ cz \in [Contexts -> Fields] /\ cz[c] = y
        /\ \A d \in Contexts \ {c} : cz[d] = cx[d]
    <3>1. cx \in [Contexts -> Fields]
      BY <1>1
    <3> QED
      BY <3>1, WithIs
  <2> HIDE DEF cz
  <2>2. /\ DoWrite(cz, c) \in [Contexts -> Fields]
        /\ DoWrite(cz, c)[c] = Written(cz[c])
        /\ \A d \in Contexts \ {c} : DoWrite(cz, c)[d] = cz[d]
    BY <1>4, <2>1, DoWriteIs
  <2>3. cy = DoWrite(cz, c)
    BY DEF cz
  <2> HIDE DEF cy
  <2> QED
    BY <2>1, <2>2, <2>3
<1> HIDE DEF cy, e, z
<1>7. /\ z.socket = x.socket /\ z.paired = x.paired /\ z.encrypted = x.encrypted
      /\ z.reader = x.reader /\ y.socket = x.socket /\ y.paired = x.paired
      /\ x.socket # "none"
  BY <1>1, <1>5 DEF SameButTasks, Unstarted
<1>8. CASE c \in Servers
  <2>1. /\ c <= cr
        /\ cx[Client].socket = "open" => x.paired = Client
    BY <1>7, <1>8, StartedIsBorn
  <2>2. Unstarted(z, wy[c], tk[c])
    BY <1>7 DEF Unstarted
  <2>3. ToServer(W.client, tk[Client], z, wy[c])
    <3>1. ToServer(W.client, tk[Client], x, wr[c])
      BY <1>8 DEF Sound
    <3>2. ToServer(W.client, tk[Client], y, Append(wr[c], e))
      BY <1>1, <1>2, <1>7, <3>1, ToServerDone
    <3> QED
      BY <1>1, <1>3, <1>4, <3>2, ToServerWritten DEF z
  <2>4. ~Untold(x, wr[c])
    BY <1>2 DEF Untold
  <2>5. Useful(W.client, x, wr[c]) => Useful(W.client, z, wy[c])
    <3> SUFFICES ASSUME Useful(W.client, x, wr[c]) PROVE Useful(W.client, z, wy[c])
      OBVIOUS
    <3>1. Useful(W.client, y, Append(wr[c], e))
      BY <1>1, <1>2, <1>7, UsefulDone
    <3> QED
      BY <1>3, <1>4, <3>1, UsefulWritten DEF z
  <2>6. Sound(W, cy, cr, cn, cs, cg, tk, wy)
    <3>1. /\ Writer(cy[c]) /\ Unstarted(cy[c], wy[c], tk[c])
          /\ cy[c].paired = cx[c].paired
          /\ ToServer(W.client, tk[Client], cy[c], wy[c])
      BY <1>5, <1>6, <1>7, <2>2, <2>3
    <3>2. cx[c].paired = None /\ Untold(cx[c], wr[c]) => Untold(cy[c], wy[c])
      BY <2>4
    <3>3. cx[Client].socket = "open" =>
            IF cx[c].paired = Client THEN Useful(W.client, cx[c], wr[c])
                                            => Useful(W.client, cy[c], wy[c])
            ELSE cy[c].socket = "none"
      BY <1>6, <2>1, <2>5
    <3>4. /\ wy \in [Contexts -> Seq(Writes)] /\ \A d \in Contexts \ {c} : wy[d] = wr[d]
          /\ cy \in [Contexts -> Fields] /\ \A d \in Contexts \ {c} : cy[d] = cx[d]
          /\ c <= cr /\ Sound(W, cx, cr, cn, cs, cg, tk, wr)
      BY <1>3, <1>6, <2>1
    <3> HIDE DEF x
    <3> QED
      BY ONLY <1>8, <3>1, <3>2, <3>3, <3>4, ServerChange
  <2>7. cy[Client] = cx[Client] /\ \A d \in Contexts : cy[d].encrypted = cx[d].encrypted
    BY <1>6, <1>7, <1>8, SomeServer
  <2> QED
    BY <2>6, <2>7 DEF cy
<1>9. CASE c = Client
  <2>1. /\ \A s \in Servers : cy[s] = cx[s] /\ wy[s] = wr[s]
        /\ z.reader # "idle"
    <3>1. x.reader = "idle" => x.socket = "none"
      BY <1>9, BlankIs DEF Sound, Born
    <3> QED
      BY <1>3, <1>6, <1>7, <1>9, <3>1, SomeServer
  <2>2. x.socket = "open" => Echo(W.server, tk[1], y, wy[c])
    <3> SUFFICES ASSUME x.socket = "open" PROVE Echo(W.server, tk[1], y, wy[c])
      OBVIOUS
    <3>1. Echo(W.server, tk[1], x, wr[c])
      BY <1>9 DEF Sound, Open
    <3> QED
      BY <1>1, <1>2, <1>3, <3>1, EchoDone
  <2>3. x.socket = "open" => Echo(W.server, tk[1], z, wy[c])
    BY <1>3, <1>4, <1>7, <2>2, EchoWritten DEF z
  <2>4. ToClient(W.server, tk[1], z, wy[c])
    <3>1. ToClient(W.server, tk[1], x, wr[c])
      BY <1>9 DEF Sound
    <3>2. ToClient(W.server, tk[1], y, wy[c])
      BY <1>1, <1>2, <1>3, <3>1, ToClientDone
    <3> QED
      BY <1>1, <1>3, <1>4, <1>7, <2>2, <3>2, ToClientWritten DEF z
  <2>5. Sound(W, cy, cr, cn, cs, cg, tk, wy)
    <3>1. /\ Writer(cy[Client]) /\ cy[Client].paired = cx[Client].paired
          /\ cx[Client].socket # "none" /\ cy[Client].socket = cx[Client].socket
          /\ cy[Client].reader # "idle"
          /\ cx[Client].encrypted => cy[Client].encrypted
          /\ ToClient(W.server, tk[1], cy[Client], wy[Client])
      BY <1>5, <1>6, <1>7, <1>9, <2>1, <2>4
    <3>2. cx[Client].socket = "open" => Echo(W.server, tk[1], cy[Client], wy[Client])
      BY <1>6, <1>9, <2>3
    <3>3. /\ wy \in [Contexts -> Seq(Writes)] /\ \A s \in Servers : wy[s] = wr[s]
          /\ cy \in [Contexts -> Fields] /\ \A s \in Servers : cy[s] = cx[s]
          /\ Sound(W, cx, cr, cn, cs, cg, tk, wr)
      BY <1>3, <1>6, <2>1
    <3> HIDE DEF x
    <3> QED
      BY ONLY <3>1, <3>2, <3>3, ClientChange
  <2>6. /\ cy[Client].socket = cx[Client].socket
        /\ \A d \in Contexts : cy[d].encrypted = cx[d].encrypted
    BY <1>6, <1>7, <1>9
  <2> QED
    BY <2>5, <2>6 DEF cy
<1> QED
  BY <1>8, <1>9, SomeServer

(* A write fails and the context is stopped.                               *)
LEMMA FailedKeeps ==
  ASSUME NEW W, NEW cx, NEW cr, NEW cn, NEW cs, NEW cg, NEW tk, NEW wr,
         Sound(W, cx, cr, cn, cs, cg, tk, wr),
         NEW c \in Contexts, cx[c].flying # <<>>,
         NEW y \in Fields, SameButTasks(cx[c], y),
         y.flying = <<>>, y.writing, y.queue = cx[c].queue
  PROVE  /\ Sound(W, Stop(With(cx, c, y), c), cr, cn, cs, cg, tk, wr)
         /\ Stop(With(cx, c, y), c)[Client].socket = "closed"
         /\ \A d \in Contexts :
              Stop(With(cx, c, y), c)[d].encrypted = cx[d].encrypted
<1> DEFINE cy == Stop(With(cx, c, y), c)
           cz == Stop(cx, c)
           x  == cx[c]
           e  == x.flying[1]
<1>1. /\ cx \in [Contexts -> Fields] /\ wr \in [Contexts -> Seq(Writes)]
      /\ tk \in [Contexts -> Nat] /\ x \in Fields /\ Writer(x)
      /\ wr[c] \in Seq(Writes) /\ tk[Client] \in Nat /\ tk[1] \in Nat
      /\ Unstarted(x, wr[c], tk[c])
  BY SomeServer DEF Sound, ContextTypes, Born
<1>2. e \in Writes /\ x.flying = <<e>> /\ x.writing /\ x.socket # "none"
  BY <1>1, FlyingOne DEF Unstarted
<1>3. cx[Client].socket # "none"
  BY <1>2, StartedIsBorn, SomeServer
<1>4. /\ Sound(W, cz, cr, cn, cs, cg, tk, wr)
      /\ cz[Client].socket = "closed"
      /\ \A d \in Contexts : cz[d].encrypted = cx[d].encrypted
      /\ cz \in [Contexts -> Fields]
      /\ \A d \in Contexts : cz[d] = IF d \in {c, x.paired} THEN Closed(cx[d]) ELSE cx[d]
  <2>1. /\ cz \in [Contexts -> Fields]
        /\ \A d \in Contexts : cz[d] = IF d \in {c, x.paired} THEN Closed(cx[d]) ELSE cx[d]
    <3>1. cx \in [Contexts -> Fields]
      BY <1>1
    <3> QED
      BY <3>1, StopIs
  <2>2. /\ Sound(W, cz, cr, cn, cs, cg, tk, wr)
        /\ cz[Client].socket = "closed"
        /\ \A d \in Contexts : cz[d].encrypted = cx[d].encrypted
    <3>1. cx[c].socket # "none"
      BY <1>2
    <3> QED
      BY <1>3, <3>1, StopKeeps
  <2> QED
    BY <2>1, <2>2
<1>5. /\ cy \in [Contexts -> Fields]
      /\ cy[c] = Closed(y)
      /\ \A d \in Contexts \ {c} : cy[d] = cz[d]
  <2> DEFINE cw == With(cx, c, y)
  <2>1. /\ cw \in [Contexts -> Fields] /\ cw[c] = y
        /\ \A d \in Contexts \ {c} : cw[d] = cx[d]
    BY ONLY <1>1, c \in Contexts, y \in Fields DEF cw, With
  <2> HIDE DEF cw
  <2>2. /\ Stop(cw, c) \in [Contexts -> Fields]
        /\ \A d \in Contexts :
             Stop(cw, c)[d] = IF d \in {c, cw[c].paired} THEN Closed(cw[d]) ELSE cw[d]
    BY <2>1, StopIs
  <2>3. cy = Stop(cw, c) /\ y.paired = x.paired
    BY DEF cw, SameButTasks
  <2> HIDE DEF cy, cz
  <2> QED
    BY <1>4, <2>1, <2>2, <2>3
<1>6. /\ Closed(y) \in Fields /\ SameTasks(y, Closed(y))
      /\ Closed(y).paired = None /\ Closed(y).socket = Closed(x).socket
      /\ Closed(y).socket # "none" /\ Closed(y).reader = x.reader
      /\ Closed(y).encrypted = x.encrypted
      /\ Closed(x).paired = None /\ SameTasks(x, Closed(x))
      /\ Closed(x).encrypted = x.encrypted
  <2>1. /\ Closed(x).paired = None /\ SameTasks(x, Closed(x))
        /\ Closed(x).encrypted = x.encrypted /\ Closed(x).socket = "closed"
    BY <1>1, <1>2, ClosedIs
  <2>2. y.socket = x.socket /\ y.reader = x.reader /\ y.encrypted = x.encrypted
    BY DEF SameButTasks
  <2>3. /\ Closed(y) \in Fields /\ SameTasks(y, Closed(y))
        /\ Closed(y).paired = None /\ Closed(y).reader = y.reader
        /\ Closed(y).encrypted = y.encrypted
        /\ Closed(y).socket = IF y.socket = "none" THEN "none" ELSE "closed"
    BY ClosedIs
  <2> QED
    BY <1>2, <2>1, <2>2, <2>3
<1> HIDE DEF cy, cz, e
<1>7. cz[c] = Closed(x)
  BY <1>4
<1>8. Writer(Closed(y))
  <2>1. Closed(y).flying = <<>> /\ Len(<<>>) <= 1
    BY <1>6 DEF SameTasks
  <2> QED
    BY <2>1 DEF Writer
<1>9. CASE c \in Servers
  <2>1. c <= cr
    BY <1>2, <1>9, StartedIsBorn
  <2>2. Unstarted(Closed(y), wr[c], tk[c])
    BY <1>6 DEF Unstarted
  <2>3. ToServer(W.client, tk[Client], Closed(y), wr[c])
    <3>1. ToServer(W.client, tk[Client], x, wr[c])
      BY <1>9 DEF Sound
    <3>2. ToServer(W.client, tk[Client], y, wr[c])
      BY <1>1, <1>2, <3>1, ToServerFailed
    <3> QED
      BY <1>6, <3>2, SomeServer, ToServerSame
  <2>4. ~Untold(cz[c], wr[c])
    BY <1>2, <1>6, <1>7 DEF Untold, SameTasks
  <2>5. Sound(W, cy, cr, cn, cs, cg, tk, wr)
    <3>1. /\ Writer(cy[c]) /\ Unstarted(cy[c], wr[c], tk[c])
          /\ cy[c].paired = cz[c].paired
          /\ ToServer(W.client, tk[Client], cy[c], wr[c])
      BY <1>5, <1>6, <1>7, <1>8, <2>2, <2>3
    <3>2. cz[c].paired = None /\ Untold(cz[c], wr[c]) => Untold(cy[c], wr[c])
      BY <2>4
    <3>3. cz[Client].socket # "open"
      BY <1>4
    <3>4. Sound(W, cz, cr, cn, cs, cg, tk, wr) /\ wr \in [Contexts -> Seq(Writes)]
      BY <1>1, <1>4
    <3> HIDE DEF x
    <3> QED
      BY <1>5, <1>9, <2>1, <3>1, <3>2, <3>3, <3>4, ServerChange
  <2>6. /\ cy[Client].socket = "closed"
        /\ \A d \in Contexts : cy[d].encrypted = cx[d].encrypted
    BY <1>4, <1>5, <1>6, <1>9, SomeServer
  <2> QED
    BY <2>5, <2>6 DEF cy
<1>10. CASE c = Client
  <2>1. /\ \A s \in Servers : cy[s] = cz[s]
        /\ Closed(y).reader # "idle"
    <3>1. x.reader = "idle" => x.socket = "none"
      BY <1>10, BlankIs DEF Sound, Born
    <3> QED
      BY <1>2, <1>5, <1>6, <1>10, <3>1, SomeServer
  <2>2. ToClient(W.server, tk[1], Closed(y), wr[c])
    <3>1. ToClient(W.server, tk[1], x, wr[c])
      BY <1>10 DEF Sound
    <3>2. ToClient(W.server, tk[1], y, wr[c])
      BY <1>1, <1>2, <3>1, ToClientFailed
    <3> QED
      BY <1>6, <3>2 DEF ToClient, Sent, SameTasks
  <2>3. cy[Client].socket = "closed" /\ cz[Client].encrypted = cy[Client].encrypted
    BY <1>4, <1>5, <1>6, <1>7, <1>10
  <2>4. Sound(W, cy, cr, cn, cs, cg, tk, wr)
    <3>1. /\ Writer(cy[Client]) /\ cy[Client].paired = cz[Client].paired
          /\ cz[Client].socket # "none" /\ cy[Client].socket = cz[Client].socket
          /\ cy[Client].reader # "idle"
          /\ cz[Client].encrypted => cy[Client].encrypted
          /\ ToClient(W.server, tk[1], cy[Client], wr[Client])
      BY <1>4, <1>5, <1>6, <1>7, <1>8, <1>10, <2>1, <2>2, <2>3
    <3>2. cz[Client].socket # "open"
      BY <1>4
    <3>3. Sound(W, cz, cr, cn, cs, cg, tk, wr) /\ wr \in [Contexts -> Seq(Writes)]
      BY <1>1, <1>4
    <3> HIDE DEF x
    <3> QED
      BY <1>5, <2>1, <3>1, <3>2, <3>3, ClientChange
  <2>5. \A d \in Contexts : cy[d].encrypted = cx[d].encrypted
    BY <1>4, <1>5, <1>6, <1>10
  <2> QED
    BY <2>3, <2>4, <2>5 DEF cy
<1> QED
  BY <1>9, <1>10, SomeServer

-----------------------------------------------------------------------------
(* The handlers of the records.                                            *)

(* The client context gets a server context if it has none.                *)
FreshPair(cx, cr, cz, cd) == cd = cr + 1 /\ cz = Pair(cx, Client, cd)

LEMMA PairedKeeps ==
  ASSUME NEW W, NEW cx, NEW cr, NEW cn, NEW cs, NEW cg, NEW tk, NEW wr,
         Sound(W, cx, cr, cn, cs, cg, tk, wr),
         cx[Client].paired = None, cx[Client].socket # "none",
         NEW cy, NEW s \in Servers, FreshPair(cx, cr, cy, s)
  PROVE  /\ Sound(W, cy, s, cn, cs, cg, tk, wr)
         /\ cy[Client].paired = s
         /\ cy[Client].socket = cx[Client].socket
         /\ \A d \in Contexts : cy[d].encrypted = cx[d].encrypted
<1> DEFINE x  == cx[Client]
           y  == [x EXCEPT !.paired = s]
<1>1. /\ cx \in [Contexts -> Fields] /\ x \in Fields /\ cr \in 0..MaxServers
      /\ Client \in Contexts /\ 1 \in Servers /\ Servers \subseteq Contexts
      /\ Client \notin Servers /\ None \notin Contexts
      /\ Contexts = Servers \cup {Client}
  BY SomeServer DEF Sound, ContextTypes
<1>2. /\ y \in Fields /\ SameTasks(x, y) /\ y.paired = s /\ y.socket = x.socket
      /\ y.reader = x.reader /\ y.encrypted = x.encrypted
  BY <1>1 DEF Fields, SameTasks
<1> HIDE DEF y
<1>3. /\ cy \in [Contexts -> Fields] /\ cy[Client] = y
      /\ \A d \in Contexts \ {Client} : cy[d] = cx[d]
  <2>1. cy = With(cx, Client, y)
    BY DEF FreshPair, Pair, y
  <2>2. cx \in [Contexts -> Fields] /\ Client \in Contexts /\ y \in Fields
    BY <1>1, <1>2
  <2> HIDE DEF x
  <2> QED
    BY ONLY <2>1, <2>2, WithIs
<1>4. \A d \in Servers : cy[d] = cx[d]
  BY <1>1, <1>3
<1>5. cr \in Nat /\ s \in Nat /\ s \in 0..MaxServers /\ s > cr /\ s \in 1..s
  BY <1>1 DEF FreshPair, Servers
<1>6. ContextTypes(W, cy, s, cs, cg, tk, wr)
  BY <1>3, <1>5 DEF Sound, ContextTypes
<1>7. cx[s] = Blank /\ wr[s] = <<>>
  BY <1>5 DEF Sound, Born
<1>8. Born(cy, s, cn, cs, cg, tk, wr)
  <2>1. \A d \in Servers : d > s => d > cr
    BY <1>5 DEF Servers
  <2>2. \A d \in Contexts : Unstarted(cy[d], wr[d], tk[d])
    <3>1. Unstarted(y, wr[Client], tk[Client])
      BY <1>2 DEF Unstarted
    <3> QED
      BY <1>3, <3>1 DEF Sound, Born
  <2>3. y.reader # "idle"
    <3>1. x.reader = "idle" => x.socket = "none"
      BY BlankIs DEF Sound, Born
    <3> QED
      BY <1>2, <3>1
  <2> QED
    BY <1>2, <1>3, <1>4, <2>1, <2>2, <2>3 DEF Sound, Born
<1>9. \A d \in Contexts : Writer(cy[d])
  <2>1. Writer(y)
    BY <1>1, <1>2 DEF Sound, Writer, SameTasks
  <2> QED
    BY <1>3, <2>1 DEF Sound
<1>10. \A d \in Servers : cx[d].paired = None
  BY <1>1 DEF Sound, Links
<1>11. Untold(cx[s], wr[s])
  BY <1>7, BlankIs DEF Untold
<1>12. Links(cy, s, wr)
  BY <1>1, <1>2, <1>3, <1>4, <1>5, <1>10, <1>11 DEF Links
<1>13. \A d \in Servers : ToServer(W.client, tk[Client], cy[d], wr[d])
  BY <1>4 DEF Sound
<1>14. ToClient(W.server, tk[1], y, wr[Client])
  BY <1>2 DEF Sound, ToClient, Sent, SameTasks
<1>15. Open(W, cy, s, cn, cs, cg, tk, wr)
  <2> SUFFICES ASSUME x.socket = "open" PROVE Open(W, cy, s, cn, cs, cg, tk, wr)
    BY <1>2, <1>3 DEF Open
  <2>1. /\ None = IF cr = 0 THEN None ELSE 1
        /\ Echo(W.server, tk[1], x, wr[Client])
        /\ cx[1].paired = None => Useless(W.client, cx, cn, cs, cg, tk)
    BY DEF Sound, Open
  <2>2. s = 1
    <3>1. 1 # None
      BY <1>1
    <3>2. cr = 0
      BY <2>1, <3>1
    <3> QED
      BY <3>2 DEF FreshPair
  <2>3. Echo(W.server, tk[1], y, wr[Client])
    BY <1>2, <2>1, EchoSame
  <2>4. Useless(W.client, cy, cn, cs, cg, tk) /\ cy[1].paired = None
    BY <1>1, <1>2, <1>3, <1>4, <1>10, <2>1 DEF Useless
  <2>5. None # Client
    BY <1>1
  <2> QED
    BY <1>2, <1>3, <2>2, <2>3, <2>4, <2>5 DEF Open
<1>16. Sound(W, cy, s, cn, cs, cg, tk, wr)
  BY <1>3, <1>6, <1>8, <1>9, <1>12, <1>13, <1>14, <1>15 DEF Sound
<1> QED
  BY <1>2, <1>3, <1>16

(* The handler of c gets a record.                                         *)
Advances(tk, tl, c) == /\ tl \in [Contexts -> Nat]
                       /\ tl[c] = tk[c] + 1
                       /\ \A d \in Contexts : d # c => tl[d] = tk[d]

(* The client's next record goes nowhere.                                  *)
LEMMA SkipKeeps ==
  ASSUME NEW W, NEW cx, NEW cr, NEW cn, NEW cs, NEW cg, NEW tk, NEW wr,
         Sound(W, cx, cr, cn, cs, cg, tk, wr),
         cx[Client].socket # "none",
         NEW tl, Advances(tk, tl, Client),
         Skipped(W.client, tl[Client]) \/ \A s \in Servers : cx[s].paired # Client,
         cx[Client].socket = "open" => \/ cx[Client].encrypted
                                       \/ ~Hello(W.client, tl[Client])
  PROVE  Sound(W, cx, cr, cn, cs, cg, tl, wr)
<1> DEFINE n == tk[Client]
<1>1. /\ tk \in [Contexts -> Nat] /\ wr \in [Contexts -> Seq(Writes)]
      /\ cx \in [Contexts -> Fields] /\ n \in Nat
      /\ Client \in Contexts /\ 1 \in Servers /\ Servers \subseteq Contexts
      /\ Client \notin Servers
  BY SomeServer DEF Sound, ContextTypes
<1>2. /\ tl \in [Contexts -> Nat] /\ tl[Client] = n + 1
      /\ \A s \in Servers : tl[s] = tk[s]
      /\ tl[1] = tk[1]
      /\ \A d \in Contexts : d = Client \/ tl[d] = tk[d]
  BY <1>1 DEF Advances
<1>3. ContextTypes(W, cx, cr, cs, cg, tl, wr)
  BY <1>2 DEF Sound, ContextTypes
<1>4. Born(cx, cr, cn, cs, cg, tl, wr)
  <2>1. \A d \in Contexts : d = Client \/ tl[d] = tk[d]
    BY <1>2
  <2>2. \A d \in Contexts : Unstarted(cx[d], wr[d], tl[d])
    BY <2>1 DEF Sound, Born, Unstarted
  <2> QED
    BY <1>2, <2>2 DEF Sound, Born
<1>5. \A s \in Servers : ToServer(W.client, tl[Client], cx[s], wr[s])
  <2> SUFFICES ASSUME NEW s \in Servers
               PROVE  ToServer(W.client, n + 1, cx[s], wr[s])
    BY <1>2
  <2>1. cx[s] \in Fields /\ wr[s] \in Seq(Writes)
    BY <1>1
  <2>2. ToServer(W.client, n, cx[s], wr[s])
    BY DEF Sound
  <2>3. cx[s].paired # Client \/ Skipped(W.client, n + 1)
    BY <1>2
  <2> QED
    BY ONLY <1>1, <2>1, <2>2, <2>3, ToServerSkipped
<1>6. Open(W, cx, cr, cn, cs, cg, tl, wr)
  <2> SUFFICES ASSUME cx[Client].socket = "open" PROVE Open(W, cx, cr, cn, cs, cg, tl, wr)
    BY DEF Open
  <2>1. \A i \in 1..(n + 1) : i \in 1..n \/ i = n + 1
    BY <1>1
  <2>2. Useless(W.client, cx, cn, cs, cg, tk) => Useless(W.client, cx, cn, cs, cg, tl)
    BY <1>2, <2>1 DEF Useless
  <2> QED
    BY <1>2, <2>2 DEF Sound, Open
<1>7. ToClient(W.server, tl[1], cx[Client], wr[Client])
  BY <1>2 DEF Sound
<1> QED
  BY <1>3, <1>4, <1>5, <1>6, <1>7 DEF Sound

(* It goes to the server context the client context holds.                 *)
LEMMA ForwardKeeps ==
  ASSUME NEW W, NEW cx, NEW cr, NEW cn, NEW cs, NEW cg, NEW tk, NEW wr,
         Sound(W, cx, cr, cn, cs, cg, tk, wr),
         cx[Client].socket # "none",
         NEW tl, Advances(tk, tl, Client),
         NEW s \in Servers, cx[Client].paired = s, ~Bad(W.client, tl[Client]),
         \/ cx[s].paired = Client
         \/ Hello(W.client, tl[Client]) /\ ~cx[Client].encrypted,
         NEW y \in Fields, Writer(y), SameTasks(cx[s], y), y.paired = Client,
         y.socket = cx[s].socket, y.reader = cx[s].reader, y.running = cx[s].running,
         NEW cy \in [Contexts -> Fields], cy[s] = Written(Appended(y, tl[Client])),
         \A d \in Contexts \ {s} : cy[d] = cx[d]
  PROVE  Sound(W, cy, cr, cn, cs, cg, tl, wr)
<1> DEFINE n == tk[Client]
           x == cx[s]
           a == Appended(y, n + 1)
           z == Written(a)
           w == wr[s]
<1>1. /\ tk \in [Contexts -> Nat] /\ wr \in [Contexts -> Seq(Writes)]
      /\ cx \in [Contexts -> Fields] /\ n \in Nat
      /\ Client \in Contexts /\ 1 \in Servers /\ s \in Contexts /\ s # Client
      /\ Client \notin Servers /\ None \notin Contexts /\ Servers \subseteq Contexts
      /\ x \in Fields /\ w \in Seq(Writes) /\ cr \in Nat /\ s \in Nat \ {0}
  <2>1. /\ tk \in [Contexts -> Nat] /\ wr \in [Contexts -> Seq(Writes)]
        /\ cx \in [Contexts -> Fields] /\ cr \in 0..MaxServers
    BY DEF Sound, ContextTypes
  <2>2. s \in Nat \ {0} /\ cr \in Nat
    BY <2>1 DEF Servers
  <2> QED
    BY <2>1, <2>2, SomeServer
<1>2. /\ tl \in [Contexts -> Nat] /\ tl[Client] = n + 1
      /\ \A d \in Servers : tl[d] = tk[d]
      /\ tl[1] = tk[1]
      /\ ~Bad(W.client, n + 1) /\ cy[s] = z
      /\ \/ x.paired = Client
         \/ Hello(W.client, n + 1) /\ ~cx[Client].encrypted
  BY <1>1 DEF Advances
<1>3. s <= cr
  BY <1>1 DEF Sound, Links
<1>4. x.paired = Client \/ Untold(x, w)
  BY <1>1, <1>2 DEF Sound, Links
<1>5. \A d \in Servers : d # s => cx[d].paired # Client
  BY DEF Sound, Links
<1>6. /\ a \in Fields /\ Writer(a) /\ SameButTasks(y, a)
      /\ a.queue = Append(x.queue, n + 1) /\ a.writing = x.writing
      /\ a.flying = x.flying
  <2>1. n + 1 \in Nat
    BY <1>1
  <2>2. /\ a \in Fields /\ Writer(a) /\ SameButTasks(y, a)
        /\ a.queue = Append(y.queue, n + 1) /\ a.writing = y.writing
        /\ a.flying = y.flying
    BY <2>1, AppendedIs
  <2> HIDE DEF a
  <2> QED
    BY <2>2 DEF SameTasks
<1> HIDE DEF a
<1>7. z \in Fields /\ Writer(z) /\ SameButTasks(a, z)
  BY <1>6, WrittenIs
<1> HIDE DEF z
<1>8. /\ z.paired = Client /\ z.socket = x.socket /\ z.reader = x.reader
      /\ z.running = x.running /\ a.socket = x.socket /\ a.paired = Client
  BY <1>6, <1>7 DEF SameButTasks
<1>9. cy[s] = z /\ cy[Client] = cx[Client] /\ \A d \in Servers : d # s => cy[d] = cx[d]
  BY <1>1, <1>2
<1>10. ContextTypes(W, cy, cr, cs, cg, tl, wr)
  BY <1>2 DEF Sound, ContextTypes
<1>11. Born(cy, cr, cn, cs, cg, tl, wr)
  <2>1. \A d \in Servers : d > cr => d # s
    BY <1>1, <1>3
  <2>2. Unstarted(z, w, tl[s])
    <3>1. x.socket = "none" => x.flying = <<>> /\ ~x.writing
      BY <1>1 DEF Sound, Born, Unstarted
    <3>2. a.socket = "none" => z = a
      BY DEF z, Written
    <3>3. Unstarted(x, w, tk[s])
      BY <1>1 DEF Sound, Born
    <3>4. tl[s] = tk[s]
      BY <1>1, <1>2
    <3> QED
      BY <1>6, <1>8, <3>1, <3>2, <3>3, <3>4 DEF Unstarted
  <2>3. Unstarted(cx[Client], wr[Client], tl[Client])
    BY DEF Unstarted
  <2>4. \A d \in Contexts : Unstarted(cy[d], wr[d], tl[d])
    <3>1. \A d \in Servers : d # s => Unstarted(cy[d], wr[d], tl[d])
      BY <1>1, <1>2, <1>9 DEF Sound, Born
    <3> QED
      BY <1>9, <2>2, <2>3, <3>1, SomeServer
  <2> QED
    BY <1>2, <1>9, <2>1, <2>4 DEF Sound, Born
<1>12. \A d \in Contexts : Writer(cy[d])
  BY <1>7, <1>9 DEF Sound
<1>13. Links(cy, cr, wr)
  <2>1. Links(cx, cr, wr)
    BY DEF Sound
  <2>2. cy[s].paired = Client /\ cy[Client].paired = s /\ Client # None
    BY <1>1, <1>8, <1>9
  <2>3. cy[Client].paired \in 1..cr
    BY <1>1, <1>3, <2>2
  <2>4. \A d \in Servers : d # s => cy[d].paired = cx[d].paired /\ cx[d].paired = None
    BY <1>5, <1>9, <2>1 DEF Links
  <2> QED
    BY <2>2, <2>3, <2>4 DEF Links
<1>14. \A d \in Servers : ToServer(W.client, tl[Client], cy[d], wr[d])
  <2>1. ASSUME NEW d \in Servers, d # s
        PROVE  ToServer(W.client, n + 1, cx[d], wr[d])
    <3>1. ToServer(W.client, n, cx[d], wr[d]) /\ cx[d] \in Fields /\ wr[d] \in Seq(Writes)
      BY <1>1 DEF Sound
    <3>2. cx[d].paired # Client
      BY <1>5, <2>1
    <3> QED
      BY ONLY <1>1, <3>1, <3>2, ToServerSkipped
  <2>2. ToServer(W.client, n, x, w)
    BY DEF Sound
  <2>3. x.paired = Client \/ (Untold(x, w) /\ Hello(W.client, n + 1))
    BY <1>2, <1>4
  <2>4. ToServer(W.client, n + 1, a, w)
    <3> HIDE DEF x, w
    <3> QED
      BY <1>1, <1>2, <1>6, <2>2, <2>3, ToServerAppended
  <2>5. ToServer(W.client, n + 1, z, w)
    <3>1. n + 1 \in Nat
      BY <1>1
    <3> HIDE DEF w
    <3> QED
      BY <1>1, <1>6, <2>4, <3>1, ToServerWritten DEF z
  <2> QED
    BY <1>2, <1>9, <2>1, <2>5
<1>15. ToClient(W.server, tl[1], cy[Client], wr[Client])
  BY <1>2, <1>9 DEF Sound
<1>16. Open(W, cy, cr, cn, cs, cg, tl, wr)
  <2> SUFFICES ASSUME cx[Client].socket = "open" PROVE Open(W, cy, cr, cn, cs, cg, tl, wr)
    BY <1>9 DEF Open
  <2>1. s = 1
    <3>1. cr <= 1
      BY DEF Sound, Open
    <3> QED
      BY <1>1, <1>3, <3>1
  <2>2. Useful(W.client, a, w)
    <3>1. CASE x.paired = Client
      <4>1. Useful(W.client, x, w)
        BY <2>1, <3>1 DEF Sound, Open
      <4>2. Output(x, w) # <<>>
        <5>1. ToServer(W.client, n, x, w) /\ ~Jammed(x)
          BY <4>1 DEF Sound, Useful
        <5> QED
          BY <3>1, <5>1 DEF ToServer, Complete
      <4>3. n + 1 \in Nat
        BY <1>1
      <4> HIDE DEF x, w
      <4> QED
        BY <1>1, <1>6, <1>8, <4>1, <4>2, <4>3, UsefulAppended
    <3>2. CASE x.paired # Client
      <4>1. x.paired = None
        BY <3>2 DEF Sound, Links
      <4>2. Useless(W.client, cx, cn, cs, cg, tk)
        BY <2>1, <4>1 DEF Sound, Open
      <4>3. \A i \in 1..n : ~Hello(W.client, i)
        BY <1>2, <3>2, <4>2 DEF Useless
      <4>4. Untold(x, w) /\ x.socket # "closed"
        BY <1>4, <2>1, <3>2, <4>2 DEF Useless
      <4> HIDE DEF x, w
      <4> QED
        BY <1>1, <1>6, <1>8, <4>3, <4>4, UsefulFirst
    <3> QED
      BY <3>1, <3>2
  <2>3. Useful(W.client, z, w)
    <3> HIDE DEF w
    <3> QED
      BY <1>1, <1>6, <2>2, UsefulWritten DEF z
  <2>4. cy[1].paired = Client /\ Useful(W.client, cy[1], wr[1]) /\ Client # None
    BY <1>1, <1>8, <1>9, <2>1, <2>3
  <2> QED
    BY <1>2, <1>9, <2>4 DEF Sound, Open
<1> QED
  BY <1>10, <1>11, <1>12, <1>13, <1>14, <1>15, <1>16 DEF Sound

(* A record of a server goes nowhere: the client is gone.                  *)
LEMMA TakenKeeps ==
  ASSUME NEW W, NEW cx, NEW cr, NEW cn, NEW cs, NEW cg, NEW tk, NEW wr,
         Sound(W, cx, cr, cn, cs, cg, tk, wr),
         NEW s \in Servers, cx[s].socket # "none", cx[Client].socket # "open",
         NEW tl, Advances(tk, tl, s)
  PROVE  Sound(W, cx, cr, cn, cs, cg, tl, wr)
<1>1. tk \in [Contexts -> Nat] /\ cr \in Nat
  BY DEF Sound, ContextTypes
<1>2. Client \in Contexts /\ s \in Contexts /\ s # Client /\ 1 \in Contexts
  BY SomeServer
<1>3. /\ tl \in [Contexts -> Nat] /\ tl[Client] = tk[Client]
      /\ \A d \in Contexts : d # s => tl[d] = tk[d]
      /\ tk[1] \in Nat /\ tl[1] \in Nat /\ tk[1] <= tl[1]
  BY <1>1, <1>2 DEF Advances
<1>4. ContextTypes(W, cx, cr, cs, cg, tl, wr)
  BY <1>3 DEF Sound, ContextTypes
<1>5. Born(cx, cr, cn, cs, cg, tl, wr)
  <2>1. \A d \in Servers : d > cr => d # s
    <3>1. s <= cr
      BY StartedIsBorn
    <3>2. s \in Nat
      BY DEF Servers
    <3> QED
      BY <1>1, <3>1, <3>2
  <2>2. \A d \in Contexts : Unstarted(cx[d], wr[d], tl[d])
    <3>1. Unstarted(cx[s], wr[s], tl[s])
      BY DEF Unstarted
    <3>2. \A d \in Contexts : d # s => Unstarted(cx[d], wr[d], tl[d])
      BY <1>3 DEF Sound, Born
    <3> QED
      BY <3>1, <3>2
  <2>3. \A d \in Servers : d \in Contexts
    BY SomeServer
  <2> QED
    BY <1>3, <2>1, <2>2, <2>3 DEF Sound, Born
<1>6. \A d \in Servers : ToServer(W.client, tl[Client], cx[d], wr[d])
  BY <1>3 DEF Sound
<1>7. ToClient(W.server, tl[1], cx[Client], wr[Client])
  <2>1. ToClient(W.server, tk[1], cx[Client], wr[Client])
    BY DEF Sound
  <2>2. DOMAIN Sent(cx[Client], wr[Client]) \subseteq Nat
    <3>1. cx[Client] \in Fields /\ wr[Client] \in Seq(Writes)
      BY <1>2 DEF Sound, ContextTypes
    <3>2. Sent(cx[Client], wr[Client]) \in Seq(Nat)
      BY <3>1, OutputOf
    <3> QED
      BY <3>2, LenProperties
  <2>3. SameTasks(cx[Client], cx[Client])
    BY DEF SameTasks
  <2> QED
    BY <1>3, <2>1, <2>2, <2>3, ToClientSame
<1>8. Open(W, cx, cr, cn, cs, cg, tl, wr)
  BY DEF Open
<1> QED
  BY <1>4, <1>5, <1>6, <1>7, <1>8 DEF Sound

(* It goes to the client context.                                          *)
LEMMA BackwardKeeps ==
  ASSUME NEW W, NEW cx, NEW cr, NEW cn, NEW cs, NEW cg, NEW tk, NEW wr,
         Sound(W, cx, cr, cn, cs, cg, tk, wr),
         NEW s \in Servers, cx[s].socket # "none", cx[s].paired = Client,
         NEW tl, Advances(tk, tl, s),
         ~Bad(W.server, tl[s]),
         NEW cy \in [Contexts -> Fields],
         cy[Client] = Written(Appended(cx[Client], tl[s])),
         \A d \in Contexts \ {Client} : cy[d] = cx[d]
  PROVE  /\ Sound(W, cy, cr, cn, cs, cg, tl, wr)
         /\ cy[Client].socket = cx[Client].socket
         /\ cy[Client].encrypted = cx[Client].encrypted
<1> DEFINE x == cx[Client]
           i == tl[s]
           a == Appended(x, i)
           z == Written(a)
           w == wr[Client]
<1>1. /\ tk \in [Contexts -> Nat] /\ cr \in Nat /\ cx \in [Contexts -> Fields]
      /\ wr \in [Contexts -> Seq(Writes)]
  BY DEF Sound, ContextTypes
<1>2. /\ Client \in Contexts /\ s \in Contexts /\ s # Client /\ 1 \in Contexts
      /\ Contexts = Servers \cup {Client} /\ 1 \in Servers /\ Client \notin Servers
      /\ None # Client
  BY SomeServer
<1>3. /\ tl \in [Contexts -> Nat] /\ tl[Client] = tk[Client]
      /\ \A d \in Contexts : d # s => tl[d] = tk[d]
      /\ tk[1] \in Nat /\ tl[1] \in Nat /\ i \in Nat /\ i = tk[s] + 1
  BY <1>1, <1>2 DEF Advances
<1>4. x \in Fields /\ w \in Seq(Writes) /\ Writer(x) /\ ToClient(W.server, tk[1], x, w)
  BY <1>1, <1>2 DEF Sound
<1>5. /\ a \in Fields /\ Writer(a) /\ SameButTasks(x, a)
      /\ a.queue = Append(x.queue, i) /\ a.writing = x.writing /\ a.flying = x.flying
  <2> HIDE DEF x, i
  <2> QED
    BY <1>3, <1>4, AppendedIs
<1>6. z \in Fields /\ Writer(z) /\ SameButTasks(a, z)
  <2> HIDE DEF a
  <2> QED
    BY <1>5, WrittenIs
<1>7. cy[Client] = z
  OBVIOUS
<1> HIDE DEF a, z
<1>8. /\ z.socket = x.socket /\ z.encrypted = x.encrypted /\ z.paired = x.paired
      /\ z.reader = x.reader /\ a.socket = x.socket
  BY <1>5, <1>6 DEF SameButTasks
<1>9. x.socket # "none" /\ x.reader # "idle"
  <2>1. x.socket # "none"
    BY StartedIsBorn
  <2>2. x.reader = "idle" => x.socket = "none"
    BY BlankIs DEF Sound, Born
  <2> QED
    BY <2>1, <2>2
<1>10. CASE x.socket # "open"
  <2>1. Sound(W, cx, cr, cn, cs, cg, tl, wr)
    BY <1>10, TakenKeeps
  <2>2. ToClient(W.server, tl[1], z, w)
    <3>1. ToClient(W.server, tl[1], x, w)
      BY <2>1 DEF Sound
    <3>2. ToClient(W.server, tl[1], a, w)
      BY <1>5, <3>1 DEF ToClient, Sent
    <3>3. a.socket # "open"
      BY <1>8, <1>10
    <3> HIDE DEF w
    <3> QED
      BY <1>3, <1>4, <1>5, <3>2, <3>3, ToClientWritten DEF z
  <2>3. Sound(W, cy, cr, cn, cs, cg, tl, wr)
    <3>1. /\ Writer(cy[Client]) /\ cy[Client].paired = cx[Client].paired
          /\ cx[Client].socket # "none" /\ cy[Client].socket = cx[Client].socket
          /\ cy[Client].reader # "idle"
          /\ cx[Client].encrypted => cy[Client].encrypted
          /\ ToClient(W.server, tl[1], cy[Client], wr[Client])
      BY <1>6, <1>7, <1>8, <1>9, <2>2
    <3>2. \A d \in Servers : cy[d] = cx[d]
      BY <1>2
    <3>3. cx[Client].socket # "open"
      BY <1>10
    <3> HIDE DEF x, w
    <3> QED
      BY ONLY <1>1, <2>1, <3>1, <3>2, <3>3, ClientChange,
              cy \in [Contexts -> Fields]
  <2> QED
    BY <1>7, <1>8, <2>3
<1>11. CASE x.socket = "open"
  <2>1. s = 1
    BY <1>11, StartedIsBorn
  <2>2. Echo(W.server, i - 1, x, w) /\ i - 1 \in Nat
    <3>1. Echo(W.server, tk[1], x, w) /\ tk[1] \in Nat /\ tk[1] = i - 1
      BY <1>3, <1>11, <2>1 DEF Sound, Open
    <3> QED
      BY <3>1
  <2>3. Echo(W.server, i, a, w)
    <3>1. i - 1 + 1 = i
      BY <1>3
    <3>2. ~Bad(W.server, i - 1 + 1) /\ a.queue = Append(x.queue, i - 1 + 1)
      BY <1>5, <3>1
    <3>3. Echo(W.server, i - 1 + 1, a, w)
      <4> HIDE DEF x, w, i
      <4> QED
        BY <1>4, <1>5, <2>2, <3>2, EchoAppended
    <3> QED
      BY <3>1, <3>3
  <2>4. Echo(W.server, i, z, w)
    <3>1. a.socket # "closed"
      BY <1>8, <1>11
    <3> HIDE DEF w, i
    <3> QED
      BY <1>4, <1>5, <2>3, <3>1, EchoWritten DEF z
  <2>5. ToClient(W.server, i, z, w)
    <3> HIDE DEF w, i
    <3> QED
      BY <1>3, <1>4, <1>6, <2>4, EchoWhole
  <2>6. ContextTypes(W, cy, cr, cs, cg, tl, wr)
    BY <1>3 DEF Sound, ContextTypes
  <2>7. \A d \in Servers : cy[d] = cx[d]
    BY <1>2
  <2>8. Born(cy, cr, cn, cs, cg, tl, wr)
    <3>1. \A d \in Servers : d > cr => d # s
      <4>1. s <= cr
        BY StartedIsBorn
      <4>2. s \in Nat
        BY DEF Servers
      <4> QED
        BY <1>1, <4>1, <4>2
    <3>2. \A d \in Contexts : Unstarted(cy[d], wr[d], tl[d])
      <4>1. Unstarted(cy[s], wr[s], tl[s]) /\ Unstarted(cy[Client], wr[Client], tl[Client])
        BY <1>7, <1>8, <1>9, <2>7 DEF Unstarted
      <4>2. \A d \in Servers : d # s => Unstarted(cy[d], wr[d], tl[d])
        BY <1>2, <1>3, <2>7 DEF Sound, Born
      <4> QED
        BY <1>2, <4>1, <4>2
    <3> QED
      BY <1>2, <1>3, <1>7, <1>8, <1>9, <2>7, <3>1, <3>2 DEF Sound, Born
  <2>9. \A d \in Contexts : Writer(cy[d])
    BY <1>2, <1>6, <1>7, <2>7 DEF Sound
  <2>10. Links(cy, cr, wr)
    BY <1>7, <1>8, <2>7 DEF Sound, Links
  <2>11. \A d \in Servers : ToServer(W.client, tl[Client], cy[d], wr[d])
    BY <1>3, <2>7 DEF Sound
  <2>12. Open(W, cy, cr, cn, cs, cg, tl, wr)
    <3>1. cy[1].paired = Client /\ cy[1] = cx[1]
      BY <1>2, <2>1, <2>7
    <3>2. Echo(W.server, tl[1], cy[Client], wr[Client])
      BY <1>3, <1>7, <2>1, <2>4
    <3>3. cy[Client].paired = cx[Client].paired
      BY <1>7, <1>8
    <3> QED
      BY <1>2, <1>11, <3>1, <3>2, <3>3 DEF Sound, Open
  <2>13. ToClient(W.server, tl[1], cy[Client], wr[Client])
    BY <1>3, <1>7, <2>1, <2>5
  <2>14. Sound(W, cy, cr, cn, cs, cg, tl, wr)
    BY <2>6, <2>8, <2>9, <2>10, <2>11, <2>12, <2>13 DEF Sound
  <2> QED
    BY <1>7, <1>8, <2>14
<1> QED
  BY <1>10, <1>11

(* The client context is started by the acceptor.                          *)
LEMMA AcceptKeeps ==
  ASSUME NEW W, NEW cx, NEW cr, NEW cn, NEW cs, NEW cg, NEW tk, NEW wr,
         Sound(W, cx, cr, cn, cs, cg, tk, wr), cx[Client].reader = "idle"
  PROVE  /\ Sound(W, Start(cx, Client, NoHost), cr, cn, cs, cg, tk, wr)
         /\ Start(cx, Client, NoHost)[Client].socket = "open"
         /\ \A d \in Contexts : Start(cx, Client, NoHost)[d].encrypted = cx[d].encrypted
<1> DEFINE cy == Start(cx, Client, NoHost)
           y  == Opened(Blank, NoHost)
<1>1. /\ tk \in [Contexts -> Nat] /\ cx \in [Contexts -> Fields]
      /\ wr \in [Contexts -> Seq(Writes)]
  BY DEF Sound, ContextTypes
<1>2. /\ Client \in Contexts /\ Contexts = Servers \cup {Client} /\ 1 \in Servers
      /\ Client \notin Servers /\ None # Client
  BY SomeServer
<1>3. cx[Client] = Blank
  BY DEF Sound, Born
<1>4. /\ cr = 0 /\ ~cn /\ \A h \in Hosts : cs[h] = 0 /\ cg[h] = 0
      /\ wr[Client] = <<>> /\ tk[Client] = 0
  BY <1>2, <1>3, BlankIs DEF Sound, Born, Unstarted
<1>5. \A s \in Servers : cx[s] = Blank /\ wr[s] = <<>> /\ tk[s] = 0
  <2>1. \A s \in Servers : s > cr
    BY <1>4 DEF Servers
  <2> QED
    BY <2>1 DEF Sound, Born
<1>6. /\ y \in Fields /\ y.queue = <<>> /\ y.flying = <<>> /\ ~y.writing
      /\ y.socket = "open" /\ y.paired = None /\ y.reader # "idle"
      /\ y.encrypted = Blank.encrypted
  <2>1. NoHost \in Hosts \cup {NoHost} /\ Blank \in Fields
    BY BlankIs
  <2>2. /\ y \in Fields /\ SameTasks(Blank, y)
        /\ y.socket = "open" /\ y.running
        /\ y.paired = Blank.paired /\ y.encrypted = Blank.encrypted
        /\ y.reader = IF Blank.running THEN Blank.reader ELSE "reading"
    BY <2>1, OpenedIs
  <2> HIDE DEF y
  <2> QED
    BY <2>2, BlankIs DEF SameTasks
<1> HIDE DEF y
<1>7. Written(y) = y
  BY <1>6 DEF Written
<1>8. /\ cy \in [Contexts -> Fields] /\ cy[Client] = y
      /\ \A s \in Servers : cy[s] = cx[s]
  <2>1. Writer(cx[Client]) /\ NoHost \in Hosts \cup {NoHost}
    BY <1>3, BlankIs
  <2>2. /\ cy \in [Contexts -> Fields]
        /\ cy[Client] = Written(Opened(cx[Client], NoHost))
        /\ \A e \in Contexts \ {Client} : cy[e] = cx[e]
    <3>1. cx \in [Contexts -> Fields]
      BY <1>1
    <3> QED
      BY <1>2, <2>1, <3>1, StartIs
  <2> HIDE DEF cy
  <2> QED
    BY <1>2, <1>3, <1>7, <2>2 DEF y
<1> HIDE DEF cy
<1>9. Writer(y)
  <2>1. Len(<<>>) <= 1
    OBVIOUS
  <2> QED
    BY <1>6, <2>1 DEF Writer
<1>10. ContextTypes(W, cy, cr, cs, cg, tk, wr)
  BY <1>8 DEF Sound, ContextTypes
<1>11. Born(cy, cr, cn, cs, cg, tk, wr)
  <2>1. Unstarted(y, wr[Client], tk[Client])
    BY <1>6 DEF Unstarted
  <2> QED
    BY <1>2, <1>6, <1>8, <2>1 DEF Sound, Born
<1>12. \A d \in Contexts : Writer(cy[d])
  BY <1>2, <1>8, <1>9 DEF Sound
<1>13. \A s \in Servers : cy[s].paired = None
  BY <1>5, <1>8, BlankIs
<1>14. Links(cy, cr, wr)
  <2>1. \A s \in Servers : s # None
    BY SomeServer
  <2> QED
    BY <1>2, <1>6, <1>8, <1>13, <2>1 DEF Links
<1>15. \A s \in Servers : ToServer(W.client, tk[Client], cy[s], wr[s])
  BY <1>8 DEF Sound
<1>16. Untold(y, wr[Client])
  BY <1>4, <1>6 DEF Untold
<1>17. Output(y, wr[Client]) = <<>> /\ Sent(y, wr[Client]) = <<>>
  BY <1>16, NothingOut
<1>18. ToClient(W.server, tk[1], y, wr[Client])
  BY <1>17 DEF ToClient
<1>19. Echo(W.server, tk[1], y, wr[Client])
  <2>1. tk[1] = 0 /\ Len(<<>>) = 0
    BY <1>2, <1>5
  <2>2. ~Jammed(y)
    BY <1>6 DEF Jammed
  <2> QED
    BY <1>17, <2>1, <2>2 DEF Echo
<1>20. Useless(W.client, cy, cn, cs, cg, tk)
  <2>1. \A i \in 1..tk[Client] : FALSE
    BY <1>4
  <2>2. cy[1].socket = "none"
    BY <1>2, <1>5, <1>8, BlankIs
  <2> QED
    BY <1>4, <2>1, <2>2 DEF Useless
<1>21. Open(W, cy, cr, cn, cs, cg, tk, wr)
  BY <1>2, <1>4, <1>6, <1>8, <1>13, <1>19, <1>20 DEF Open
<1>22. Sound(W, cy, cr, cn, cs, cg, tk, wr)
  BY <1>8, <1>10, <1>11, <1>12, <1>14, <1>15, <1>18, <1>21 DEF Sound
<1>23. \A d \in Contexts : cy[d].encrypted = cx[d].encrypted
  BY <1>2, <1>3, <1>6, <1>8
<1> QED
  BY <1>6, <1>8, <1>22, <1>23 DEF cy

-----------------------------------------------------------------------------
(* The steps.                                                              *)

LEMMA EncryptsMore ==
  ASSUME NEW sc, NEW t \in Nat, NEW u \in Nat, NEW x, NEW y, Encrypts(sc, t, x), t <= u,
         y.encrypted => x.encrypted \/ (u > 0 /\ sc[u].kind = "ccs")
  PROVE  Encrypts(sc, u, y)
<1>1. CASE y.encrypted /\ x.encrypted
  <2>1. PICK i \in 1..t : sc[i].kind = "ccs"
    BY <1>1 DEF Encrypts
  <2>2. i \in 1..u
    OBVIOUS
  <2> QED
    BY <2>1, <2>2 DEF Encrypts
<1>2. CASE y.encrypted /\ u > 0 /\ sc[u].kind = "ccs"
  <2>1. u \in 1..u
    BY <1>2
  <2> QED
    BY <1>2, <2>1 DEF Encrypts
<1>3. CASE ~y.encrypted
  BY <1>3 DEF Encrypts
<1> QED
  BY <1>1, <1>2, <1>3

LEMMA StepKeeps ==
  ASSUME IInv, world' = world,
         Sound(world, ctx', created', connected', checks', connecting', taken', wrote'),
         hostName' \in Hosts \cup {NoHost}, connected' \in BOOLEAN,
         read' \in [Contexts -> Nat], crashed' \in BOOLEAN,
         Counters(world, created', read', taken'),
         \A c \in Contexts : Encrypts(Script(c), taken'[c], ctx'[c]),
         crashed' => ctx'[Client].socket = "closed"
  PROVE  IInv'
<1>1. TypeOK'
  BY DEF Sound, ContextTypes, TypeOK, Writes
<1>2. \A c \in Contexts : Encrypts(Script(c), taken[c], ctx[c])'
  BY DEF Script, clientScript, serverScript
<1>3. CrashOnlyAfterStop'
  BY DEF CrashOnlyAfterStop
<1> QED
  BY <1>1, <1>2, <1>3 DEF IInv

(* A completion handler.                                                   *)
LEMMA CompletionKeeps ==
  ASSUME IInv, Completion, hostName' = hostName, connected' \in BOOLEAN,
         Sound(world, ctx', created, connected', checks', connecting', taken, wrote'),
         \A c \in Contexts : ctx'[c].encrypted = ctx[c].encrypted,
         read' \in [Contexts -> Nat], Counters(world, created, read', taken),
         crashed' \in BOOLEAN, crashed' => ctx'[Client].socket = "closed"
  PROVE  IInv'
<1>1. /\ world' = world /\ created' = created /\ taken' = taken
      /\ hostName' \in Hosts \cup {NoHost}
  BY DEF IInv, TypeOK, Completion
<1>2. \A c \in Contexts : Encrypts(Script(c), taken[c], ctx'[c])
  BY DEF IInv, Encrypts
<1> QED
  BY <1>1, <1>2, StepKeeps

(* A handler of a record of c.                                             *)
LEMMA GivenIs ==
  ASSUME IInv, NEW c \in Contexts, NEW kinds, Given(c, kinds)
  PROVE  /\ ~crashed /\ world' = world /\ read' = read /\ wrote' = wrote
         /\ taken \in [Contexts -> Nat] /\ taken[c] \in Nat
         /\ Advances(taken, taken', c)
         /\ taken'[c] = taken[c] + 1 /\ taken' \in [Contexts -> Nat]
         /\ \A d \in Contexts : d # c => taken'[d] = taken[d]
         /\ taken'[c] <= read[c] /\ taken'[c] \in 1..Len(Script(c))
         /\ Script(c)[taken'[c]].kind \in kinds
         /\ ctx[c].reader = "loop" /\ ctx[c].socket # "none"
         /\ Sound(world, ctx, created, connected, checks, connecting, taken, wrote)
<1>1. /\ ~crashed /\ world' = world /\ read' = read /\ wrote' = wrote
      /\ taken \in [Contexts -> Nat] /\ read \in [Contexts -> Nat]
      /\ taken' = [taken EXCEPT ![c] = taken[c] + 1]
      /\ taken[c] < read[c] /\ Script(c)[taken[c] + 1].kind \in kinds
      /\ ctx[c].reader = "loop"
  BY DEF IInv, TypeOK, Given
<1>2. Sound(world, ctx, created, connected, checks, connecting, taken, wrote)
  BY DEF IInv
<1>3. Unstarted(ctx[c], wrote[c], taken[c])
  BY <1>2 DEF Sound, Born
<1>4. ctx[c].socket # "none"
  BY <1>1, <1>3 DEF Unstarted
<1>5. read[c] <= Len(Script(c))
  BY DEF IInv, Counters, Script, clientScript, serverScript
<1>6. Len(Script(c)) \in Nat
  <2>1. world \in World
    BY ContextAssumption DEF IInv, TypeOK
  <2>2. Script(c) \in Seq(Record)
    BY <2>1 DEF World, Script, clientScript, serverScript
  <2> QED
    BY <2>2, LenProperties
<1>7. taken[c] \in Nat /\ read[c] \in Nat
  BY <1>1
<1>8. /\ taken'[c] = taken[c] + 1 /\ taken' \in [Contexts -> Nat]
      /\ \A d \in Contexts : d # c => taken'[d] = taken[d]
  BY <1>1, <1>7
<1>9. taken'[c] <= read[c] /\ taken'[c] \in 1..Len(Script(c))
  BY <1>1, <1>5, <1>6, <1>7, <1>8
<1>10. Advances(taken, taken', c)
  BY <1>8 DEF Advances
<1> QED
  BY <1>1, <1>2, <1>4, <1>7, <1>8, <1>9, <1>10

LEMMA GivenKeeps ==
  ASSUME IInv, NEW c \in Contexts, NEW kinds, Given(c, kinds),
         Sound(world, ctx', created', connected', checks', connecting', taken', wrote),
         hostName' \in Hosts \cup {NoHost}, connected' \in BOOLEAN,
         created' <= taken'[Client],
         \A d \in Contexts : ctx'[d].encrypted =>
           \/ ctx[d].encrypted
           \/ d = c /\ Script(c)[taken'[c]].kind = "ccs",
         crashed' \in BOOLEAN, crashed' => ctx'[Client].socket = "closed"
  PROVE  IInv'
<1>1. /\ world' = world /\ read' = read /\ wrote' = wrote
      /\ taken \in [Contexts -> Nat] /\ taken'[c] = taken[c] + 1
      /\ taken' \in [Contexts -> Nat]
      /\ \A d \in Contexts : d # c => taken'[d] = taken[d]
      /\ taken'[c] <= read[c]
  BY GivenIs
<1>2. Counters(world, created', read', taken')
  BY <1>1 DEF IInv, Counters
<1>3. \A d \in Contexts : Encrypts(Script(d), taken'[d], ctx'[d])
  <2> SUFFICES ASSUME NEW d \in Contexts PROVE Encrypts(Script(d), taken'[d], ctx'[d])
    OBVIOUS
  <2>1. Encrypts(Script(d), taken[d], ctx[d])
    BY DEF IInv
  <2>2. taken[d] \in Nat /\ taken'[d] \in Nat /\ taken[d] <= taken'[d]
    BY <1>1
  <2>3. ctx'[d].encrypted =>
          ctx[d].encrypted \/ (taken'[d] > 0 /\ Script(d)[taken'[d]].kind = "ccs")
    BY <1>1
  <2> QED
    BY <2>1, <2>2, <2>3, EncryptsMore
<1>4. read' \in [Contexts -> Nat]
  BY <1>1 DEF IInv, TypeOK
<1> QED
  BY <1>1, <1>2, <1>3, <1>4, StepKeeps

LEMMA NotRefused ==
  ASSUME IInv, NEW c \in Contexts, NEW i, i = taken[c] + 1,
         ctx[c].encrypted \/ Script(c)[i].kind # "bad",
         Script(c)[i].kind # "empty"
  PROVE  ~Bad(Script(c), i)
<1>1. CASE ctx[c].encrypted
  <2>1. PICK j \in 1..taken[c] : Script(c)[j].kind = "ccs"
    BY <1>1 DEF IInv, Encrypts
  <2>2. j \in 1..(i - 1)
    BY DEF IInv, TypeOK
  <2> QED
    BY <2>1, <2>2 DEF Bad, Skipped
<1>2. CASE Script(c)[i].kind # "bad"
  BY <1>2 DEF Bad, Skipped
<1> QED
  BY <1>1, <1>2

(* HandleUserMessage, so far as it makes sure of a server context.         *)
LEMMA PairedStep ==
  ASSUME IInv, NEW kinds, Given(Client, kinds), Create
  PROVE  /\ Paired[Client].paired \in Servers
         /\ Sound(world, Paired, created', connected, checks, connecting, taken, wrote)
         /\ Paired[Client].socket = ctx[Client].socket
         /\ \A d \in Contexts : Paired[d].encrypted = ctx[d].encrypted
         /\ Paired \in [Contexts -> Fields]
         /\ created' <= taken'[Client]
<1>1. Client \in Contexts /\ None \notin Contexts
  BY SomeServer
<1>2. /\ ctx[Client].socket # "none" /\ taken[Client] \in Nat
      /\ taken'[Client] = taken[Client] + 1
      /\ taken'[Client] \in 1..Len(Script(Client))
      /\ Sound(world, ctx, created, connected, checks, connecting, taken, wrote)
  BY <1>1, GivenIs
<1>3. created \in Nat /\ created <= taken[Client] /\ created \in 0..MaxServers
  BY DEF IInv, TypeOK, Counters
<1>4. CASE ctx[Client].paired = None
  <2>1. Fresh \in Servers
    <3>1. /\ Len(world.client) <= MaxServers /\ MaxServers \in Nat
          /\ Len(world.client) \in Nat
      <4>1. world \in Worlds /\ world \in World
        BY ContextAssumption DEF IInv, TypeOK
      <4>2. world.client \in Seq(Record)
        BY <4>1 DEF World
      <4> QED
        BY <4>1, <4>2, ContextAssumption, LenProperties
    <3>2. taken[Client] + 1 <= Len(world.client)
      BY <1>2, <3>1 DEF Script, clientScript
    <3> QED
      BY <1>2, <1>3, <3>1, <3>2 DEF Fresh, Servers
  <2>2. Paired = Pair(ctx, Client, Fresh) /\ created' = Fresh
    BY <1>4 DEF Paired, Create
  <2>3. /\ Sound(world, Paired, Fresh, connected, checks, connecting, taken, wrote)
        /\ Paired[Client].paired = Fresh
        /\ Paired[Client].socket = ctx[Client].socket
        /\ \A d \in Contexts : Paired[d].encrypted = ctx[d].encrypted
    <3>1. FreshPair(ctx, created, Paired, Fresh)
      BY <2>2 DEF Fresh, FreshPair
    <3> QED
      BY <1>2, <1>4, <2>1, <3>1, PairedKeeps
  <2>4. Paired \in [Contexts -> Fields]
    BY <2>3 DEF Sound, ContextTypes
  <2> QED
    BY <1>2, <1>3, <2>1, <2>2, <2>3, <2>4 DEF Fresh
<1>5. CASE ctx[Client].paired # None
  <2>1. Paired = ctx /\ created' = created
    BY <1>5 DEF Paired, Create
  <2>2. ctx[Client].paired \in 1..created
    BY <1>2, <1>5 DEF Sound, Links
  <2>3. ctx[Client].paired \in Servers
    <3>1. MaxServers \in Nat
      BY ContextAssumption
    <3> QED
      BY <1>3, <2>2, <3>1 DEF Servers
  <2> QED
    BY <1>2, <1>3, <2>1, <2>3 DEF IInv, TypeOK
<1> QED
  BY <1>4, <1>5

(* A record that is not looked at, or is no hello.                         *)
LEMMA DataKeeps ==
  ASSUME NEW W, NEW cx, NEW cr, NEW cn, NEW cs, NEW cg, NEW tk, NEW wr,
         Sound(W, cx, cr, cn, cs, cg, tk, wr),
         cx[Client].socket # "none",
         NEW tl, Advances(tk, tl, Client),
         NEW s \in Servers, cx[Client].paired = s, ~Bad(W.client, tl[Client]),
         cx[Client].encrypted \/ ~Hello(W.client, tl[Client])
  PROVE  /\ Sound(W, Queue(cx, s, Client, tl[Client]), cr, cn, cs, cg, tl, wr)
         /\ \A d \in Contexts :
              Queue(cx, s, Client, tl[Client])[d].encrypted = cx[d].encrypted
<1> DEFINE cy == Queue(cx, s, Client, tl[Client])
           y  == cx[s]
<1>1. /\ cx \in [Contexts -> Fields] /\ s \in Contexts /\ y \in Fields /\ Writer(y)
      /\ tl[Client] \in Nat
  BY SomeServer DEF Sound, ContextTypes, Advances
<1>2. CASE y.paired = Client
  <2>1. /\ cy \in [Contexts -> Fields]
        /\ cy[s] = Written(Appended(y, tl[Client]))
        /\ \A d \in Contexts \ {s} : cy[d] = cx[d]
    <3>1. cx \in [Contexts -> Fields] /\ s \in Contexts /\ Writer(cx[s]) /\ tl[Client] \in Nat
      BY <1>1
    <3> QED
      BY <1>2, <3>1, QueueIs
  <2>2. cy[s].encrypted = y.encrypted
    <3>1. Appended(y, tl[Client]) \in Fields /\ Writer(Appended(y, tl[Client]))
          /\ SameButTasks(y, Appended(y, tl[Client]))
      BY <1>1, AppendedIs
    <3>2. SameButTasks(Appended(y, tl[Client]), Written(Appended(y, tl[Client])))
      BY <3>1, WrittenIs
    <3> QED
      BY <2>1, <3>1, <3>2 DEF SameButTasks
  <2> HIDE DEF cy
  <2>3. SameTasks(cx[s], y)
    BY DEF SameTasks
  <2>4. Sound(W, cy, cr, cn, cs, cg, tl, wr)
    <3>1. /\ cx[s].paired = Client /\ cx[s] \in Fields /\ Writer(cx[s])
          /\ SameTasks(cx[s], cx[s]) /\ cy[s] = Written(Appended(cx[s], tl[Client]))
          /\ cy \in [Contexts -> Fields] /\ \A d \in Contexts \ {s} : cy[d] = cx[d]
      BY <1>1, <1>2, <2>1, <2>3
    <3> HIDE DEF y
    <3> QED
      BY <3>1, ForwardKeeps
  <2> QED
    BY <2>1, <2>2, <2>4 DEF cy
<1>3. CASE y.paired # Client
  <2>1. cy = cx
    BY <1>3 DEF Queue
  <2>2. \A d \in Servers : cx[d].paired # Client
    BY <1>3 DEF Sound, Links
  <2>3. Sound(W, cx, cr, cn, cs, cg, tl, wr)
    BY <2>2, SkipKeeps
  <2> QED
    BY <2>1, <2>3
<1> QED
  BY <1>2, <1>3

LEMMA UserEmptyKeeps == ASSUME IInv, UserEmpty PROVE IInv'
<1>1. /\ Given(Client, {"empty"}) /\ ctx' = ctx /\ created' = created
      /\ hostName' = hostName /\ connected' = connected /\ checks' = checks
      /\ connecting' = connecting /\ crashed' = crashed
  BY DEF UserEmpty, requests
<1>2. Client \in Contexts
  BY SomeServer
<1>3. /\ Sound(world, ctx, created, connected, checks, connecting, taken, wrote)
      /\ Advances(taken, taken', Client)
      /\ taken[Client] \in Nat /\ taken'[Client] = taken[Client] + 1
      /\ Script(Client)[taken'[Client]].kind \in {"empty"}
      /\ ctx[Client].socket # "none" /\ ~crashed
  BY <1>1, <1>2, GivenIs
<1>4. Skipped(world.client, taken'[Client]) /\ ~Hello(world.client, taken'[Client])
  BY <1>3 DEF Skipped, Hello, Script, clientScript
<1>5. Sound(world, ctx, created, connected, checks, connecting, taken', wrote)
  BY <1>3, <1>4, SkipKeeps
<1>6. created <= taken'[Client] /\ hostName \in Hosts \cup {NoHost} /\ connected \in BOOLEAN
  BY <1>3 DEF IInv, TypeOK, Counters
<1>7. /\ Sound(world, ctx', created', connected', checks', connecting', taken', wrote)
      /\ hostName' \in Hosts \cup {NoHost} /\ connected' \in BOOLEAN
      /\ created' <= taken'[Client] /\ crashed' = FALSE
      /\ \A d \in Contexts : ctx'[d].encrypted => ctx[d].encrypted
  BY <1>1, <1>3, <1>5, <1>6
<1> QED
  BY <1>1, <1>2, <1>7, GivenKeeps

LEMMA UserEncryptedKeeps == ASSUME IInv, UserEncrypted PROVE IInv'
<1> DEFINE kinds == {"hello", "ccs", "data", "bad"}
           n == taken[Client]
           s == Paired[Client].paired
<1>1. /\ Given(Client, kinds) /\ ctx[Client].encrypted
      /\ ctx' = Queue(Paired, s, Client, taken'[Client]) /\ Create
      /\ hostName' = hostName /\ connected' = connected /\ checks' = checks
      /\ connecting' = connecting /\ crashed' = crashed
  BY DEF UserEncrypted, requests
<1>2. Client \in Contexts
  BY SomeServer
<1> HIDE DEF kinds
<1>3. /\ Advances(taken, taken', Client)
      /\ n \in Nat /\ taken'[Client] = n + 1
      /\ ctx[Client].socket # "none" /\ ~crashed
      /\ Script(Client)[taken'[Client]].kind # "empty"
  BY <1>1, <1>2, GivenIs DEF kinds
<1>4. /\ s \in Servers
      /\ Sound(world, Paired, created', connected, checks, connecting, taken, wrote)
      /\ Paired[Client].socket = ctx[Client].socket
      /\ \A d \in Contexts : Paired[d].encrypted = ctx[d].encrypted
      /\ created' <= taken'[Client]
  BY <1>1, PairedStep
<1>5. ~Bad(world.client, taken'[Client])
  <2>1. ~Bad(Script(Client), taken'[Client])
    BY <1>1, <1>2, <1>3, NotRefused
  <2> QED
    BY <2>1 DEF Script, clientScript
<1>6. /\ Sound(world, ctx', created', connected, checks, connecting, taken', wrote)
      /\ \A d \in Contexts : ctx'[d].encrypted = Paired[d].encrypted
  <2>1. Paired[Client].encrypted /\ Paired[Client].socket # "none"
    BY <1>1, <1>2, <1>3, <1>4
  <2>2. ctx' = Queue(Paired, s, Client, taken'[Client])
    BY <1>1, <1>3
  <2>3. /\ Sound(world, Queue(Paired, s, Client, taken'[Client]), created', connected, checks,
                 connecting, taken', wrote)
        /\ \A d \in Contexts :
             Queue(Paired, s, Client, taken'[Client])[d].encrypted = Paired[d].encrypted
    BY ONLY <1>3, <1>4, <1>5, <2>1, DataKeeps
  <2> QED
    BY <2>2, <2>3
<1>7. hostName \in Hosts \cup {NoHost} /\ connected \in BOOLEAN
  BY DEF IInv, TypeOK
<1>8. /\ Sound(world, ctx', created', connected', checks', connecting', taken', wrote)
      /\ hostName' \in Hosts \cup {NoHost} /\ connected' \in BOOLEAN
      /\ created' <= taken'[Client] /\ crashed' = FALSE
      /\ \A d \in Contexts : ctx'[d].encrypted => ctx[d].encrypted
  BY <1>1, <1>3, <1>4, <1>6, <1>7
<1> QED
  BY <1>1, <1>2, <1>8, GivenKeeps

LEMMA UserBadKeeps == ASSUME IInv, UserBad PROVE IInv'
<1> DEFINE n == taken[Client]
<1>1. /\ Given(Client, {"bad"})
      /\ ctx' = Stop(Paired, Client) /\ Create
      /\ hostName' = hostName /\ connected' = connected /\ checks' = checks
      /\ connecting' = connecting /\ crashed' = crashed
  BY DEF UserBad, requests
<1>2. Client \in Contexts
  BY SomeServer
<1>3. /\ Advances(taken, taken', Client)
      /\ n \in Nat /\ taken'[Client] = n + 1
      /\ ctx[Client].socket # "none" /\ ~crashed
  BY <1>1, <1>2, GivenIs
<1>4. /\ Sound(world, Paired, created', connected, checks, connecting, taken, wrote)
      /\ Paired[Client].socket = ctx[Client].socket
      /\ \A d \in Contexts : Paired[d].encrypted = ctx[d].encrypted
      /\ created' <= taken'[Client] /\ Paired \in [Contexts -> Fields]
  BY <1>1, PairedStep
<1>5. /\ Sound(world, ctx', created', connected, checks, connecting, taken, wrote)
      /\ ctx'[Client].socket = "closed"
      /\ \A d \in Contexts : ctx'[d].encrypted = Paired[d].encrypted
  BY <1>1, <1>2, <1>3, <1>4, StopKeeps
<1>6. ctx'[Client].paired = None
  <2>1. Stop(Paired, Client)[Client] = Closed(Paired[Client])
    BY <1>2, <1>4, StopIs
  <2>2. Closed(Paired[Client]).paired = None
    BY <1>2, <1>4, ClosedIs
  <2> QED
    BY <1>1, <2>1, <2>2
<1>7. Sound(world, ctx', created', connected, checks, connecting, taken', wrote)
  <2>1. \A d \in Servers : ctx'[d].paired # Client
    <3>1. \A d \in Servers : d # None
      BY SomeServer
    <3> QED
      BY <1>5, <1>6, <3>1 DEF Sound, Links
  <2>2. ctx'[Client].socket # "none" /\ ctx'[Client].socket # "open"
    BY <1>5
  <2> QED
    BY <1>3, <1>5, <2>1, <2>2, SkipKeeps
<1>8. hostName \in Hosts \cup {NoHost} /\ connected \in BOOLEAN
  BY DEF IInv, TypeOK
<1>9. /\ Sound(world, ctx', created', connected', checks', connecting', taken', wrote)
      /\ hostName' \in Hosts \cup {NoHost} /\ connected' \in BOOLEAN
      /\ created' <= taken'[Client] /\ crashed' = FALSE
      /\ \A d \in Contexts : ctx'[d].encrypted => ctx[d].encrypted
  BY <1>1, <1>3, <1>4, <1>5, <1>7, <1>8
<1> QED
  BY <1>1, <1>2, <1>9, GivenKeeps

LEMMA UserDataKeeps == ASSUME IInv, UserData PROVE IInv'
<1> DEFINE kinds == {"data", "ccs"}
           n   == taken[Client]
           ccs == clientScript[taken'[Client]].kind = "ccs"
           y   == [Paired[Client] EXCEPT !.encrypted = ccs]
           cx  == With(Paired, Client, y)
           s   == cx[Client].paired
<1>1. /\ Given(Client, kinds) /\ ~ctx[Client].encrypted
      /\ ctx' = Queue(cx, s, Client, taken'[Client]) /\ Create
      /\ hostName' = hostName /\ connected' = connected /\ checks' = checks
      /\ connecting' = connecting /\ crashed' = crashed
  BY DEF UserData, requests
<1>2. Client \in Contexts
  BY SomeServer
<1> HIDE DEF kinds
<1>3. /\ Advances(taken, taken', Client)
      /\ n \in Nat /\ taken'[Client] = n + 1
      /\ ctx[Client].socket # "none" /\ ~crashed
      /\ ctx[Client].reader = "loop"
      /\ Script(Client)[taken'[Client]].kind \in {"data", "ccs"}
  BY <1>1, <1>2, GivenIs DEF kinds
<1>4. /\ Paired[Client].paired \in Servers
      /\ Sound(world, Paired, created', connected, checks, connecting, taken, wrote)
      /\ Paired[Client].socket = ctx[Client].socket
      /\ \A d \in Contexts : Paired[d].encrypted = ctx[d].encrypted
      /\ created' <= taken'[Client] /\ Paired \in [Contexts -> Fields]
  BY <1>1, PairedStep
<1>5. /\ ~Bad(world.client, taken'[Client]) /\ ~Hello(world.client, taken'[Client])
  BY <1>3 DEF Script, clientScript, Bad, Hello, Skipped
<1>6. Paired[Client].reader # "idle"
  BY <1>2, <1>3, <1>4, BlankIs DEF Sound, Born
<1>7. /\ y \in Fields /\ SameTasks(Paired[Client], y)
      /\ y.socket = Paired[Client].socket /\ y.paired = Paired[Client].paired
      /\ y.reader = Paired[Client].reader /\ y.encrypted = ccs
  <2>1. ccs \in BOOLEAN /\ Paired[Client] \in Fields
    BY <1>2, <1>4
  <2> HIDE DEF ccs
  <2> QED
    BY <2>1 DEF Fields, SameTasks
<1> HIDE DEF y, ccs
<1>8. /\ cx \in [Contexts -> Fields] /\ cx[Client] = y
      /\ \A d \in Contexts \ {Client} : cx[d] = Paired[d]
  BY <1>2, <1>4, <1>7, WithIs
<1>9. Sound(world, cx, created', connected, checks, connecting, taken, wrote)
  <2>1. Paired[Client].encrypted => y.encrypted
    BY <1>1, <1>2, <1>4
  <2>2. Paired[Client].socket # "none" /\ y.reader # "idle"
    BY <1>3, <1>4, <1>6, <1>7
  <2> QED
    BY <1>2, <1>4, <1>7, <2>1, <2>2, ReaderKeeps
<1> HIDE DEF cx
<1>10. /\ Sound(world, ctx', created', connected, checks, connecting, taken', wrote)
       /\ \A d \in Contexts : ctx'[d].encrypted = cx[d].encrypted
  <2>1. cx[Client].socket # "none" /\ s \in Servers
    BY <1>3, <1>4, <1>7, <1>8
  <2>2. ctx' = Queue(cx, s, Client, taken'[Client])
    BY <1>1, <1>3
  <2>3. /\ Sound(world, Queue(cx, s, Client, taken'[Client]), created', connected, checks,
                 connecting, taken', wrote)
        /\ \A d \in Contexts :
             Queue(cx, s, Client, taken'[Client])[d].encrypted = cx[d].encrypted
    BY ONLY <1>3, <1>5, <1>9, <2>1, DataKeeps
  <2> QED
    BY <2>2, <2>3
<1>11. \A d \in Contexts : ctx'[d].encrypted =>
         ctx[d].encrypted \/ (d = Client /\ Script(Client)[taken'[Client]].kind = "ccs")
  <2> SUFFICES ASSUME NEW d \in Contexts, ctx'[d].encrypted
               PROVE  ctx[d].encrypted \/ (d = Client /\ Script(Client)[taken'[Client]].kind = "ccs")
    OBVIOUS
  <2>1. CASE d = Client
    BY <1>7, <1>8, <1>10, <2>1 DEF ccs, Script
  <2>2. CASE d # Client
    BY <1>4, <1>8, <1>10, <2>2
  <2> QED
    BY <2>1, <2>2
<1>12. hostName \in Hosts \cup {NoHost} /\ connected \in BOOLEAN
  BY DEF IInv, TypeOK
<1>13. /\ Sound(world, ctx', created', connected', checks', connecting', taken', wrote)
       /\ hostName' \in Hosts \cup {NoHost} /\ connected' \in BOOLEAN
       /\ created' <= taken'[Client] /\ crashed' = FALSE
  BY <1>1, <1>3, <1>4, <1>10, <1>12
<1> QED
  BY <1>1, <1>2, <1>11, <1>13, GivenKeeps

(* A hello that is looked at is queued before anything else.               *)
LEMMA HelloIsQueued ==
  ASSUME IInv, UserHello
  PROVE  /\ Sound(world, HelloQueued, created', connected, checks, connecting,
                  taken', wrote)
         /\ HelloQueued[Client].socket # "none"
         /\ HelloQueued[Client].socket = "open" => HelloQueued[1].paired = Client
         /\ \A d \in Contexts : HelloQueued[d].encrypted = ctx[d].encrypted
         /\ created' <= taken'[Client] /\ crashed' = FALSE
<1> DEFINE s  == Paired[Client].paired
           x  == Paired[s]
           y  == [x EXCEPT !.paired = Client]
           cx == Pair(Paired, s, Client)
           i  == taken'[Client]
           cy == Queue(cx, s, Client, i)
<1>1. Given(Client, {"hello"}) /\ ~ctx[Client].encrypted /\ Create /\ crashed' = crashed
  BY DEF UserHello
<1>2. Client \in Contexts
  BY SomeServer
<1>3. /\ Advances(taken, taken', Client) /\ i \in Nat /\ i = taken[Client] + 1
      /\ ctx[Client].socket # "none" /\ ~crashed
      /\ Script(Client)[i].kind \in {"hello"}
  <2>1. /\ Advances(taken, taken', Client) /\ taken[Client] \in Nat
        /\ taken'[Client] = taken[Client] + 1
        /\ ctx[Client].socket # "none" /\ ~crashed
        /\ Script(Client)[taken'[Client]].kind \in {"hello"}
    BY <1>1, <1>2, GivenIs
  <2> QED
    BY <2>1
<1>4. /\ s \in Servers
      /\ Sound(world, Paired, created', connected, checks, connecting, taken, wrote)
      /\ Paired[Client].socket = ctx[Client].socket
      /\ \A d \in Contexts : Paired[d].encrypted = ctx[d].encrypted
      /\ created' <= taken'[Client] /\ Paired \in [Contexts -> Fields]
  BY <1>1, PairedStep
<1>5. /\ s \in Contexts /\ s # Client /\ x \in Fields /\ Writer(x)
      /\ x.paired \in {None, Client}
  BY <1>4, SomeServer DEF Sound, Links
<1>6. /\ y \in Fields /\ SameTasks(x, y) /\ y.paired = Client /\ y.socket = x.socket
      /\ y.reader = x.reader /\ y.running = x.running /\ y.encrypted = x.encrypted
  <2> HIDE DEF x
  <2> QED
    BY <1>2, <1>5 DEF Fields, SameTasks
<1>7. Writer(y)
  BY <1>5, <1>6 DEF Writer, SameTasks
<1> HIDE DEF y
<1>8. /\ cx \in [Contexts -> Fields] /\ cx[s] = y
      /\ \A d \in Contexts \ {s} : cx[d] = Paired[d]
  <2>1. cx = With(Paired, s, y)
    BY DEF Pair, y
  <2> HIDE DEF cx, s
  <2> QED
    BY <1>4, <1>5, <1>6, <2>1, WithIs
<1> HIDE DEF cx
<1>9. HelloQueued = cy
  BY <1>3 DEF HelloQueued, cx
<1>10. /\ cy \in [Contexts -> Fields] /\ cy[s] = Written(Appended(y, i))
       /\ \A d \in Contexts \ {s} : cy[d] = cx[d]
  <2>1. Writer(cx[s]) /\ cx[s].paired = Client
    BY <1>6, <1>7, <1>8
  <2> HIDE DEF s, i
  <2>2. /\ cy \in [Contexts -> Fields]
        /\ cy[s] = IF cx[s].paired = Client THEN Written(Appended(cx[s], i)) ELSE cx[s]
        /\ \A d \in Contexts \ {s} : cy[d] = cx[d]
    BY <1>3, <1>5, <1>8, <2>1, QueueIs
  <2> HIDE DEF cy
  <2> QED
    BY <1>8, <2>1, <2>2
<1> HIDE DEF cy
<1>11. /\ cy[s].paired = Client /\ cy[s].encrypted = x.encrypted
  <2>1. /\ Appended(y, i) \in Fields /\ Writer(Appended(y, i))
        /\ SameButTasks(y, Appended(y, i))
    <3> HIDE DEF i
    <3> QED
      BY <1>3, <1>6, <1>7, AppendedIs
  <2>2. SameButTasks(Appended(y, i), Written(Appended(y, i)))
    BY <2>1, WrittenIs
  <2> QED
    BY <1>6, <1>10, <2>1, <2>2 DEF SameButTasks
<1>12. cy[Client] = Paired[Client] /\ \A d \in Contexts \ {s} : cy[d] = Paired[d]
  BY <1>2, <1>5, <1>8, <1>10
<1>13. /\ ~Bad(world.client, i) /\ Hello(world.client, i)
  BY <1>3 DEF Script, clientScript, Bad, Hello, Skipped
<1>14. Sound(world, cy, created', connected, checks, connecting, taken', wrote)
  <2>1. /\ Sound(world, Paired, created', connected, checks, connecting, taken, wrote)
        /\ Paired[Client].socket # "none" /\ Advances(taken, taken', Client)
        /\ Paired[Client].paired = s /\ s \in Servers /\ ~Bad(world.client, taken'[Client])
        /\ Hello(world.client, taken'[Client]) /\ ~Paired[Client].encrypted
    BY <1>1, <1>2, <1>3, <1>4, <1>13
  <2>2. /\ y \in Fields /\ Writer(y) /\ SameTasks(Paired[s], y) /\ y.paired = Client
        /\ y.socket = Paired[s].socket /\ y.reader = Paired[s].reader
        /\ y.running = Paired[s].running
    BY <1>6, <1>7
  <2>3. /\ cy \in [Contexts -> Fields] /\ cy[s] = Written(Appended(y, taken'[Client]))
        /\ \A d \in Contexts \ {s} : cy[d] = Paired[d]
    BY <1>10, <1>12
  <2> HIDE DEF s
  <2> QED
    BY ONLY <2>1, <2>2, <2>3, ForwardKeeps
<1>15. cy[Client].socket = "open" => cy[1].paired = Client
  <2> SUFFICES ASSUME cy[Client].socket = "open" PROVE cy[1].paired = Client
    OBVIOUS
  <2>1. s \in Servers /\ s # None /\ cy[Client].paired = s
    <3>1. s # None
      BY <1>4, SomeServer
    <3> QED
      BY <1>4, <1>12, <3>1
  <2>2. cy[Client].paired = IF created' = 0 THEN None ELSE 1
    BY <1>14 DEF Sound, Open
  <2> QED
    BY <1>11, <2>1, <2>2
<1>16. \A d \in Contexts : cy[d].encrypted = ctx[d].encrypted
  BY <1>4, <1>5, <1>11, <1>12
<1>17. cy[Client].socket # "none" /\ created' <= taken'[Client] /\ crashed' = FALSE
  BY <1>1, <1>3, <1>4, <1>12
<1> QED
  BY <1>9, <1>14, <1>15, <1>16, <1>17

LEMMA UserFirstHelloKeeps == ASSUME IInv, UserFirstHello PROVE IInv'
<1> DEFINE h  == clientScript[taken'[Client]].host
           cx == HelloQueued
           cz == Stop(HelloQueued, Client)
<1>1. UserHello /\ (HelloAgain(h) \/ HelloWithoutHost(h) \/ HelloChecked(h))
  BY DEF UserFirstHello
<1>2. Client \in Contexts
  BY SomeServer
<1>3. Given(Client, {"hello"})
  BY <1>1 DEF UserHello
<1>4. h \in Hosts \cup {NoHost}
  <2>1. taken'[Client] \in 1..Len(Script(Client))
    BY <1>2, <1>3, GivenIs
  <2>2. Script(Client) \in Seq(Record) /\ Script(Client) = clientScript
    <3>1. world \in World
      BY ContextAssumption DEF IInv, TypeOK
    <3> QED
      BY <3>1 DEF World, Script, clientScript
  <2>3. clientScript[taken'[Client]] \in Record
    BY <2>1, <2>2, ElementOfSeq
  <2> QED
    BY <2>3 DEF Record
<1> HIDE DEF h
<1>5. /\ Sound(world, cx, created', connected, checks, connecting, taken', wrote)
      /\ cx[Client].socket # "none"
      /\ cx[Client].socket = "open" => cx[1].paired = Client
      /\ \A d \in Contexts : cx[d].encrypted = ctx[d].encrypted
      /\ created' <= taken'[Client] /\ crashed' = FALSE
  BY <1>1, HelloIsQueued
<1>6. /\ Sound(world, cz, created', connected, checks, connecting, taken', wrote)
      /\ \A d \in Contexts : cz[d].encrypted = ctx[d].encrypted
  <2> HIDE DEF cx
  <2>1. /\ Sound(world, Stop(cx, Client), created', connected, checks, connecting,
                 taken', wrote)
        /\ \A d \in Contexts : Stop(cx, Client)[d].encrypted = cx[d].encrypted
    BY <1>2, <1>5, StopKeeps
  <2>2. cz = Stop(cx, Client)
    BY DEF cx
  <2> QED
    BY <1>5, <2>1, <2>2
<1>7. /\ checks \in [Hosts -> Nat] /\ connecting \in [Hosts -> Nat]
      /\ connected \in BOOLEAN /\ hostName \in Hosts \cup {NoHost}
  BY DEF IInv, TypeOK
<1> HIDE DEF cx, cz
<1>8. /\ Sound(world, ctx', created', connected', checks', connecting', taken', wrote)
      /\ \A d \in Contexts : ctx'[d].encrypted = ctx[d].encrypted
      /\ hostName' \in Hosts \cup {NoHost} /\ connected' = connected
  <2>1. CASE HelloAgain(h)
    <3>1. /\ ctx' = cx \/ ctx' = cz
          /\ hostName' = hostName /\ connected' = connected
          /\ checks' = checks /\ connecting' = connecting
      BY <2>1 DEF HelloAgain, requests, cx, cz
    <3> QED
      BY <1>5, <1>6, <1>7, <3>1
  <2>2. CASE HelloWithoutHost(h)
    <3>1. /\ ctx' = cz
          /\ hostName' = hostName /\ connected' = connected
          /\ checks' = checks /\ connecting' = connecting
      BY <2>2 DEF HelloWithoutHost, requests, cz
    <3> QED
      BY <1>6, <1>7, <3>1
  <2>3. CASE HelloChecked(h)
    <3>1. hostName' = h /\ connected' = connected /\ h \in Hosts
      BY <1>4, <2>3 DEF HelloChecked
    <3>2. CASE /\ checks' = [checks EXCEPT ![h] = @ + 1] /\ connecting' = connecting
               /\ ctx' = cx
      <4>1. checks' \in [Hosts -> Nat] /\ connecting' \in [Hosts -> Nat]
        BY <1>7, <3>1, <3>2
      <4>2. Sound(world, cx, created', connected, checks', connecting', taken', wrote)
        BY <1>5, <4>1, RequestsKeep
      <4> QED
        BY <1>4, <1>5, <3>1, <3>2, <4>2
    <3>3. CASE /\ connecting' = [connecting EXCEPT ![h] = @ + 1] /\ checks' = checks
               /\ ctx' = cx
      <4>1. checks' \in [Hosts -> Nat] /\ connecting' \in [Hosts -> Nat]
        BY <1>7, <3>1, <3>3
      <4>2. Sound(world, cx, created', connected, checks', connecting', taken', wrote)
        BY <1>5, <4>1, RequestsKeep
      <4> QED
        BY <1>4, <1>5, <3>1, <3>3, <4>2
    <3>4. CASE ctx' = cz /\ checks' = checks /\ connecting' = connecting
      BY <1>4, <1>6, <3>1, <3>4
    <3> QED
      BY <2>3, <3>2, <3>3, <3>4 DEF HelloChecked, cx, cz
  <2> QED
    BY <1>1, <2>1, <2>2, <2>3
<1>9. connected' \in BOOLEAN
  BY <1>7, <1>8
<1> QED
  BY <1>2, <1>3, <1>5, <1>8, <1>9, GivenKeeps

LEMMA ServerDataKeeps == ASSUME IInv, NEW s \in Servers, ServerData(s) PROVE IInv'
<1> DEFINE kinds == {"hello", "data", "ccs", "bad"}
           ccs == serverScript[taken'[s]].kind = "ccs"
           y   == [ctx[s] EXCEPT !.encrypted = ctx[s].encrypted \/ ccs]
           cx  == With(ctx, s, y)
           i   == taken'[s]
<1>1. /\ Given(s, kinds) /\ (ctx[s].encrypted \/ serverScript[taken'[s]].kind # "bad")
      /\ crashed' = (ctx[s].paired = None)
      /\ ctx' = IF ctx[s].paired = None THEN cx ELSE Queue(cx, ctx[s].paired, s, i)
      /\ created' = created /\ hostName' = hostName /\ connected' = connected
      /\ checks' = checks /\ connecting' = connecting
  BY DEF ServerData, requests
<1>2. s \in Contexts /\ s # Client /\ Client \in Contexts /\ None # Client
  BY SomeServer
<1> HIDE DEF kinds
<1>3. /\ Advances(taken, taken', s) /\ i \in Nat /\ i = taken[s] + 1
      /\ \A d \in Contexts : d # s => taken'[d] = taken[d]
      /\ ctx[s].socket # "none" /\ ctx[s].reader = "loop"
      /\ Script(s)[i].kind # "empty"
      /\ Sound(world, ctx, created, connected, checks, connecting, taken, wrote)
  <2>1. /\ Advances(taken, taken', s) /\ taken[s] \in Nat
        /\ taken'[s] = taken[s] + 1
        /\ \A d \in Contexts : d # s => taken'[d] = taken[d]
        /\ ctx[s].socket # "none" /\ ctx[s].reader = "loop"
        /\ Script(s)[taken'[s]].kind \in kinds
        /\ Sound(world, ctx, created, connected, checks, connecting, taken, wrote)
    BY <1>1, <1>2, GivenIs
  <2>2. Script(s)[taken'[s]].kind # "empty"
    BY <2>1 DEF kinds
  <2> QED
    BY <2>1, <2>2
<1>4. ctx \in [Contexts -> Fields] /\ ctx[s] \in Fields /\ ctx[Client] \in Fields
  BY <1>2 DEF IInv, TypeOK
<1>5. /\ y \in Fields /\ SameTasks(ctx[s], y) /\ y.socket = ctx[s].socket
      /\ y.paired = ctx[s].paired /\ y.reader = ctx[s].reader
      /\ y.encrypted = (ctx[s].encrypted \/ ccs)
  <2>1. (ctx[s].encrypted \/ ccs) \in BOOLEAN
    OBVIOUS
  <2> HIDE DEF ccs
  <2> QED
    BY <1>4, <2>1 DEF Fields, SameTasks
<1>6. ~Bad(world.server, i)
  <2>1. Script(s) = serverScript
    BY <1>2 DEF Script
  <2>2. ~Bad(Script(s), i)
    <3>1. ctx[s].encrypted \/ Script(s)[i].kind # "bad"
      BY <1>1, <2>1
    <3> HIDE DEF i
    <3> QED
      BY <1>2, <1>3, <3>1, NotRefused
  <2> QED
    BY <2>1, <2>2 DEF serverScript
<1> HIDE DEF y, ccs
<1>7. /\ cx \in [Contexts -> Fields] /\ cx[s] = y
      /\ \A d \in Contexts \ {s} : cx[d] = ctx[d]
  <2> HIDE DEF cx
  <2>1. cx = With(ctx, s, y)
    BY DEF cx
  <2> QED
    BY <1>2, <1>4, <1>5, <2>1, WithIs
<1>8. Sound(world, cx, created, connected, checks, connecting, taken, wrote)
  <2>1. ctx[s].encrypted => y.encrypted
    BY <1>5
  <2>2. y.reader # "idle"
    BY <1>3, <1>5
  <2> QED
    BY <1>2, <1>3, <1>5, <2>1, <2>2, ReaderKeeps
<1> HIDE DEF cx
<1>9. cx[s].socket # "none" /\ cx[Client] = ctx[Client] /\ cx[s].paired = ctx[s].paired
  BY <1>2, <1>3, <1>5, <1>7
<1>10. /\ Sound(world, ctx', created, connected, checks, connecting, taken', wrote)
       /\ \A d \in Contexts : ctx'[d].encrypted = cx[d].encrypted
       /\ crashed' => ctx'[Client].socket = "closed"
  <2>1. CASE ctx[s].paired = None
    <3>1. ctx' = cx
      BY <1>1, <2>1
    <3>2. cx[Client].socket # "open" /\ cx[Client].socket # "none"
      BY <1>2, <1>3, <1>9, <2>1, StartedIsBorn
    <3>3. Sound(world, cx, created, connected, checks, connecting, taken', wrote)
      BY <1>3, <1>8, <1>9, <3>2, TakenKeeps
    <3>4. cx[Client].socket = "closed"
      BY <1>4, <1>9, <3>2 DEF Fields
    <3> QED
      BY <3>1, <3>3, <3>4
  <2>2. CASE ctx[s].paired # None
    <3>1. ctx[s].paired = Client
      BY <1>3, <2>2 DEF Sound, Links
    <3>2. cx[Client].paired = s
      BY <1>3, <1>9, <3>1 DEF Sound, Links
    <3>3. ctx' = Queue(cx, Client, s, i)
      BY <1>1, <2>2, <3>1
    <3>4. Writer(cx[Client])
      BY <1>2, <1>8 DEF Sound
    <3>5. /\ ctx' \in [Contexts -> Fields]
          /\ ctx'[Client] = Written(Appended(cx[Client], i))
          /\ \A d \in Contexts \ {Client} : ctx'[d] = cx[d]
      <4> HIDE DEF i
      <4>1. /\ Queue(cx, Client, s, i) \in [Contexts -> Fields]
            /\ Queue(cx, Client, s, i)[Client] =
                 IF cx[Client].paired = s THEN Written(Appended(cx[Client], i)) ELSE cx[Client]
            /\ \A e \in Contexts \ {Client} : Queue(cx, Client, s, i)[e] = cx[e]
        BY <1>2, <1>3, <1>7, <3>4, QueueIs
      <4> QED
        BY <3>2, <3>3, <4>1
    <3>6. /\ Sound(world, ctx', created, connected, checks, connecting, taken', wrote)
          /\ ctx'[Client].encrypted = cx[Client].encrypted
      <4>1. cx[s].paired = Client /\ cx[s].socket # "none" /\ Advances(taken, taken', s)
        BY <1>3, <1>9, <3>1
      <4>2. ~Bad(world.server, taken'[s])
        BY <1>6
      <4> QED
        BY ONLY <1>8, <3>5, <4>1, <4>2, BackwardKeeps, s \in Servers
    <3>7. ~crashed'
      BY <1>1, <2>2
    <3> QED
      BY <3>5, <3>6, <3>7
  <2> QED
    BY <2>1, <2>2
<1>11. \A d \in Contexts : ctx'[d].encrypted =>
         ctx[d].encrypted \/ (d = s /\ Script(s)[taken'[s]].kind = "ccs")
  <2> SUFFICES ASSUME NEW d \in Contexts, ctx'[d].encrypted
               PROVE  ctx[d].encrypted \/ (d = s /\ Script(s)[taken'[s]].kind = "ccs")
    OBVIOUS
  <2>1. CASE d = s
    BY <1>2, <1>5, <1>7, <1>10, <2>1 DEF ccs, Script
  <2>2. CASE d # s
    BY <1>7, <1>10, <2>2
  <2> QED
    BY <2>1, <2>2
<1>12. /\ Sound(world, ctx', created', connected', checks', connecting', taken', wrote)
       /\ hostName' \in Hosts \cup {NoHost} /\ connected' \in BOOLEAN
       /\ created' <= taken'[Client] /\ crashed' \in BOOLEAN
  <2>1. /\ hostName \in Hosts \cup {NoHost} /\ connected \in BOOLEAN
        /\ created <= taken[Client] /\ taken'[Client] = taken[Client]
    BY <1>2, <1>3 DEF IInv, TypeOK, Counters
  <2> QED
    BY <1>1, <1>10, <2>1
<1> QED
  BY <1>1, <1>2, <1>10, <1>11, <1>12, GivenKeeps

LEMMA ServerBadKeeps == ASSUME IInv, NEW s \in Servers, ServerBad(s) PROVE IInv'
<1>1. /\ Given(s, {"bad", "empty"}) /\ ctx' = Stop(ctx, s)
      /\ created' = created /\ hostName' = hostName /\ connected' = connected
      /\ checks' = checks /\ connecting' = connecting /\ crashed' = crashed
  BY DEF ServerBad, requests
<1>2. s \in Contexts /\ s # Client /\ Client \in Contexts
  BY SomeServer
<1>3. /\ Advances(taken, taken', s)
      /\ \A d \in Contexts : d # s => taken'[d] = taken[d]
      /\ ctx[s].socket # "none" /\ ~crashed
      /\ Sound(world, ctx, created, connected, checks, connecting, taken, wrote)
  BY <1>1, <1>2, GivenIs
<1>4. /\ Sound(world, ctx', created, connected, checks, connecting, taken, wrote)
      /\ ctx'[Client].socket # "open"
      /\ \A d \in Contexts : ctx'[d].encrypted = ctx[d].encrypted
  BY <1>1, <1>2, <1>3, StopKeeps
<1>5. ctx'[s].socket # "none"
  <2>1. ctx \in [Contexts -> Fields] /\ ctx[s] \in Fields
    BY <1>2 DEF IInv, TypeOK
  <2>2. ctx'[s] = Closed(ctx[s])
    BY <1>1, <1>2, <2>1, StopIs
  <2>3. Closed(ctx[s]).socket = "closed"
    BY <1>3, <2>1, ClosedIs
  <2> QED
    BY <2>2, <2>3
<1>6. Sound(world, ctx', created, connected, checks, connecting, taken', wrote)
  BY <1>3, <1>4, <1>5, TakenKeeps
<1>7. /\ Sound(world, ctx', created', connected', checks', connecting', taken', wrote)
      /\ hostName' \in Hosts \cup {NoHost} /\ connected' \in BOOLEAN
      /\ created' <= taken'[Client] /\ crashed' = FALSE
  <2>1. /\ hostName \in Hosts \cup {NoHost} /\ connected \in BOOLEAN
        /\ created <= taken[Client] /\ taken'[Client] = taken[Client]
    BY <1>2, <1>3 DEF IInv, TypeOK, Counters
  <2> QED
    BY <1>1, <1>3, <1>6, <2>1
<1> QED
  BY <1>1, <1>2, <1>4, <1>7, GivenKeeps

LEMMA ReadOnKeeps == ASSUME IInv, NEW c \in Contexts, ReadOn(c) PROVE IInv'
<1> DEFINE y == [ctx[c] EXCEPT !.reader = IF ctx[c].socket = "open" \/ ctx[c].stray
                                         THEN "reading" ELSE "rejected"]
<1>1. /\ ~crashed /\ ctx[c].reader = "loop" /\ ctx' = With(ctx, c, y)
      /\ world' = world /\ created' = created /\ hostName' = hostName
      /\ connected' = connected /\ checks' = checks /\ connecting' = connecting
      /\ read' = read /\ taken' = taken /\ wrote' = wrote /\ crashed' = crashed
  BY DEF ReadOn, requests
<1>2. /\ ctx \in [Contexts -> Fields] /\ ctx[c] \in Fields
      /\ Sound(world, ctx, created, connected, checks, connecting, taken, wrote)
  BY DEF IInv, TypeOK
<1>3. ctx[c].socket # "none"
  BY <1>1, <1>2 DEF Sound, Born, Unstarted
<1>4. /\ y \in Fields /\ SameTasks(ctx[c], y) /\ y.socket = ctx[c].socket
      /\ y.paired = ctx[c].paired /\ y.encrypted = ctx[c].encrypted
      /\ y.reader # "idle"
  BY <1>2 DEF Fields, SameTasks
<1> HIDE DEF y
<1>5. Sound(world, ctx', created, connected, checks, connecting, taken, wrote)
  BY <1>1, <1>2, <1>3, <1>4, ReaderKeeps
<1>6. \A d \in Contexts : ctx'[d].encrypted = ctx[d].encrypted
  <2>1. /\ With(ctx, c, y)[c] = y
        /\ \A d \in Contexts \ {c} : With(ctx, c, y)[d] = ctx[d]
    BY <1>2, <1>4, WithIs
  <2> QED
    BY <1>1, <1>4, <2>1
<1>7. /\ Sound(world, ctx', created', connected', checks', connecting', taken', wrote')
      /\ hostName' \in Hosts \cup {NoHost} /\ connected' \in BOOLEAN
      /\ read' \in [Contexts -> Nat] /\ crashed' = FALSE
      /\ Counters(world, created', read', taken')
  BY <1>1, <1>5 DEF IInv, TypeOK
<1>8. \A d \in Contexts : Encrypts(Script(d), taken'[d], ctx'[d])
  BY <1>1, <1>6 DEF IInv, Encrypts
<1> QED
  BY <1>1, <1>7, <1>8, StepKeeps

-----------------------------------------------------------------------------
(* The completion handlers.                                                *)

LEMMA EndedKeeps ==
  ASSUME NEW W, NEW cx, NEW cr, NEW cn, NEW cs, NEW cg, NEW tk, NEW wr,
         Sound(W, cx, cr, cn, cs, cg, tk, wr), NEW c \in Contexts, cx[c].socket # "none"
  PROVE  /\ Sound(W, Ended(cx, c), cr, cn, cs, cg, tk, wr)
         /\ \A d \in Contexts : /\ Ended(cx, c)[d].encrypted = cx[d].encrypted
                                /\ Ended(cx, c)[d].socket = cx[d].socket
<1> DEFINE y == [cx[c] EXCEPT !.reader = "ended", !.running = FALSE]
<1>1. cx \in [Contexts -> Fields] /\ cx[c] \in Fields
  BY DEF Sound, ContextTypes
<1>2. /\ y \in Fields /\ SameTasks(cx[c], y) /\ y.socket = cx[c].socket
      /\ y.paired = cx[c].paired /\ y.encrypted = cx[c].encrypted
      /\ y.reader # "idle"
  BY <1>1 DEF Fields, SameTasks
<1>3. Ended(cx, c) = With(cx, c, y)
  BY DEF Ended
<1> HIDE DEF y
<1>4. Sound(W, With(cx, c, y), cr, cn, cs, cg, tk, wr)
  BY <1>1, <1>2, ReaderKeeps
<1>5. /\ With(cx, c, y)[c] = y
      /\ \A d \in Contexts \ {c} : With(cx, c, y)[d] = cx[d]
  BY <1>1, <1>2, WithIs
<1> QED
  BY <1>2, <1>3, <1>4, <1>5

(* The end of most handlers.                                               *)
LEMMA EndKeeps ==
  ASSUME IInv, Completion, NEW cx,
         ctx' = Release(cx, Waiting(checks', connecting')),
         Sound(world, cx, created, connected', checks', connecting', taken, wrote'),
         \A d \in Contexts : cx[d].encrypted = ctx[d].encrypted,
         cx[Client].socket # "none", connected' \in BOOLEAN,
         hostName' = hostName, read' = read, crashed' = crashed
  PROVE  IInv'
<1>1. /\ Sound(world, ctx', created, connected', checks', connecting', taken, wrote')
      /\ \A d \in Contexts : ctx'[d].encrypted = ctx[d].encrypted
  BY ReleaseKeeps
<1>2. /\ read' \in [Contexts -> Nat] /\ Counters(world, created, read', taken)
      /\ ~crashed'
  BY DEF IInv, TypeOK, Completion
<1>3. hostName' = hostName /\ connected' \in BOOLEAN /\ crashed' = FALSE
  BY <1>2 DEF IInv, TypeOK
<1> QED
  BY <1>1, <1>2, <1>3, CompletionKeeps

LEMMA AcceptStep == ASSUME IInv, Accept PROVE IInv'
<1>1. /\ Completion /\ ctx[Client].reader = "idle" /\ ctx' = Start(ctx, Client, NoHost)
      /\ hostName' = hostName /\ connected' = connected /\ checks' = checks
      /\ connecting' = connecting /\ read' = read /\ wrote' = wrote
      /\ crashed' = crashed /\ ~crashed
  BY DEF Accept, Completion, requests
<1>2. Sound(world, ctx, created, connected, checks, connecting, taken, wrote)
  BY DEF IInv
<1>3. /\ Sound(world, ctx', created, connected', checks', connecting', taken, wrote')
      /\ \A d \in Contexts : ctx'[d].encrypted = ctx[d].encrypted
  BY <1>1, <1>2, AcceptKeeps
<1>4. /\ read' \in [Contexts -> Nat] /\ Counters(world, created, read', taken)
      /\ connected' \in BOOLEAN /\ crashed' = FALSE
  BY <1>1 DEF IInv, TypeOK
<1> QED
  BY <1>1, <1>3, <1>4, CompletionKeeps

LEMMA SoundNow ==
  ASSUME IInv
  PROVE  /\ Sound(world, ctx, created, connected, checks, connecting, taken, wrote)
         /\ ctx \in [Contexts -> Fields] /\ connected \in BOOLEAN
         /\ hostName \in Hosts \cup {NoHost}
         /\ checks \in [Hosts -> Nat] /\ connecting \in [Hosts -> Nat]
         /\ \A c \in Contexts :
              /\ ctx[c].reader # "idle" => ctx[c].socket # "none"
              /\ ctx[c].flying # <<>> => ctx[c].socket # "none"
              /\ ctx[c].socket # "none" => ctx[Client].socket # "none"
<1>1. /\ Sound(world, ctx, created, connected, checks, connecting, taken, wrote)
      /\ ctx \in [Contexts -> Fields] /\ connected \in BOOLEAN
      /\ hostName \in Hosts \cup {NoHost}
      /\ checks \in [Hosts -> Nat] /\ connecting \in [Hosts -> Nat]
  BY DEF IInv, TypeOK
<1>2. \A c \in Contexts : /\ ctx[c].reader # "idle" => ctx[c].socket # "none"
                          /\ ctx[c].flying # <<>> => ctx[c].socket # "none"
  BY <1>1 DEF Sound, Born, Unstarted
<1>3. \A c \in Contexts : ctx[c].socket # "none" => ctx[Client].socket # "none"
  BY <1>1, StartedIsBorn, SomeServer
<1> QED
  BY <1>1, <1>2, <1>3

LEMMA ReadDoneKeeps == ASSUME IInv, NEW c \in Contexts, NEW n, ReadDone(c, n) PROVE IInv'
<1>1. /\ Completion /\ ctx[c].reader = "reading"
      /\ n \in 1..(Len(Script(c)) - read[c])
      /\ hostName' = hostName /\ connected' = connected /\ checks' = checks
      /\ connecting' = connecting /\ wrote' = wrote
      /\ crashed' = crashed /\ ~crashed
  BY DEF ReadDone, Completion, requests
<1>2. /\ Sound(world, ctx, created, connected, checks, connecting, taken, wrote)
      /\ ctx \in [Contexts -> Fields] /\ ctx[c] \in Fields /\ connected \in BOOLEAN
      /\ ctx[c].socket # "none" /\ ctx[Client].socket # "none"
  BY <1>1, SoundNow
<1>3. CASE /\ ctx' = With(ctx, c, [ctx[c] EXCEPT !.reader = "loop"])
           /\ read' = [read EXCEPT ![c] = @ + n]
  <2> DEFINE y == [ctx[c] EXCEPT !.reader = "loop"]
  <2>1. /\ y \in Fields /\ SameTasks(ctx[c], y) /\ y.socket = ctx[c].socket
        /\ y.paired = ctx[c].paired /\ y.encrypted = ctx[c].encrypted
        /\ y.reader # "idle"
    BY <1>2 DEF Fields, SameTasks
  <2>2. ctx' = With(ctx, c, y)
    BY <1>3
  <2> HIDE DEF y
  <2>3. Sound(world, ctx', created, connected', checks', connecting', taken, wrote')
    BY <1>1, <1>2, <2>1, <2>2, ReaderKeeps
  <2>4. \A d \in Contexts : ctx'[d].encrypted = ctx[d].encrypted
    <3>1. /\ With(ctx, c, y)[c] = y
          /\ \A d \in Contexts \ {c} : With(ctx, c, y)[d] = ctx[d]
      BY <1>2, <2>1, WithIs
    <3> QED
      BY <2>1, <2>2, <3>1
  <2>5. read \in [Contexts -> Nat] /\ read[c] \in Nat /\ Len(Script(c)) \in Nat
    <3>1. world \in World
      BY ContextAssumption DEF IInv, TypeOK
    <3>2. Script(c) \in Seq(Record)
      BY <3>1 DEF World, Script, clientScript, serverScript
    <3> QED
      BY <3>2, LenProperties DEF IInv, TypeOK
  <2>6. read' \in [Contexts -> Nat] /\ Counters(world, created, read', taken)
    <3>1. /\ n \in Nat /\ read[c] + n \in Nat /\ read[c] + n <= Len(Script(c))
          /\ read[c] <= read[c] + n
      BY <1>1, <2>5
    <3>2. /\ read' \in [Contexts -> Nat] /\ read'[c] = read[c] + n
          /\ \A d \in Contexts : d # c => read'[d] = read[d]
      BY <1>3, <2>5, <3>1
    <3>3. taken[c] <= read[c] /\ taken[c] \in Nat
      BY DEF IInv, TypeOK, Counters
    <3>4. taken[c] <= read'[c] /\ read'[c] <= Len(Script(c))
      BY <2>5, <3>1, <3>2, <3>3
    <3>5. Script(c) = IF c = Client THEN world.client ELSE world.server
      BY DEF Script, clientScript, serverScript
    <3> QED
      BY <3>2, <3>4, <3>5 DEF IInv, Counters
  <2>7. connected' \in BOOLEAN /\ crashed' = FALSE
    BY <1>1, <1>2
  <2> QED
    BY <1>1, <2>3, <2>4, <2>6, <2>7, CompletionKeeps
<1>4. CASE /\ ctx' = Release(Stop(Ended(ctx, c), c), Waiting(checks, connecting))
           /\ read' = read
  <2> DEFINE ce == Ended(ctx, c)
             cz == Stop(ce, c)
  <2>1. /\ Sound(world, ce, created, connected, checks, connecting, taken, wrote)
        /\ \A d \in Contexts : ce[d].encrypted = ctx[d].encrypted
        /\ \A d \in Contexts : ce[d].socket = ctx[d].socket
    BY <1>2, EndedKeeps
  <2>2. ce[c].socket # "none" /\ ce[Client].socket # "none"
    BY <1>2, <2>1, SomeServer
  <2> HIDE DEF ce
  <2>3. /\ Sound(world, cz, created, connected, checks, connecting, taken, wrote)
        /\ cz[Client].socket = "closed"
        /\ \A d \in Contexts : cz[d].encrypted = ce[d].encrypted
    BY <2>1, <2>2, StopKeeps
  <2>4. ctx' = Release(cz, Waiting(checks', connecting'))
    BY <1>1, <1>4 DEF ce
  <2>5. /\ Sound(world, cz, created, connected', checks', connecting', taken, wrote')
        /\ \A d \in Contexts : cz[d].encrypted = ctx[d].encrypted
        /\ cz[Client].socket # "none" /\ connected' \in BOOLEAN /\ read' = read
    BY <1>1, <1>2, <1>4, <2>1, <2>3
  <2> HIDE DEF cz
  <2> QED
    BY <1>1, <2>4, <2>5, EndKeeps
<1> QED
  BY <1>3, <1>4 DEF ReadDone

(* eof, or the cancellation by Stop.                                       *)
LEMMA ReadEndsKeeps ==
  ASSUME IInv, NEW c \in Contexts, ReadEof(c) \/ ReadCancelled(c)
  PROVE  IInv'
<1>1. /\ Completion /\ ctx[c].reader = "reading"
      /\ ctx' = Release(Ended(ctx, c), Waiting(checks', connecting'))
      /\ hostName' = hostName /\ connected' = connected /\ checks' = checks
      /\ connecting' = connecting /\ wrote' = wrote /\ read' = read
      /\ crashed' = crashed
  BY DEF ReadEof, ReadCancelled, requests
<1>2. /\ Sound(world, ctx, created, connected, checks, connecting, taken, wrote)
      /\ connected \in BOOLEAN
      /\ ctx[c].socket # "none" /\ ctx[Client].socket # "none"
  BY <1>1, SoundNow
<1> DEFINE ce == Ended(ctx, c)
<1>3. /\ Sound(world, ce, created, connected, checks, connecting, taken, wrote)
      /\ \A d \in Contexts : ce[d].encrypted = ctx[d].encrypted
      /\ \A d \in Contexts : ce[d].socket = ctx[d].socket
  BY <1>2, EndedKeeps
<1>4. /\ Sound(world, ce, created, connected', checks', connecting', taken, wrote')
      /\ ce[Client].socket # "none" /\ connected' \in BOOLEAN
  BY <1>1, <1>2, <1>3, SomeServer
<1> HIDE DEF ce
<1>5. ctx' = Release(ce, Waiting(checks', connecting'))
  BY <1>1 DEF ce
<1> QED
  BY <1>1, <1>3, <1>4, <1>5, EndKeeps

LEMMA ReadFailedKeeps == ASSUME IInv, NEW c \in Contexts, ReadFailed(c) PROVE IInv'
<1>1. /\ Completion /\ ctx[c].reader # "idle"
      /\ ctx' = Release(Stop(Ended(ctx, c), c), Waiting(checks', connecting'))
      /\ hostName' = hostName /\ connected' = connected /\ checks' = checks
      /\ connecting' = connecting /\ wrote' = wrote /\ read' = read
      /\ crashed' = crashed
  BY DEF ReadFailed, requests
<1>2. /\ Sound(world, ctx, created, connected, checks, connecting, taken, wrote)
      /\ connected \in BOOLEAN
      /\ ctx[c].socket # "none" /\ ctx[Client].socket # "none"
  BY <1>1, SoundNow
<1> DEFINE ce == Ended(ctx, c)
           cz == Stop(ce, c)
<1>3. /\ Sound(world, ce, created, connected, checks, connecting, taken, wrote)
      /\ \A d \in Contexts : ce[d].encrypted = ctx[d].encrypted
      /\ \A d \in Contexts : ce[d].socket = ctx[d].socket
  BY <1>2, EndedKeeps
<1>4. ce[c].socket # "none" /\ ce[Client].socket # "none"
  BY <1>2, <1>3, SomeServer
<1> HIDE DEF ce
<1>5. /\ Sound(world, cz, created, connected, checks, connecting, taken, wrote)
      /\ cz[Client].socket = "closed"
      /\ \A d \in Contexts : cz[d].encrypted = ce[d].encrypted
  BY <1>3, <1>4, StopKeeps
<1>6. ctx' = Release(cz, Waiting(checks', connecting'))
  BY <1>1 DEF ce
<1>7. /\ Sound(world, cz, created, connected', checks', connecting', taken, wrote')
      /\ \A d \in Contexts : cz[d].encrypted = ctx[d].encrypted
      /\ cz[Client].socket # "none" /\ connected' \in BOOLEAN
  BY <1>1, <1>2, <1>3, <1>5
<1> HIDE DEF cz
<1> QED
  BY <1>1, <1>6, <1>7, EndKeeps

LEMMA NothingLeft ==
  ASSUME NEW f \in Seq(Writes), Len(f) = 1, NEW k \in DOMAIN f
  PROVE  k = 1 /\ SubSeq(f, 1, k - 1) \o SubSeq(f, k + 1, Len(f)) = <<>>
<1>1. k = 1
  BY LenProperties
<1>2. SubSeq(f, 1, 0) = <<>> /\ SubSeq(f, 2, 1) = <<>>
  BY SubSeqEmpty
<1>3. <<>> \o <<>> = <<>>
  OBVIOUS
<1>4. k - 1 = 0 /\ k + 1 = 2
  BY <1>1
<1> QED
  BY <1>1, <1>2, <1>3, <1>4

LEMMA WriteDoneKeeps == ASSUME IInv, NEW c \in Contexts, NEW k, WriteDone(c, k) PROVE IInv'
<1> DEFINE f    == ctx[c].flying
           rest == SubSeq(f, 1, k - 1) \o SubSeq(f, k + 1, Len(f))
           y    == [ctx[c] EXCEPT !.flying = rest, !.writing = FALSE]
           cy   == DoWrite(With(ctx, c, y), c)
<1>1. /\ Completion /\ k \in DOMAIN f
      /\ wrote' = [wrote EXCEPT ![c] = Append(@, f[k])]
      /\ ctx' = Release(cy, Waiting(checks', connecting'))
      /\ hostName' = hostName /\ connected' = connected /\ checks' = checks
      /\ connecting' = connecting /\ read' = read /\ crashed' = crashed
  BY DEF WriteDone, requests
<1>2. /\ Sound(world, ctx, created, connected, checks, connecting, taken, wrote)
      /\ connected \in BOOLEAN /\ ctx \in [Contexts -> Fields]
      /\ ctx[c] \in Fields /\ Writer(ctx[c])
      /\ wrote \in [Contexts -> Seq(Writes)]
  BY SoundNow DEF Sound, ContextTypes
<1>3. /\ f # <<>> /\ Len(f) = 1 /\ f \in Seq(Writes)
  <2>1. f \in Seq(Writes)
    BY <1>2, OutputOf DEF Fields, Writes
  <2>2. f # <<>>
    BY <1>1
  <2> QED
    BY <1>2, <2>1, <2>2, FlyingOne
<1>4. k = 1 /\ rest = <<>>
  <2> HIDE DEF f
  <2> QED
    BY <1>1, <1>3, NothingLeft
<1> HIDE DEF rest
<1>5. /\ y \in Fields /\ SameButTasks(ctx[c], y) /\ y.flying = <<>> /\ ~y.writing
      /\ y.queue = ctx[c].queue
  <2>1. y = [ctx[c] EXCEPT !.flying = <<>>, !.writing = FALSE]
    BY <1>4
  <2>2. <<>> \in Seq(Writes)
    OBVIOUS
  <2> HIDE DEF y
  <2> QED
    BY <1>2, <2>1, <2>2 DEF Fields, SameButTasks, Writes
<1>6. ctx[Client].socket # "none"
  BY <1>3, SoundNow
<1> HIDE DEF y
<1>7. /\ Sound(world, cy, created, connected, checks, connecting, taken, wrote')
      /\ cy[Client].socket = ctx[Client].socket
      /\ \A d \in Contexts : cy[d].encrypted = ctx[d].encrypted
  <2>1. Delivers(wrote, wrote', c, ctx[c])
    BY <1>1, <1>3, <1>4 DEF Delivers
  <2>2. y \in Fields /\ Finished(ctx[c], y)
    BY <1>5 DEF Finished
  <2>3. /\ Sound(world, ctx, created, connected, checks, connecting, taken, wrote)
        /\ c \in Contexts
    BY <1>2
  <2> QED
    BY ONLY <2>1, <2>2, <2>3, DoneKeeps
<1>8. /\ Sound(world, cy, created, connected', checks', connecting', taken, wrote')
      /\ cy[Client].socket # "none" /\ connected' \in BOOLEAN
  BY <1>1, <1>2, <1>6, <1>7
<1> HIDE DEF cy
<1> QED
  BY <1>1, <1>7, <1>8, EndKeeps

LEMMA WriteFailedKeeps == ASSUME IInv, NEW c \in Contexts, WriteFailed(c) PROVE IInv'
<1> DEFINE y  == [ctx[c] EXCEPT !.flying = Tail(@)]
           cy == Stop(With(ctx, c, y), c)
<1>1. /\ Completion /\ ctx[c].flying # <<>>
      /\ ctx' = Release(cy, Waiting(checks', connecting'))
      /\ hostName' = hostName /\ connected' = connected /\ checks' = checks
      /\ connecting' = connecting /\ read' = read /\ wrote' = wrote
      /\ crashed' = crashed
  BY DEF WriteFailed, requests
<1>2. /\ Sound(world, ctx, created, connected, checks, connecting, taken, wrote)
      /\ connected \in BOOLEAN /\ ctx \in [Contexts -> Fields]
      /\ ctx[c] \in Fields /\ Writer(ctx[c])
  BY SoundNow DEF Sound
<1>3. /\ ctx[c].writing /\ Tail(ctx[c].flying) = <<>>
  BY <1>1, <1>2, FlyingOne
<1>4. /\ y \in Fields /\ SameButTasks(ctx[c], y) /\ y.flying = <<>> /\ y.writing
      /\ y.queue = ctx[c].queue
  <2>1. y = [ctx[c] EXCEPT !.flying = <<>>]
    BY <1>2, <1>3 DEF Fields
  <2>2. <<>> \in Seq(Writes)
    OBVIOUS
  <2> HIDE DEF y
  <2> QED
    BY <1>2, <1>3, <2>1, <2>2 DEF Fields, SameButTasks, Writes
<1> HIDE DEF y
<1>5. /\ Sound(world, cy, created, connected, checks, connecting, taken, wrote)
      /\ cy[Client].socket = "closed"
      /\ \A d \in Contexts : cy[d].encrypted = ctx[d].encrypted
  BY <1>1, <1>2, <1>4, FailedKeeps
<1>6. /\ Sound(world, cy, created, connected', checks', connecting', taken, wrote')
      /\ cy[Client].socket # "none" /\ connected' \in BOOLEAN
  BY <1>1, <1>2, <1>5
<1> HIDE DEF cy
<1> QED
  BY <1>1, <1>5, <1>6, EndKeeps

(* A request is running.                                                   *)
LEMMA Requested ==
  ASSUME IInv, NEW h \in Hosts, checks[h] > 0 \/ connecting[h] > 0
  PROVE  /\ ctx[Client].socket # "none"
         /\ ctx[Client].socket = "open" =>
              ctx[Client].paired = 1 /\ ctx[1].paired = Client
<1>1. Sound(world, ctx, created, connected, checks, connecting, taken, wrote)
  BY DEF IInv
<1>2. checks[h] # 0 \/ connecting[h] # 0
  BY DEF IInv, TypeOK
<1>3. ctx[Client].socket # "none"
  BY <1>1, <1>2 DEF Sound, Born
<1>4. ASSUME ctx[Client].socket = "open"
      PROVE  ctx[Client].paired = 1 /\ ctx[1].paired = Client
  <2>1. ctx[1].paired # None
    BY <1>1, <1>2, <1>4 DEF Sound, Open, Useless
  <2>2. ctx[1].paired = Client
    BY <1>1, <2>1, SomeServer DEF Sound, Links
  <2>3. ctx[Client].paired = 1
    BY <1>1, <2>2, SomeServer DEF Sound, Links
  <2> QED
    BY <2>2, <2>3
<1> QED
  BY <1>3, <1>4

LEMMA CheckAnsweredKeeps == ASSUME IInv, NEW h \in Hosts, CheckAnswered(h) PROVE IInv'
<1>1. /\ Completion /\ checks[h] > 0 /\ checks' = [checks EXCEPT ![h] = @ - 1]
      /\ hostName' = hostName /\ connected' = connected
      /\ read' = read /\ wrote' = wrote /\ crashed' = crashed
  BY DEF CheckAnswered
<1>2. /\ Sound(world, ctx, created, connected, checks, connecting, taken, wrote)
      /\ connected \in BOOLEAN
      /\ checks \in [Hosts -> Nat] /\ connecting \in [Hosts -> Nat]
  BY SoundNow
<1>3. /\ ctx[Client].socket # "none"
      /\ ctx[Client].socket = "open" => ctx[1].paired = Client
  BY <1>1, Requested
<1>4. checks' \in [Hosts -> Nat]
  <2>1. checks[h] - 1 \in Nat
    BY <1>1, <1>2
  <2> QED
    BY <1>1, <1>2, <2>1
<1>5. CASE connecting' = [connecting EXCEPT ![h] = @ + 1] /\ ctx' = ctx
  <2>1. connecting' \in [Hosts -> Nat]
    BY <1>2, <1>5
  <2>2. Sound(world, ctx, created, connected, checks', connecting', taken, wrote)
    BY <1>2, <1>3, <1>4, <2>1, RequestsKeep
  <2>3. /\ Sound(world, ctx', created, connected', checks', connecting', taken, wrote')
        /\ \A c \in Contexts : ctx'[c].encrypted = ctx[c].encrypted
        /\ connected' \in BOOLEAN
    BY <1>1, <1>2, <1>5, <2>2
  <2>4. /\ read' \in [Contexts -> Nat] /\ Counters(world, created, read', taken)
        /\ crashed' = FALSE
    BY <1>1 DEF IInv, TypeOK, Completion
  <2> QED
    BY <1>1, <2>3, <2>4, CompletionKeeps
<1>6. CASE /\ ctx' = Release(Stop(ctx, Client), Waiting(checks', connecting))
           /\ connecting' = connecting
  <2> DEFINE cy == Stop(ctx, Client)
  <2>1. Sound(world, ctx, created, connected, checks', connecting, taken, wrote)
    BY <1>2, <1>3, <1>4, RequestsKeep
  <2>2. /\ Sound(world, cy, created, connected, checks', connecting, taken, wrote)
        /\ cy[Client].socket = "closed"
        /\ \A d \in Contexts : cy[d].encrypted = ctx[d].encrypted
    BY <1>3, <2>1, SomeServer, StopKeeps
  <2>3. /\ Sound(world, cy, created, connected', checks', connecting', taken, wrote')
        /\ cy[Client].socket # "none" /\ connected' \in BOOLEAN
        /\ ctx' = Release(cy, Waiting(checks', connecting'))
    BY <1>1, <1>2, <1>6, <2>2
  <2> HIDE DEF cy
  <2> QED
    BY <1>1, <2>2, <2>3, EndKeeps
<1> QED
  BY <1>5, <1>6 DEF CheckAnswered

LEMMA ConnectFailedKeeps == ASSUME IInv, NEW h \in Hosts, ConnectFailed(h) PROVE IInv'
<1> DEFINE cy == Stop(ctx, Client)
<1>1. /\ Completion /\ connecting[h] > 0
      /\ connecting' = [connecting EXCEPT ![h] = @ - 1]
      /\ ctx' = Release(cy, Waiting(checks', connecting')) /\ checks' = checks
      /\ hostName' = hostName /\ connected' = connected
      /\ read' = read /\ wrote' = wrote /\ crashed' = crashed
  BY DEF ConnectFailed
<1>2. /\ Sound(world, ctx, created, connected, checks, connecting, taken, wrote)
      /\ connected \in BOOLEAN
      /\ checks \in [Hosts -> Nat] /\ connecting \in [Hosts -> Nat]
  BY SoundNow
<1>3. /\ ctx[Client].socket # "none"
      /\ ctx[Client].socket = "open" => ctx[1].paired = Client
  BY <1>1, Requested
<1>4. connecting' \in [Hosts -> Nat]
  <2>1. connecting[h] - 1 \in Nat
    BY <1>1, <1>2
  <2> QED
    BY <1>1, <1>2, <2>1
<1>5. Sound(world, ctx, created, connected, checks, connecting', taken, wrote)
  BY <1>2, <1>3, <1>4, RequestsKeep
<1>6. /\ Sound(world, cy, created, connected, checks, connecting', taken, wrote)
      /\ cy[Client].socket = "closed"
      /\ \A d \in Contexts : cy[d].encrypted = ctx[d].encrypted
  BY <1>3, <1>5, SomeServer, StopKeeps
<1>7. /\ Sound(world, cy, created, connected', checks', connecting', taken, wrote')
      /\ cy[Client].socket # "none" /\ connected' \in BOOLEAN
  BY <1>1, <1>2, <1>6
<1> HIDE DEF cy
<1> QED
  BY <1>1, <1>6, <1>7, EndKeeps

LEMMA ConnectedKeeps == ASSUME IInv, NEW h \in Hosts, Connected(h) PROVE IInv'
<1> DEFINE s  == ctx[Client].paired
           cy == Start(ctx, s, h)
<1>1. /\ Completion /\ connecting[h] > 0
      /\ connecting' = [connecting EXCEPT ![h] = @ - 1]
      /\ crashed' = (s = None)
      /\ ctx' = IF s = None THEN ctx ELSE Release(cy, Waiting(checks', connecting'))
      /\ connected' = (connected \/ s # None)
      /\ checks' = checks /\ hostName' = hostName
      /\ read' = read /\ wrote' = wrote
  BY DEF Connected
<1>2. /\ Sound(world, ctx, created, connected, checks, connecting, taken, wrote)
      /\ connected \in BOOLEAN /\ ctx \in [Contexts -> Fields]
      /\ checks \in [Hosts -> Nat] /\ connecting \in [Hosts -> Nat]
  BY SoundNow
<1>3. /\ ctx[Client].socket # "none"
      /\ ctx[Client].socket = "open" => s = 1 /\ ctx[1].paired = Client
  BY <1>1, Requested
<1>4. connecting' \in [Hosts -> Nat] /\ connected' \in BOOLEAN
  <2>1. connecting[h] - 1 \in Nat
    BY <1>1, <1>2
  <2> QED
    BY <1>1, <1>2, <2>1
<1>5. Sound(world, ctx, created, connected', checks, connecting', taken, wrote)
  BY <1>2, <1>3, <1>4, RequestsKeep
<1>6. 1 # None /\ None \notin Servers /\ Client \in Contexts
  BY SomeServer
<1>7. /\ read' \in [Contexts -> Nat] /\ Counters(world, created, read', taken)
      /\ crashed = FALSE
  BY <1>1 DEF IInv, TypeOK, Completion
<1>8. CASE s = None
  <2>1. ctx[Client].socket = "closed"
    <3>1. ctx[Client].socket # "open"
      BY <1>3, <1>6, <1>8
    <3>2. ctx[Client] \in Fields
      BY <1>2, <1>6
    <3> QED
      BY <1>3, <3>1, <3>2 DEF Fields
  <2>2. /\ ctx' = ctx /\ crashed' = TRUE
        /\ Sound(world, ctx', created, connected', checks', connecting', taken, wrote')
        /\ \A d \in Contexts : ctx'[d].encrypted = ctx[d].encrypted
    BY <1>1, <1>5, <1>8
  <2> QED
    BY <1>1, <1>4, <1>7, <2>1, <2>2, CompletionKeeps
<1>9. CASE s # None
  <2>1. s \in Servers
    <3>1. s \in 1..created /\ created \in 0..MaxServers /\ MaxServers \in Nat
      BY <1>2, <1>9, ContextAssumption DEF Sound, Links, ContextTypes
    <3> QED
      BY <3>1 DEF Servers
  <2>2. /\ Sound(world, cy, created, connected', checks, connecting', taken, wrote)
        /\ cy[Client] = ctx[Client]
        /\ \A d \in Contexts : cy[d].encrypted = ctx[d].encrypted
    <3>1. ctx[Client].socket = "open" => ctx[s].paired = Client
      BY <1>3
    <3>2. h \in Hosts \cup {NoHost} /\ ctx[Client].paired = s
      OBVIOUS
    <3> HIDE DEF s
    <3> QED
      BY <1>5, <2>1, <3>1, <3>2, StartKeeps
  <2>3. /\ Sound(world, cy, created, connected', checks', connecting', taken, wrote')
        /\ cy[Client].socket # "none"
        /\ ctx' = Release(cy, Waiting(checks', connecting'))
        /\ crashed' = crashed
    BY <1>1, <1>3, <1>7, <1>9, <2>2
  <2> HIDE DEF cy
  <2> QED
    BY <1>1, <1>4, <2>2, <2>3, EndKeeps
<1> QED
  BY <1>8, <1>9

-----------------------------------------------------------------------------
(* The invariant.                                                          *)

LEMMA Initially == Init => IInv
<1> SUFFICES ASSUME Init PROVE IInv
  OBVIOUS
<1>1. /\ world \in Worlds /\ ctx = [c \in Contexts |-> Blank] /\ created = 0
      /\ hostName = NoHost /\ connected = FALSE
      /\ checks = [h \in Hosts |-> 0] /\ connecting = [h \in Hosts |-> 0]
      /\ read = [c \in Contexts |-> 0] /\ taken = [c \in Contexts |-> 0]
      /\ wrote = [c \in Contexts |-> <<>>] /\ crashed = FALSE
  BY DEF Init
<1>2. /\ Client \in Contexts /\ 1 \in Contexts /\ Servers \subseteq Contexts
      /\ None # Client /\ None \notin Servers
  BY SomeServer
<1>3. \A c \in Contexts : /\ ctx[c] = Blank /\ read[c] = 0 /\ taken[c] = 0
                          /\ wrote[c] = <<>>
  BY <1>1
<1>4. ContextTypes(world, ctx, created, checks, connecting, taken, wrote)
  <2>1. 0 \in 0..MaxServers
    BY ContextAssumption
  <2>2. <<>> \in Seq(Writes)
    OBVIOUS
  <2> QED
    BY <1>1, <2>1, <2>2, BlankIs DEF ContextTypes
<1>5. TypeOK
  <2>1. /\ ContextTypes(world, ctx, created, checks, connecting, taken, wrote)
        /\ hostName \in Hosts \cup {NoHost} /\ connected \in BOOLEAN
        /\ read \in [Contexts -> Nat] /\ crashed \in BOOLEAN
    BY <1>1, <1>4
  <2> QED
    BY <2>1 DEF TypeOK, ContextTypes, Writes
<1>6. Counters(world, created, read, taken)
  <2>1. Len(world.client) \in Nat /\ Len(world.server) \in Nat
    <3>1. world \in World
      BY <1>1, ContextAssumption
    <3>2. world.client \in Seq(Record) /\ world.server \in Seq(Record)
      BY <3>1 DEF World
    <3> QED
      BY <3>2, LenProperties
  <2>2. \A c \in Contexts : Len(IF c = Client THEN world.client ELSE world.server) \in Nat
    BY <2>1
  <2> QED
    BY <1>1, <1>2, <1>3, <2>2 DEF Counters
<1>7. \A c \in Contexts : Encrypts(Script(c), taken[c], ctx[c])
  BY <1>3, BlankIs DEF Encrypts
<1>8. Born(ctx, created, connected, checks, connecting, taken, wrote)
  <2>1. \A c \in Contexts : Unstarted(ctx[c], wrote[c], taken[c])
    BY <1>3, BlankIs DEF Unstarted
  <2> QED
    BY <1>1, <1>2, <1>3, <2>1 DEF Born
<1>9. \A c \in Contexts : Writer(ctx[c])
  BY <1>3, BlankIs
<1>10. Links(ctx, created, wrote)
  BY <1>2, <1>3, BlankIs DEF Links
<1>11. \A c \in Contexts : Untold(ctx[c], wrote[c])
  BY <1>3, BlankIs DEF Untold
<1>12. \A s \in Servers : ToServer(world.client, taken[Client], ctx[s], wrote[s])
  <2> SUFFICES ASSUME NEW s \in Servers
               PROVE  ToServer(world.client, taken[Client], ctx[s], wrote[s])
    OBVIOUS
  <2>1. ctx[s].paired # Client /\ Untold(ctx[s], wrote[s])
    BY <1>2, <1>3, <1>11, BlankIs
  <2> QED
    BY <2>1, ToServerUntold
<1>13. ToClient(world.server, taken[1], ctx[Client], wrote[Client])
  <2>1. Sent(ctx[Client], wrote[Client]) = <<>>
    BY <1>2, <1>11, NothingOut
  <2> QED
    BY <2>1 DEF ToClient
<1>14. Open(world, ctx, created, connected, checks, connecting, taken, wrote)
  BY <1>2, <1>3, BlankIs DEF Open
<1>15. Sound(world, ctx, created, connected, checks, connecting, taken, wrote)
  BY <1>4, <1>8, <1>9, <1>10, <1>12, <1>13, <1>14 DEF Sound
<1>16. CrashOnlyAfterStop
  BY <1>1 DEF CrashOnlyAfterStop
<1> QED
  BY <1>5, <1>6, <1>7, <1>15, <1>16 DEF IInv

LEMMA NextKeeps == IInv /\ [Next]_vars => IInv'
<1> SUFFICES ASSUME IInv, [Next]_vars PROVE IInv'
  OBVIOUS
<1>1. CASE HandleUserMessage
  BY <1>1, UserEmptyKeeps, UserEncryptedKeeps, UserBadKeeps, UserDataKeeps,
     UserFirstHelloKeeps DEF HandleUserMessage
<1>2. CASE HandleServerMessage
  BY <1>2, ServerDataKeeps, ServerBadKeeps DEF HandleServerMessage
<1>3. CASE \E c \in Contexts : ReadOn(c)
  BY <1>3, ReadOnKeeps
<1>4. CASE Accept
  BY <1>4, AcceptStep
<1>5. CASE \E c \in Contexts : Read(c)
  BY <1>5, ReadDoneKeeps, ReadEndsKeeps, ReadFailedKeeps DEF Read
<1>6. CASE \E c \in Contexts : Write(c)
  BY <1>6, WriteDoneKeeps, WriteFailedKeeps DEF Write
<1>7. CASE \E h \in Hosts : Connect(h)
  BY <1>7, CheckAnsweredKeeps, ConnectFailedKeeps, ConnectedKeeps DEF Connect
<1>8. CASE UNCHANGED vars
  <2>1. /\ world' = world /\ ctx' = ctx /\ created' = created /\ hostName' = hostName
        /\ connected' = connected /\ checks' = checks /\ connecting' = connecting
        /\ read' = read /\ taken' = taken /\ wrote' = wrote /\ crashed' = crashed
    BY <1>8 DEF vars
  <2>2. /\ Sound(world, ctx', created', connected', checks', connecting', taken', wrote')
        /\ hostName' \in Hosts \cup {NoHost} /\ connected' \in BOOLEAN
        /\ read' \in [Contexts -> Nat] /\ crashed' \in BOOLEAN
        /\ Counters(world, created', read', taken')
        /\ \A c \in Contexts : Encrypts(Script(c), taken'[c], ctx'[c])
        /\ crashed' => ctx'[Client].socket = "closed"
    BY <2>1 DEF IInv, TypeOK, CrashOnlyAfterStop
  <2> QED
    BY <2>1, <2>2, StepKeeps
<1> QED
  BY <1>1, <1>2, <1>3, <1>4, <1>5, <1>6, <1>7, <1>8 DEF Next, Loop

LEMMA Invariant == Spec => []IInv
BY Initially, NextKeeps, PTL DEF Spec

-----------------------------------------------------------------------------
(* A polite client: its records go to the host that was checked, and none  *)
(* follows a hello for another one.                                        *)

LEMMA AppendMatching ==
  ASSUME NEW cl, NEW hn, NEW q \in Seq(Nat), NEW i \in Nat, Matching(cl, hn, q)
  PROVE  /\ LastOnly(cl, hn, Append(q, i))
         /\ ~Mismatch(cl, hn, i) => Matching(cl, hn, Append(q, i))
<1>1. /\ Append(q, i) \in Seq(Nat) /\ Len(Append(q, i)) = Len(q) + 1 /\ Len(q) \in Nat
      /\ DOMAIN q = 1..Len(q) /\ DOMAIN Append(q, i) = 1..(Len(q) + 1)
      /\ \A k \in 1..(Len(q) + 1) : Append(q, i)[k] = IF k = Len(q) + 1 THEN i ELSE q[k]
  BY AppendProperties, LenProperties
<1>2. \A k \in 1..(Len(q) + 1) : k = Len(q) + 1 \/ k \in DOMAIN q
  BY <1>1
<1> QED
  BY <1>1, <1>2 DEF LastOnly, Matching

LEMMA ThinnedLast ==
  ASSUME NEW cl, NEW hn, NEW p, NEW q, Thinned(p, q)
  PROVE  /\ LastOnly(cl, hn, q) => LastOnly(cl, hn, p)
         /\ Matching(cl, hn, q) => Matching(cl, hn, p)
BY DEF Thinned, LastOnly, Matching

(* y sends what x does, to whom x does, unless it is closed.               *)
Alike(x, y) == /\ SameTasks(x, y) /\ y.remote = x.remote
               /\ \/ y.socket = x.socket
                  \/ x.socket # "none" /\ y.socket = "closed"

LEMMA AlikeAddressed ==
  ASSUME NEW hn, NEW cn, NEW x, NEW y, NEW w, Alike(x, y), Addressed(hn, cn, x, w)
  PROVE  Addressed(hn, cn, y, w) /\ Output(y, w) = Output(x, w)
BY DEF Alike, SameTasks, Addressed, Output

LEMMA WrittenCivil ==
  ASSUME NEW cl, NEW hn, NEW cn, NEW x \in Fields, NEW w \in Seq(Writes), Writer(x),
         Addressed(hn, cn, x, w), LastOnly(cl, hn, Output(x, w))
  PROVE  LET y == Written(x)
         IN /\ Addressed(hn, cn, y, w) /\ LastOnly(cl, hn, Output(y, w))
            /\ Matching(cl, hn, Output(x, w)) => Matching(cl, hn, Output(y, w))
<1> DEFINE y == Written(x)
<1>1. y \in Fields /\ SameButTasks(x, y)
  BY WrittenIs
<1>2. CASE y = x
  BY <1>2
<1>3. CASE /\ x.flying = <<>> /\ x.queue # <<>> /\ y.queue = Tail(x.queue)
           /\ x.socket = "closed" /\ y.flying = <<>>
  <2> HIDE DEF y
  <2>1. Thinned(Output(y, w), Output(x, w))
    BY <1>1, <1>3, OutputLost
  <2>2. Addressed(hn, cn, y, w)
    BY <1>1, <1>3 DEF Addressed, SameButTasks
  <2>3. /\ LastOnly(cl, hn, Output(y, w))
        /\ Matching(cl, hn, Output(x, w)) => Matching(cl, hn, Output(y, w))
    BY <2>1, ThinnedLast
  <2> QED
    BY <2>2, <2>3 DEF y
<1>4. CASE /\ x.flying = <<>> /\ x.queue # <<>> /\ y.queue = Tail(x.queue)
           /\ x.socket = "open"
           /\ \E e \in Writes : y.flying = <<e>> /\ e.rec = Head(x.queue) /\ e.to = x.remote
  <2> HIDE DEF y
  <2>1. PICK e \in Writes : y.flying = <<e>> /\ e.rec = Head(x.queue) /\ e.to = x.remote
    BY <1>4
  <2>2. Output(y, w) = Output(x, w)
    BY <1>1, <1>4, <2>1, OutputTaken
  <2>3. \A k \in DOMAIN y.flying : y.flying[k] = e
    <3>1. DOMAIN <<e>> = {1} /\ <<e>>[1] = e
      OBVIOUS
    <3> QED
      BY <2>1, <3>1
  <2>4. Addressed(hn, cn, y, w)
    BY <1>1, <1>4, <2>1, <2>3 DEF Addressed, SameButTasks
  <2> QED
    BY <2>2, <2>4 DEF y
<1> QED
  BY <1>2, <1>3, <1>4, WrittenIs

LEMMA DoneCivil ==
  ASSUME NEW hn, NEW cn, NEW x \in Fields, NEW y \in Fields, NEW w \in Seq(Writes),
         NEW e \in Writes, Addressed(hn, cn, x, w),
         x.flying = <<e>>, y.flying = <<>>, y.queue = x.queue, SameButTasks(x, y)
  PROVE  /\ Addressed(hn, cn, y, Append(w, e))
         /\ Output(y, Append(w, e)) = Output(x, w)
<1>1. Output(y, Append(w, e)) = Output(x, w)
  BY OutputDone
<1>2. 1 \in DOMAIN <<e>> /\ <<e>>[1] = e /\ DOMAIN <<>> = {}
  OBVIOUS
<1>3. e.to = hn
  BY <1>2 DEF Addressed
<1>4. /\ Len(w) \in Nat /\ DOMAIN w = 1..Len(w)
      /\ DOMAIN Append(w, e) = 1..(Len(w) + 1)
      /\ \A k \in 1..(Len(w) + 1) : Append(w, e)[k] = IF k = Len(w) + 1 THEN e ELSE w[k]
  BY AppendProperties, LenProperties
<1>5. \A k \in 1..(Len(w) + 1) : k = Len(w) + 1 \/ k \in DOMAIN w
  BY <1>4
<1>6. \A k \in DOMAIN Append(w, e) : Append(w, e)[k].to = hn
  BY <1>3, <1>4, <1>5 DEF Addressed
<1> QED
  BY <1>1, <1>2, <1>6 DEF Addressed, SameButTasks

-----------------------------------------------------------------------------
(* The methods, with a polite client.                                      *)

LEMMA CivilAlike ==
  ASSUME NEW cl, NEW hn, NEW cn, NEW cx, NEW wr, NEW v, Civil(cl, hn, cn, cx, wr, v),
         NEW cy \in [Contexts -> Fields], \A c \in Contexts : Writer(cy[c]),
         NEW wy \in [Contexts -> Seq(Writes)], \A s \in Servers : wy[s] = wr[s],
         \A s \in Servers : Alike(cx[s], cy[s]),
         cy[Client].paired \in {None, cx[Client].paired}
  PROVE  Civil(cl, hn, cn, cy, wy, v)
<1> SUFFICES ASSUME NEW s \in Servers
             PROVE  /\ Addressed(hn, cn, cy[s], wy[s])
                    /\ LastOnly(cl, hn, Output(cy[s], wy[s]))
                    /\ Dead(cy, s) \/ s = v \/ Matching(cl, hn, Output(cy[s], wy[s]))
  BY DEF Civil
<1>1. /\ Addressed(hn, cn, cx[s], wr[s]) /\ LastOnly(cl, hn, Output(cx[s], wr[s]))
      /\ Dead(cx, s) \/ s = v \/ Matching(cl, hn, Output(cx[s], wr[s]))
  BY DEF Civil
<1>2. Addressed(hn, cn, cy[s], wy[s]) /\ Output(cy[s], wy[s]) = Output(cx[s], wr[s])
  <2> DEFINE x == cx[s]
             y == cy[s]
             w == wr[s]
  <2>1. Alike(x, y) /\ Addressed(hn, cn, x, w) /\ wy[s] = w
    BY <1>1
  <2> HIDE DEF x, y, w
  <2>2. Addressed(hn, cn, y, w) /\ Output(y, w) = Output(x, w)
    BY ONLY <2>1, AlikeAddressed
  <2> QED
    BY <2>1, <2>2 DEF x, y, w
<1>3. s # None
  BY SomeServer
<1>4. Dead(cx, s) => Dead(cy, s)
  BY <1>3 DEF Dead, Alike
<1> QED
  BY <1>1, <1>2, <1>4

LEMMA CivilStop ==
  ASSUME NEW cl, NEW hn, NEW cn, NEW cx, NEW wr, NEW v, Civil(cl, hn, cn, cx, wr, v),
         NEW c \in Contexts, v = None \/ (c = Client /\ v = cx[Client].paired)
  PROVE  Civil(cl, hn, cn, Stop(cx, c), wr, None)
<1> DEFINE cy == Stop(cx, c)
<1>1. /\ cx \in [Contexts -> Fields] /\ wr \in [Contexts -> Seq(Writes)]
      /\ \A d \in Contexts : Writer(cx[d])
  BY DEF Civil
<1>2. /\ cy \in [Contexts -> Fields]
      /\ \A d \in Contexts : cy[d] = IF d \in {c, cx[c].paired} THEN Closed(cx[d]) ELSE cx[d]
  BY <1>1, StopIs
<1> HIDE DEF cy
<1>3. \A d \in Contexts : /\ SameTasks(cx[d], Closed(cx[d]))
                          /\ Closed(cx[d]).remote = cx[d].remote
                          /\ Closed(cx[d]).paired = None
                          /\ Closed(cx[d]).socket =
                               IF cx[d].socket = "none" THEN "none" ELSE "closed"
  BY <1>1, ClosedIs
<1>4. \A d \in Contexts : Alike(cx[d], cy[d])
  BY <1>2, <1>3 DEF Alike, SameTasks
<1>5. \A d \in Contexts : Writer(cy[d])
  BY <1>1, <1>4 DEF Writer, Alike, SameTasks
<1>6. cy[Client].paired \in {None, cx[Client].paired}
  BY <1>2, <1>3, SomeServer
<1>7. Civil(cl, hn, cn, cy, wr, v)
  <2>1. \A s \in Servers : Alike(cx[s], cy[s])
    BY <1>4, SomeServer
  <2> QED
    BY <1>1, <1>2, <1>5, <1>6, <2>1, CivilAlike
<1>8. ASSUME NEW s \in Servers, s = v PROVE Dead(cy, s)
  <2>1. c = Client /\ s = cx[Client].paired /\ s \in Contexts /\ s # None
    BY <1>8, SomeServer
  <2>2. cy[s] = Closed(cx[s]) /\ cy[Client] = Closed(cx[Client])
    BY <1>2, <2>1
  <2> QED
    BY <1>3, <2>1, <2>2 DEF Dead
<1>9. Civil(cl, hn, cn, cy, wr, None)
  BY <1>7, <1>8 DEF Civil
<1> QED
  BY <1>9 DEF cy

LEMMA CivilRelease ==
  ASSUME NEW cl, NEW hn, NEW cn, NEW cx, NEW wr, NEW waiting,
         Civil(cl, hn, cn, cx, wr, None)
  PROVE  Civil(cl, hn, cn, Release(cx, waiting), wr, None)
<1>1. Release(cx, waiting) = cx \/ Release(cx, waiting) = Stop(cx, Client)
  BY DEF Release
<1> QED
  BY <1>1, CivilStop, SomeServer

(* One server context changes what it has to send.                         *)
LEMMA CivilServer ==
  ASSUME NEW cl, NEW hn, NEW cn, NEW cx, NEW wr, NEW v, Civil(cl, hn, cn, cx, wr, None),
         NEW s \in Servers, v \in {None, s},
         NEW cy \in [Contexts -> Fields], \A d \in Contexts \ {s} : cy[d] = cx[d],
         NEW wy \in [Contexts -> Seq(Writes)], \A d \in Contexts \ {s} : wy[d] = wr[d],
         Writer(cy[s]), Addressed(hn, cn, cy[s], wy[s]),
         LastOnly(cl, hn, Output(cy[s], wy[s])),
         Dead(cy, s) \/ s = v \/ Matching(cl, hn, Output(cy[s], wy[s]))
  PROVE  Civil(cl, hn, cn, cy, wy, v)
<1>1. /\ \A d \in Contexts : Writer(cy[d])
      /\ cy[Client] = cx[Client]
      /\ \A d \in Servers : d # s => cy[d] = cx[d] /\ wy[d] = wr[d]
  BY SomeServer DEF Civil
<1>2. \A d \in Servers : d # None
  BY SomeServer
<1> QED
  BY <1>1, <1>2 DEF Civil, Dead

LEMMA CivilMore ==
  ASSUME NEW cl, NEW hn, NEW cn, NEW cx, NEW wr, NEW v, Civil(cl, hn, cn, cx, wr, None),
         NEW cm, cn => cm
  PROVE  Civil(cl, hn, cm, cx, wr, v)
BY SomeServer DEF Civil, Addressed

LEMMA CivilQueue ==
  ASSUME NEW cl, NEW hn, NEW cn, NEW cx, NEW wr, Civil(cl, hn, cn, cx, wr, None),
         NEW s \in Servers, cx[Client].paired = s, NEW i \in Nat,
         NEW v \in {None, s}, v = s \/ ~Mismatch(cl, hn, i)
  PROVE  Civil(cl, hn, cn, Queue(cx, s, Client, i), wr, v)
<1> DEFINE cy == Queue(cx, s, Client, i)
           x  == cx[s]
           y  == Appended(x, i)
           z  == Written(y)
           w  == wr[s]
<1>1. /\ cx \in [Contexts -> Fields] /\ wr \in [Contexts -> Seq(Writes)]
      /\ s \in Contexts /\ s # None /\ x \in Fields /\ Writer(x) /\ w \in Seq(Writes)
  BY SomeServer DEF Civil
<1>2. /\ Addressed(hn, cn, x, w) /\ Matching(cl, hn, Output(x, w))
  BY <1>1 DEF Civil, Dead
<1>3. CASE x.paired # Client
  <2>1. cy = cx
    BY <1>3 DEF Queue
  <2> QED
    BY <2>1, CivilMore
<1>4. CASE x.paired = Client
  <2>1. /\ cy \in [Contexts -> Fields] /\ cy[s] = z
        /\ \A d \in Contexts \ {s} : cy[d] = cx[d]
    <3>1. cx \in [Contexts -> Fields] /\ s \in Contexts /\ Writer(cx[s])
      BY <1>1
    <3> QED
      BY <1>4, <3>1, QueueIs
  <2>2. /\ y \in Fields /\ Writer(y) /\ SameButTasks(x, y)
        /\ y.queue = Append(x.queue, i) /\ y.flying = x.flying
    BY <1>1, AppendedIs
  <2> HIDE DEF cy, x, y, z, w
  <2>3. Addressed(hn, cn, y, w)
    BY <1>2, <2>2 DEF Addressed, SameButTasks
  <2>4. Output(y, w) = Append(Output(x, w), i) /\ Output(x, w) \in Seq(Nat)
    BY <1>1, <2>2, OutputAppended, OutputOf
  <2>5. /\ LastOnly(cl, hn, Output(y, w))
        /\ ~Mismatch(cl, hn, i) => Matching(cl, hn, Output(y, w))
    BY <1>2, <2>4, AppendMatching
  <2>6. /\ Addressed(hn, cn, z, w) /\ LastOnly(cl, hn, Output(z, w))
        /\ Matching(cl, hn, Output(y, w)) => Matching(cl, hn, Output(z, w))
    BY <1>1, <2>2, <2>3, <2>5, WrittenCivil DEF z
  <2>7. z \in Fields /\ Writer(z)
    BY <2>2, WrittenIs DEF z
  <2>8. /\ Writer(cy[s]) /\ Addressed(hn, cn, cy[s], wr[s])
        /\ LastOnly(cl, hn, Output(cy[s], wr[s]))
        /\ s = v \/ Matching(cl, hn, Output(cy[s], wr[s]))
    BY <2>1, <2>5, <2>6, <2>7 DEF w
  <2>9. Civil(cl, hn, cn, cy, wr, v)
    <3>1. /\ Civil(cl, hn, cn, cx, wr, None) /\ s \in Servers /\ v \in {None, s}
          /\ Dead(cy, s) \/ s = v \/ Matching(cl, hn, Output(cy[s], wr[s]))
          /\ \A d \in Contexts \ {s} : wr[d] = wr[d]
      BY <2>8
    <3> QED
      BY ONLY <1>1, <2>1, <2>8, <3>1, CivilServer
  <2> QED
    BY <2>9 DEF cy
<1> QED
  BY <1>3, <1>4

LEMMA CivilStart ==
  ASSUME NEW cl, NEW hn \in Hosts \cup {NoHost}, NEW cn, NEW cx, NEW wr,
         Civil(cl, hn, cn, cx, wr, None), cn,
         NEW s \in Servers, cx[Client].paired = s
  PROVE  Civil(cl, hn, cn, Start(cx, s, hn), wr, None)
<1> DEFINE cy == Start(cx, s, hn)
           x  == cx[s]
           y  == Opened(x, hn)
           z  == Written(y)
           w  == wr[s]
<1>1. /\ cx \in [Contexts -> Fields] /\ wr \in [Contexts -> Seq(Writes)]
      /\ s \in Contexts /\ s # None /\ x \in Fields /\ Writer(x) /\ w \in Seq(Writes)
  BY SomeServer DEF Civil
<1>2. Addressed(hn, cn, x, w) /\ Matching(cl, hn, Output(x, w))
  BY <1>1 DEF Civil, Dead
<1>3. /\ cy \in [Contexts -> Fields] /\ cy[s] = z
      /\ \A d \in Contexts \ {s} : cy[d] = cx[d]
  BY ONLY <1>1, hn \in Hosts \cup {NoHost}, StartIs DEF cy, x, y, z
<1>4. /\ y \in Fields /\ SameTasks(x, y) /\ y.socket = "open" /\ y.remote = hn
  BY <1>1, OpenedIs
<1> HIDE DEF cy, x, y, z, w
<1>5. Writer(y) /\ Output(y, w) = Output(x, w)
  BY <1>1, <1>4 DEF Writer, SameTasks, Output
<1>6. Addressed(hn, cn, y, w)
  BY <1>2, <1>4 DEF Addressed, SameTasks
<1>7. Matching(cl, hn, Output(y, w)) /\ LastOnly(cl, hn, Output(y, w))
  BY <1>2, <1>5 DEF Matching, LastOnly
<1>8. /\ Addressed(hn, cn, z, w) /\ LastOnly(cl, hn, Output(z, w))
      /\ Matching(cl, hn, Output(z, w))
  BY <1>1, <1>4, <1>5, <1>6, <1>7, WrittenCivil DEF z
<1>9. z \in Fields /\ Writer(z)
  BY <1>4, <1>5, WrittenIs DEF z
<1>10. /\ Writer(cy[s]) /\ Addressed(hn, cn, cy[s], wr[s])
       /\ LastOnly(cl, hn, Output(cy[s], wr[s]))
       /\ Matching(cl, hn, Output(cy[s], wr[s]))
  BY <1>3, <1>8, <1>9 DEF w
<1>11. Civil(cl, hn, cn, cy, wr, None)
  BY <1>1, <1>3, <1>10, CivilServer
<1> QED
  BY <1>11 DEF cy

LEMMA CivilDone ==
  ASSUME NEW cl, NEW hn, NEW cn, NEW cx, NEW wr, Civil(cl, hn, cn, cx, wr, None),
         NEW c \in Contexts, NEW y \in Fields, Finished(cx[c], y),
         NEW wy, Delivers(wr, wy, c, cx[c])
  PROVE  Civil(cl, hn, cn, DoWrite(With(cx, c, y), c), wy, None)
<1> DEFINE cz == With(cx, c, y)
           cy == DoWrite(cz, c)
           x  == cx[c]
           e  == x.flying[1]
           z  == Written(y)
<1>1. /\ cx \in [Contexts -> Fields] /\ wr \in [Contexts -> Seq(Writes)]
      /\ x \in Fields /\ Writer(x) /\ wr[c] \in Seq(Writes)
  BY DEF Civil
<1>2. /\ SameButTasks(x, y) /\ y.flying = <<>> /\ ~y.writing /\ y.queue = x.queue
      /\ x.flying # <<>>
  BY DEF Finished, Delivers
<1>3. e \in Writes /\ x.flying = <<e>>
  BY <1>1, <1>2, FlyingOne
<1>4. /\ wy \in [Contexts -> Seq(Writes)] /\ wy[c] = Append(wr[c], e)
      /\ \A d \in Contexts \ {c} : wy[d] = wr[d]
  <2>1. Append(wr[c], e) \in Seq(Writes)
    BY <1>1, <1>3
  <2> QED
    BY <1>1, <2>1 DEF Delivers
<1>5. Writer(y)
  <2>1. Len(y.flying) <= 1
    BY <1>2
  <2> QED
    BY <1>2, <2>1 DEF Writer
<1>6. z \in Fields /\ Writer(z) /\ SameButTasks(y, z)
  BY <1>5, WrittenIs
<1>7. /\ cy \in [Contexts -> Fields] /\ cy[c] = z
      /\ \A d \in Contexts \ {c} : cy[d] = cx[d]
  <2>1. /\ cz \in [Contexts -> Fields] /\ cz[c] = y
        /\ \A d \in Contexts \ {c} : cz[d] = cx[d]
    <3>1. cx \in [Contexts -> Fields]
      BY <1>1
    <3> QED
      BY <3>1, WithIs
  <2> HIDE DEF cz
  <2>2. /\ DoWrite(cz, c) \in [Contexts -> Fields]
        /\ DoWrite(cz, c)[c] = Written(cz[c])
        /\ \A d \in Contexts \ {c} : DoWrite(cz, c)[d] = cz[d]
    BY <1>5, <2>1, DoWriteIs
  <2> QED
    BY <2>1, <2>2
<1> HIDE DEF cz, cy, e, z
<1>8. CASE c \in Servers
  <2>1. /\ Addressed(hn, cn, x, wr[c]) /\ LastOnly(cl, hn, Output(x, wr[c]))
        /\ Dead(cx, c) \/ Matching(cl, hn, Output(x, wr[c]))
    BY <1>8, SomeServer DEF Civil
  <2> HIDE DEF x
  <2>2. /\ Addressed(hn, cn, y, Append(wr[c], e))
        /\ Output(y, Append(wr[c], e)) = Output(x, wr[c])
    BY <1>1, <1>2, <1>3, <2>1, DoneCivil
  <2>3. wy[c] \in Seq(Writes)
    BY <1>4
  <2>4. /\ Addressed(hn, cn, z, wy[c]) /\ LastOnly(cl, hn, Output(z, wy[c]))
        /\ Dead(cx, c) \/ Matching(cl, hn, Output(z, wy[c]))
    BY <1>4, <1>5, <2>1, <2>2, <2>3, WrittenCivil DEF z
  <2>5. Dead(cx, c) => Dead(cy, c)
    <3>1. cy[Client] = cx[Client]
      BY <1>7, <1>8, SomeServer
    <3>2. z.socket = x.socket
      BY <1>2, <1>6 DEF SameButTasks
    <3> QED
      BY <1>7, <3>1, <3>2 DEF Dead, x
  <2>6. /\ Writer(cy[c]) /\ Addressed(hn, cn, cy[c], wy[c])
        /\ LastOnly(cl, hn, Output(cy[c], wy[c]))
        /\ Dead(cy, c) \/ Matching(cl, hn, Output(cy[c], wy[c]))
    BY <1>6, <1>7, <2>4, <2>5
  <2>7. Civil(cl, hn, cn, cy, wy, None)
    BY <1>4, <1>7, <1>8, <2>6, CivilServer
  <2> QED
    BY <2>7 DEF cy, cz
<1>9. CASE c = Client
  <2>1. \A s \in Servers : cy[s] = cx[s] /\ wy[s] = wr[s]
    BY <1>4, <1>7, <1>9, SomeServer
  <2>2. \A s \in Servers : Alike(cx[s], cy[s])
    BY <2>1 DEF Alike, SameTasks
  <2>3. cy[Client].paired = cx[Client].paired
    BY <1>2, <1>6, <1>7, <1>9 DEF SameButTasks
  <2>4. \A d \in Contexts : Writer(cy[d])
    BY <1>6, <1>7 DEF Civil
  <2>5. Civil(cl, hn, cn, cy, wy, None)
    BY <1>4, <1>7, <2>1, <2>2, <2>3, <2>4, CivilAlike
  <2> QED
    BY <2>5 DEF cy, cz
<1> QED
  BY <1>8, <1>9, SomeServer

LEMMA CivilFailed ==
  ASSUME NEW cl, NEW hn, NEW cn, NEW cx, NEW wr, Civil(cl, hn, cn, cx, wr, None),
         NEW c \in Contexts, cx[c].flying # <<>>,
         NEW y \in Fields, SameButTasks(cx[c], y),
         y.flying = <<>>, y.queue = cx[c].queue
  PROVE  Civil(cl, hn, cn, With(cx, c, y), wr, None)
<1> DEFINE cy == With(cx, c, y)
           x  == cx[c]
           e  == x.flying[1]
<1>1. /\ cx \in [Contexts -> Fields] /\ wr \in [Contexts -> Seq(Writes)]
      /\ x \in Fields /\ Writer(x) /\ wr[c] \in Seq(Writes)
  BY DEF Civil
<1>2. e \in Writes /\ x.flying = <<e>>
  BY <1>1, FlyingOne
<1>3. /\ cy \in [Contexts -> Fields] /\ cy[c] = y
      /\ \A d \in Contexts \ {c} : cy[d] = cx[d]
  BY ONLY <1>1, c \in Contexts, y \in Fields DEF cy, With
<1> HIDE DEF cy, e
<1>4. Writer(y)
  <2>1. Len(y.flying) <= 1
    OBVIOUS
  <2> QED
    BY <2>1 DEF Writer
<1>5. CASE c \in Servers
  <2>1. /\ Addressed(hn, cn, x, wr[c]) /\ LastOnly(cl, hn, Output(x, wr[c]))
        /\ Dead(cx, c) \/ Matching(cl, hn, Output(x, wr[c]))
    BY <1>5, SomeServer DEF Civil
  <2>2. Thinned(Output(y, wr[c]), Output(x, wr[c]))
    BY <1>1, <1>2, OutputFailed
  <2>3. /\ LastOnly(cl, hn, Output(y, wr[c]))
        /\ Dead(cx, c) \/ Matching(cl, hn, Output(y, wr[c]))
    BY <2>1, <2>2, ThinnedLast
  <2>4. DOMAIN <<>> = {}
    OBVIOUS
  <2>5. Addressed(hn, cn, y, wr[c])
    BY <2>1, <2>4 DEF Addressed, SameButTasks
  <2>6. Dead(cx, c) => Dead(cy, c)
    <3>1. cy[Client] = cx[Client]
      BY <1>3, <1>5, SomeServer
    <3> QED
      BY <1>3, <3>1 DEF Dead, SameButTasks
  <2>7. Civil(cl, hn, cn, cy, wr, None)
    BY <1>1, <1>3, <1>4, <1>5, <2>3, <2>5, <2>6, CivilServer
  <2> QED
    BY <2>7 DEF cy
<1>6. CASE c = Client
  <2>1. \A s \in Servers : cy[s] = cx[s]
    BY <1>3, <1>6, SomeServer
  <2>2. \A s \in Servers : Alike(cx[s], cy[s])
    BY <2>1 DEF Alike, SameTasks
  <2>3. cy[Client].paired = cx[Client].paired
    BY <1>3, <1>6 DEF SameButTasks
  <2>4. \A d \in Contexts : Writer(cy[d])
    BY <1>3, <1>4 DEF Civil
  <2>5. Civil(cl, hn, cn, cy, wr, None)
    BY <1>1, <1>3, <2>1, <2>2, <2>3, <2>4, CivilAlike
  <2> QED
    BY <2>5 DEF cy
<1> QED
  BY <1>5, <1>6, SomeServer

-----------------------------------------------------------------------------
(* The handlers of the records, with a polite client.                      *)

LEMMA CivilPaired ==
  ASSUME IInv, NEW kinds, Given(Client, kinds), Create,
         NEW cl, NEW hn, NEW cn, Civil(cl, hn, cn, ctx, wrote, None)
  PROVE  Civil(cl, hn, cn, Paired, wrote, None)
<1>1. /\ Paired[Client].paired \in Servers /\ Paired \in [Contexts -> Fields]
      /\ Sound(world, Paired, created', connected, checks, connecting, taken, wrote)
  BY PairedStep
<1>2. /\ Client \in Contexts /\ Servers \subseteq Contexts /\ Client \notin Servers
      /\ \A d \in Servers : d # None
  BY SomeServer
<1>3. CASE ctx[Client].paired # None
  <2>1. Paired = ctx
    BY <1>3 DEF Paired
  <2> QED
    BY <2>1
<1>4. CASE ctx[Client].paired = None
  <2> DEFINE s == Fresh
             y == [ctx[Client] EXCEPT !.paired = s]
  <2>1. ctx \in [Contexts -> Fields] /\ ctx[Client] \in Fields
    BY <1>2 DEF Civil
  <2>2. y.paired = s
    BY <2>1 DEF Fields
  <2>3. Paired = [ctx EXCEPT ![Client] = y]
    BY <1>4 DEF Paired, Pair, With
  <2> HIDE DEF y, s
  <2>4. Paired[Client].paired = s /\ \A d \in Servers : Paired[d] = ctx[d]
    BY <1>2, <2>1, <2>2, <2>3
  <2>5. s \in Servers
    BY <1>1, <2>4
  <2>6. ctx[s] = Blank /\ wrote[s] = <<>>
    <3>1. s > created
      BY DEF s, Fresh, IInv, TypeOK
    <3> QED
      BY <2>5, <3>1 DEF IInv, Sound, Born
  <2>7. Untold(ctx[s], wrote[s])
    BY <2>6, BlankIs DEF Untold
  <2>8. Output(ctx[s], wrote[s]) = <<>> /\ DOMAIN <<>> = {}
    <3> DEFINE x == ctx[s]
               w == wrote[s]
    <3>1. x \in Fields /\ w \in Seq(Writes) /\ Untold(x, w)
      BY <1>2, <2>1, <2>5, <2>7 DEF Civil
    <3> HIDE DEF x, w
    <3>2. Output(x, w) = <<>>
      BY ONLY <3>1, NothingOut
    <3> QED
      BY <3>2 DEF x, w
  <2>9. Matching(cl, hn, Output(ctx[s], wrote[s]))
    BY <2>8 DEF Matching
  <2>10. \A d \in Contexts : Writer(Paired[d])
    BY <1>1 DEF Sound
  <2>11. \A d \in Servers : d # s /\ Dead(ctx, d) => Dead(Paired, d)
    BY <2>4 DEF Dead
  <2> QED
    BY <1>1, <1>2, <2>4, <2>9, <2>10, <2>11 DEF Civil
<1> QED
  BY <1>3, <1>4

(* What the client has been sent.                                          *)
LEMMA ClientWasSent ==
  ASSUME IInv, NEW i \in DOMAIN wrote[Client]
  PROVE  wrote[Client][i].rec = i /\ i <= taken[1] /\ ~Bad(serverScript, i)
<1>1. Client \in Contexts /\ 1 \in Contexts
  BY SomeServer
<1>2. /\ ctx[Client] \in Fields /\ wrote[Client] \in Seq(Writes) /\ taken[1] \in Nat
  BY <1>1 DEF IInv, TypeOK, Writes
<1> DEFINE a == Records(wrote[Client])
           b == Records(ctx[Client].flying)
<1>3. a \in Seq(Nat) /\ b \in Seq(Nat)
  BY <1>2, OutputOf
<1>4. \A k \in DOMAIN (a \o b) :
        (a \o b)[k] = k /\ k <= taken[1] /\ ~Bad(serverScript, k)
  BY DEF IInv, Sound, ToClient, Sent, serverScript
<1>5. /\ DOMAIN a = 1..Len(wrote[Client])
      /\ \A k \in 1..Len(wrote[Client]) : a[k] = wrote[Client][k].rec
      /\ DOMAIN wrote[Client] = 1..Len(wrote[Client])
  BY <1>2, RecordsOf, LenProperties
<1> HIDE DEF a, b
<1>6. \A k \in DOMAIN a : a[k] = k /\ k <= taken[1] /\ ~Bad(serverScript, k)
  BY <1>2, <1>3, <1>4, ToClientPrefix
<1> QED
  BY <1>5, <1>6

LEMMA CivilHello ==
  ASSUME IInv, UserHello,
         NEW cl, NEW hn, NEW cn, Civil(cl, hn, cn, ctx, wrote, None),
         NEW v \in {None, Paired[Client].paired},
         v = Paired[Client].paired \/ ~Mismatch(cl, hn, taken'[Client])
  PROVE  /\ Civil(cl, hn, cn, HelloQueued, wrote, v)
         /\ HelloQueued[Client].paired = Paired[Client].paired
<1> DEFINE s  == Paired[Client].paired
           x  == Paired[s]
           y  == [x EXCEPT !.paired = Client]
           cx == Pair(Paired, s, Client)
           i  == taken[Client] + 1
           cy == Queue(cx, s, Client, i)
<1>1. Given(Client, {"hello"}) /\ Create
  BY DEF UserHello
<1>2. /\ Client \in Contexts /\ Servers \subseteq Contexts /\ Client \notin Servers
      /\ \A d \in Servers : d # None
  BY SomeServer
<1>3. i \in Nat /\ i = taken'[Client]
  BY <1>1, <1>2, GivenIs
<1>4. /\ s \in Servers /\ s \in Contexts /\ s # Client
      /\ Paired \in [Contexts -> Fields] /\ x \in Fields
  BY <1>1, <1>2, PairedStep
<1>5. Civil(cl, hn, cn, Paired, wrote, None)
  BY <1>1, CivilPaired
<1>6. /\ y \in Fields /\ Alike(x, y)
  <2> HIDE DEF x
  <2> QED
    BY <1>2, <1>4 DEF Fields, SameTasks, Alike
<1> HIDE DEF y
<1>7. /\ cx \in [Contexts -> Fields] /\ cx[s] = y
      /\ \A d \in Contexts \ {s} : cx[d] = Paired[d]
  <2>1. cx = With(Paired, s, y)
    BY DEF Pair, y
  <2> HIDE DEF cx, s
  <2> QED
    BY <1>4, <1>6, <2>1, WithIs
<1> HIDE DEF cx, cy
<1>8. cx[Client] = Paired[Client] /\ cx[Client].paired = s
  BY <1>2, <1>4, <1>7
<1>9. Civil(cl, hn, cn, cx, wrote, None)
  <2>1. \A d \in Contexts : Alike(Paired[d], cx[d])
    <3>1. \A d \in Contexts : cx[d] = Paired[d] => Alike(Paired[d], cx[d])
      BY DEF Alike, SameTasks
    <3> QED
      BY <1>6, <1>7, <3>1 DEF x
  <2>2. \A d \in Contexts : Writer(cx[d])
    BY <1>5, <2>1 DEF Civil, Writer, Alike, SameTasks
  <2>3. /\ \A d \in Servers : Alike(Paired[d], cx[d]) /\ wrote[d] = wrote[d]
        /\ cx[Client].paired \in {None, Paired[Client].paired}
        /\ wrote \in [Contexts -> Seq(Writes)]
    BY <1>2, <1>5, <1>8, <2>1 DEF Civil
  <2> QED
    BY <1>5, <1>7, <2>2, <2>3, CivilAlike
<1>10. Civil(cl, hn, cn, Queue(cx, s, Client, i), wrote, v)
  <2>1. v \in {None, s} /\ (v = s \/ ~Mismatch(cl, hn, i))
    BY <1>3
  <2> HIDE DEF s, i
  <2> QED
    BY <1>3, <1>4, <1>8, <1>9, <2>1, CivilQueue
<1>11. cy[Client] = cx[Client]
  <2>1. Writer(cx[s])
    BY <1>4, <1>9 DEF Civil
  <2> HIDE DEF s, i
  <2>2. \A e \in Contexts \ {s} : Queue(cx, s, Client, i)[e] = cx[e]
    BY <1>3, <1>4, <1>7, <2>1, QueueIs
  <2> QED
    BY <1>2, <1>4, <2>2 DEF cy
<1>12. HelloQueued = cy
  BY DEF HelloQueued, cy, cx
<1> QED
  BY <1>8, <1>10, <1>11, <1>12 DEF cy

(* Before anything was connected the client has sent no second hello.      *)
LEMMA FirstHello ==
  ASSUME IInv, UserHello, ~connected,
         Spaced(clientScript, read[Client], wrote[Client]),
         Civil(clientScript, hostName, connected, ctx, wrote, None),
         NEW j \in 1..taken[Client]
  PROVE  ~Hello(clientScript, j)
<1> SUFFICES ASSUME Hello(clientScript, j) PROVE FALSE
  OBVIOUS
<1> DEFINE i == taken[Client] + 1
<1>1. Client \in Contexts /\ 1 \in Contexts /\ 1 \in Servers
  BY SomeServer
<1>2. Given(Client, {"hello"})
  BY DEF UserHello
<1>3. /\ taken[Client] \in Nat /\ taken'[Client] = i /\ i <= read[Client]
      /\ Script(Client)[taken'[Client]].kind \in {"hello"}
  BY <1>1, <1>2, GivenIs
<1>4. Hello(clientScript, i)
  BY <1>3 DEF Hello, Script
<1>5. i \in 1..read[Client] /\ j \in 1..(i - 1)
  BY <1>1, <1>3 DEF IInv, TypeOK
<1>6. wrote[Client] # <<>>
  BY <1>4, <1>5 DEF Spaced
<1>7. wrote[Client] \in Seq(Writes) /\ taken[1] \in Nat
  BY <1>1 DEF IInv, TypeOK, Writes
<1>8. 1 \in DOMAIN wrote[Client]
  BY <1>6, <1>7, EmptySeq, LenProperties
<1>9. taken[1] # 0
  BY <1>7, <1>8, ClientWasSent
<1>10. Unstarted(ctx[1], wrote[1], taken[1])
  BY <1>1 DEF IInv, Sound, Born
<1>11. ctx[1].socket # "none"
  BY <1>9, <1>10 DEF Unstarted
<1>12. Addressed(hostName, connected, ctx[1], wrote[1])
  BY <1>1 DEF Civil
<1> QED
  BY <1>11, <1>12 DEF Addressed

(* Then the host may still be chosen.                                      *)
LEMMA CivilFresh ==
  ASSUME IInv, ~connected, \A j \in 1..taken[Client] : ~Hello(clientScript, j),
         Civil(clientScript, hostName, connected, ctx, wrote, None), NEW hn
  PROVE  Civil(clientScript, hn, connected, ctx, wrote, None)
<1> SUFFICES ASSUME NEW s \in Servers
             PROVE  /\ Addressed(hn, connected, ctx[s], wrote[s])
                    /\ LastOnly(clientScript, hn, Output(ctx[s], wrote[s]))
                    /\ Matching(clientScript, hn, Output(ctx[s], wrote[s]))
  BY DEF Civil
<1> DEFINE x == ctx[s]
           w == wrote[s]
<1>1. s \in Contexts /\ x \in Fields /\ w \in Seq(Writes)
  BY SomeServer DEF Civil
<1>2. Unstarted(x, w, taken[s])
  BY <1>1 DEF IInv, Sound, Born
<1>3. Addressed(hostName, connected, x, w)
  BY DEF Civil
<1>4. ToServer(clientScript, taken[Client], x, w)
  BY DEF IInv, Sound, clientScript
<1> HIDE DEF x, w
<1>5. x.socket = "none" /\ x.flying = <<>> /\ ~x.writing /\ w = <<>>
  BY <1>2, <1>3 DEF Unstarted, Addressed
<1>6. DOMAIN <<>> = {}
  OBVIOUS
<1>7. Addressed(hn, connected, x, w)
  BY <1>5, <1>6 DEF Addressed
<1>8. Output(x, w) = <<>>
  <2> DEFINE q == Output(x, w)
  <2> SUFFICES ASSUME q # <<>> PROVE FALSE
    OBVIOUS
  <2>1. Relayed(clientScript, q, taken[Client])
    BY <1>4, <1>5 DEF ToServer, Jammed
  <2>2. q \in Seq(Nat)
    BY <1>1, OutputOf
  <2> HIDE DEF q
  <2>3. 1 \in DOMAIN q
    BY <2>2, EmptySeq, LenProperties
  <2> QED
    BY <2>1, <2>3 DEF Relayed
<1>9. Matching(clientScript, hn, Output(x, w)) /\ LastOnly(clientScript, hn, Output(x, w))
  BY <1>6, <1>8 DEF Matching, LastOnly
<1> QED
  BY <1>7, <1>9 DEF x, w

LEMMA PoliteKeeps ==
  ASSUME world' = world,
         world.polite =>
           /\ Spaced(clientScript, read'[Client], wrote'[Client])
           /\ Asked(clientScript, taken'[Client], hostName', connected', checks', connecting')
           /\ Civil(clientScript, hostName', connected', ctx', wrote', None)
  PROVE  PoliteInv'
BY DEF PoliteInv, clientScript

(* A handler of a record that asks for nothing.                            *)
LEMMA PoliteGiven ==
  ASSUME IInv, PoliteInv, NEW c \in Contexts, NEW kinds, Given(c, kinds),
         UNCHANGED requests,
         world.polite =>
           (Civil(clientScript, hostName, connected, ctx, wrote, None)
            => Civil(clientScript, hostName, connected, ctx', wrote, None))
  PROVE  PoliteInv'
<1>1. /\ world' = world /\ read' = read /\ wrote' = wrote
      /\ taken \in [Contexts -> Nat] /\ taken'[c] = taken[c] + 1
      /\ \A d \in Contexts : d # c => taken'[d] = taken[d]
  BY GivenIs
<1>2. /\ hostName' = hostName /\ connected' = connected /\ checks' = checks
      /\ connecting' = connecting
  BY DEF requests
<1> SUFFICES ASSUME world.polite
             PROVE  /\ Spaced(clientScript, read'[Client], wrote'[Client])
                    /\ Asked(clientScript, taken'[Client], hostName', connected', checks',
                             connecting')
                    /\ Civil(clientScript, hostName', connected', ctx', wrote', None)
  BY <1>1, PoliteKeeps
<1>3. /\ Spaced(clientScript, read[Client], wrote[Client])
      /\ Asked(clientScript, taken[Client], hostName, connected, checks, connecting)
      /\ Civil(clientScript, hostName, connected, ctx, wrote, None)
  BY DEF PoliteInv
<1>4. \A i \in 1..taken[Client] : i \in 1..taken'[Client]
  BY <1>1, SomeServer
<1>5. Asked(clientScript, taken'[Client], hostName, connected, checks, connecting)
  BY <1>3, <1>4 DEF Asked
<1> QED
  BY <1>1, <1>2, <1>3, <1>5

LEMMA UserEmptyPolite == ASSUME IInv, PoliteInv, UserEmpty PROVE PoliteInv'
<1>1. Given(Client, {"empty"}) /\ UNCHANGED requests /\ ctx' = ctx /\ Client \in Contexts
  BY SomeServer DEF UserEmpty
<1> QED
  BY <1>1, PoliteGiven

LEMMA UserEncryptedPolite == ASSUME IInv, PoliteInv, UserEncrypted PROVE PoliteInv'
<1> DEFINE kinds == {"hello", "ccs", "data", "bad"}
           s == Paired[Client].paired
           i == taken'[Client]
<1>1. /\ Given(Client, kinds) /\ ctx[Client].encrypted /\ UNCHANGED requests
      /\ ctx' = Queue(Paired, s, Client, i) /\ Create /\ Client \in Contexts
  BY SomeServer DEF UserEncrypted
<1> HIDE DEF kinds
<1>2. i \in Nat /\ i = taken[Client] + 1 /\ taken[Client] \in Nat
  BY <1>1, GivenIs
<1>3. s \in Servers
  BY <1>1, PairedStep
<1>4. ~Mismatch(clientScript, hostName, i)
  <2>1. PICK j \in 1..taken[Client] : clientScript[j].kind = "ccs"
    BY <1>1 DEF IInv, Encrypts, Script
  <2>2. j \in 1..(i - 1)
    BY <1>2
  <2> QED
    BY <2>1, <2>2 DEF Mismatch
<1>5. Civil(clientScript, hostName, connected, ctx, wrote, None)
        => Civil(clientScript, hostName, connected, ctx', wrote, None)
  <2> SUFFICES ASSUME Civil(clientScript, hostName, connected, ctx, wrote, None)
               PROVE  Civil(clientScript, hostName, connected, ctx', wrote, None)
    OBVIOUS
  <2>1. Civil(clientScript, hostName, connected, Paired, wrote, None)
    BY <1>1, CivilPaired
  <2>2. Paired[Client].paired = s /\ None \in {None, s}
    OBVIOUS
  <2> HIDE DEF s, i
  <2>3. Civil(clientScript, hostName, connected, Queue(Paired, s, Client, i), wrote, None)
    BY <1>2, <1>3, <1>4, <2>1, <2>2, CivilQueue
  <2> QED
    BY <1>1, <2>3
<1> QED
  BY <1>1, <1>5, PoliteGiven

LEMMA UserBadPolite == ASSUME IInv, PoliteInv, UserBad PROVE PoliteInv'
<1>1. /\ Given(Client, {"bad"}) /\ UNCHANGED requests
      /\ ctx' = Stop(Paired, Client) /\ Create /\ Client \in Contexts
  BY SomeServer DEF UserBad
<1>2. Civil(clientScript, hostName, connected, ctx, wrote, None)
        => Civil(clientScript, hostName, connected, ctx', wrote, None)
  BY <1>1, CivilPaired, CivilStop
<1> QED
  BY <1>1, <1>2, PoliteGiven

LEMMA UserDataPolite == ASSUME IInv, PoliteInv, UserData PROVE PoliteInv'
<1> DEFINE kinds == {"data", "ccs"}
           ccs == clientScript[taken'[Client]].kind = "ccs"
           y   == [Paired[Client] EXCEPT !.encrypted = ccs]
           cx  == With(Paired, Client, y)
           s   == cx[Client].paired
           i   == taken'[Client]
<1>1. /\ Given(Client, kinds) /\ UNCHANGED requests
      /\ ctx' = Queue(cx, s, Client, i) /\ Create
  BY DEF UserData
<1>2. Client \in Contexts /\ Servers \subseteq Contexts /\ Client \notin Servers
  BY SomeServer
<1> HIDE DEF kinds
<1>3. i \in Nat /\ Script(Client)[i].kind \in {"data", "ccs"}
  BY <1>1, <1>2, GivenIs DEF kinds
<1>4. ~Mismatch(clientScript, hostName, i)
  BY <1>3 DEF Mismatch, Hello, Script
<1>5. Paired[Client].paired \in Servers /\ Paired \in [Contexts -> Fields]
  BY <1>1, PairedStep
<1>6. y \in Fields /\ SameTasks(Paired[Client], y) /\ y.paired = Paired[Client].paired
  <2>1. ccs \in BOOLEAN /\ Paired[Client] \in Fields
    BY <1>2, <1>5
  <2> HIDE DEF ccs
  <2> QED
    BY <2>1 DEF Fields, SameTasks
<1> HIDE DEF y
<1>7. /\ cx \in [Contexts -> Fields] /\ cx[Client] = y
      /\ \A d \in Contexts \ {Client} : cx[d] = Paired[d]
  BY <1>2, <1>5, <1>6, WithIs
<1> HIDE DEF cx
<1>8. Civil(clientScript, hostName, connected, ctx, wrote, None)
        => Civil(clientScript, hostName, connected, ctx', wrote, None)
  <2> SUFFICES ASSUME Civil(clientScript, hostName, connected, ctx, wrote, None)
               PROVE  Civil(clientScript, hostName, connected, ctx', wrote, None)
    OBVIOUS
  <2>1. Civil(clientScript, hostName, connected, Paired, wrote, None)
    BY <1>1, CivilPaired
  <2>2. \A d \in Contexts : Writer(cx[d])
    BY <1>6, <1>7, <2>1 DEF Civil, Writer, SameTasks
  <2>3. \A d \in Servers : Alike(Paired[d], cx[d]) /\ wrote[d] = wrote[d]
    BY <1>2, <1>7 DEF Alike, SameTasks
  <2>4. cx[Client].paired \in {None, Paired[Client].paired}
    BY <1>6, <1>7
  <2>5. wrote \in [Contexts -> Seq(Writes)]
    BY <2>1 DEF Civil
  <2>6. Civil(clientScript, hostName, connected, cx, wrote, None)
    BY <1>7, <2>1, <2>2, <2>3, <2>4, <2>5, CivilAlike
  <2>7. s \in Servers /\ cx[Client].paired = s /\ None \in {None, s}
    BY <1>5, <1>6, <1>7
  <2> HIDE DEF s, i
  <2>8. Civil(clientScript, hostName, connected, Queue(cx, s, Client, i), wrote, None)
    BY <1>3, <1>4, <2>6, <2>7, CivilQueue
  <2> QED
    BY <1>1, <2>8
<1> QED
  BY <1>1, <1>2, <1>8, PoliteGiven

(* Nothing but the tasks of the client context changes.                    *)
LEMMA CivilClient ==
  ASSUME NEW cl, NEW hn, NEW cn, NEW cx, NEW wr, Civil(cl, hn, cn, cx, wr, None),
         NEW cy \in [Contexts -> Fields], \A s \in Servers : Alike(cx[s], cy[s]),
         Writer(cy[Client]), cy[Client].paired = cx[Client].paired
  PROVE  Civil(cl, hn, cn, cy, wr, None)
<1>1. Contexts = Servers \cup {Client}
  BY DEF Contexts
<1>2. \A c \in Contexts : Writer(cx[c])
  BY DEF Civil
<1>3. \A c \in Contexts : Writer(cy[c])
  BY <1>1, <1>2 DEF Writer, Alike, SameTasks
<1>4. wr \in [Contexts -> Seq(Writes)] /\ \A s \in Servers : wr[s] = wr[s]
  BY DEF Civil
<1>5. cy[Client].paired \in {None, cx[Client].paired}
  OBVIOUS
<1> QED
  BY <1>3, <1>4, <1>5, CivilAlike

LEMMA ServerDataPolite ==
  ASSUME IInv, PoliteInv, NEW s \in Servers, ServerData(s) PROVE PoliteInv'
<1> DEFINE kinds == {"hello", "data", "ccs", "bad"}
           ccs == serverScript[taken'[s]].kind = "ccs"
           y   == [ctx[s] EXCEPT !.encrypted = ctx[s].encrypted \/ ccs]
           cx  == With(ctx, s, y)
           i   == taken'[s]
<1>1. /\ Given(s, kinds) /\ UNCHANGED requests
      /\ ctx' = IF ctx[s].paired = None THEN cx ELSE Queue(cx, ctx[s].paired, s, i)
  BY DEF ServerData
<1>2. /\ Client \in Contexts /\ s \in Contexts /\ Servers \subseteq Contexts
      /\ Client \notin Servers
  BY SomeServer
<1> HIDE DEF kinds
<1>3. i \in Nat
  BY <1>1, <1>2, GivenIs
<1>4. ctx \in [Contexts -> Fields] /\ \A d \in Contexts : Writer(ctx[d])
  BY DEF IInv, TypeOK, Sound
<1>5. ctx[s].paired \in {None, Client}
  BY DEF IInv, Sound, Links
<1>6. y \in Fields /\ Alike(ctx[s], y)
  <2>1. ccs \in BOOLEAN /\ ctx[s] \in Fields
    BY <1>2, <1>4
  <2> HIDE DEF ccs
  <2> QED
    BY <2>1 DEF Fields, SameTasks, Alike
<1> HIDE DEF y
<1>7. /\ cx \in [Contexts -> Fields] /\ cx[s] = y
      /\ \A d \in Contexts \ {s} : cx[d] = ctx[d]
  BY <1>2, <1>4, <1>6, WithIs
<1> HIDE DEF cx
<1>8. cx[Client] = ctx[Client] /\ \A d \in Servers : Alike(ctx[d], cx[d])
  <2>1. \A d \in Servers : cx[d] = ctx[d] => Alike(ctx[d], cx[d])
    BY DEF Alike, SameTasks
  <2> QED
    BY <1>2, <1>6, <1>7, <2>1
<1>9. /\ ctx' \in [Contexts -> Fields] /\ Writer(ctx'[Client])
      /\ ctx'[Client].paired = ctx[Client].paired
      /\ \A d \in Servers : ctx'[d] = cx[d]
  <2>1. CASE ctx[s].paired = None
    BY <1>1, <1>2, <1>4, <1>7, <1>8, <2>1
  <2>2. CASE ctx[s].paired # None
    <3>1. ctx' = Queue(cx, Client, s, i)
      BY <1>1, <1>5, <2>2
    <3> HIDE DEF i
    <3>2. /\ ctx' \in [Contexts -> Fields]
          /\ ctx'[Client] = IF cx[Client].paired = s THEN Written(Appended(cx[Client], i))
                            ELSE cx[Client]
          /\ \A d \in Contexts \ {Client} : ctx'[d] = cx[d]
      BY <1>2, <1>3, <1>4, <1>7, <1>8, <3>1, QueueIs
    <3> DEFINE z == Appended(cx[Client], i)
    <3>3. z \in Fields /\ Writer(z) /\ SameButTasks(cx[Client], z)
      BY <1>2, <1>3, <1>4, <1>7, <1>8, AppendedIs
    <3> HIDE DEF z
    <3>4. Writer(Written(z)) /\ SameButTasks(z, Written(z))
      BY <3>3, WrittenIs
    <3>5. Written(z).paired = cx[Client].paired
      BY <3>3, <3>4 DEF SameButTasks
    <3> QED
      BY <1>2, <1>4, <1>8, <3>2, <3>4, <3>5 DEF z
  <2> QED
    BY <2>1, <2>2
<1>10. \A d \in Servers : Alike(ctx[d], ctx'[d])
  BY <1>8, <1>9
<1>11. Civil(clientScript, hostName, connected, ctx, wrote, None)
         => Civil(clientScript, hostName, connected, ctx', wrote, None)
  BY <1>9, <1>10, CivilClient
<1> QED
  BY <1>1, <1>2, <1>11, PoliteGiven

LEMMA ServerBadPolite ==
  ASSUME IInv, PoliteInv, NEW s \in Servers, ServerBad(s) PROVE PoliteInv'
<1>1. /\ Given(s, {"bad", "empty"}) /\ UNCHANGED requests /\ ctx' = Stop(ctx, s)
      /\ s \in Contexts
  BY SomeServer DEF ServerBad
<1>2. Civil(clientScript, hostName, connected, ctx, wrote, None)
        => Civil(clientScript, hostName, connected, ctx', wrote, None)
  BY <1>1, CivilStop
<1> QED
  BY <1>1, <1>2, PoliteGiven

(* One request for h, where there was none.                                *)
LEMMA AskedOne ==
  ASSUME NEW h \in Hosts, NEW f \in [Hosts -> Nat], \A g \in Hosts : f[g] = 0,
         NEW e, e = [f EXCEPT ![h] = @ + 1]
  PROVE  e \in [Hosts -> Nat] /\ \A g \in Hosts : e[g] = IF g = h THEN 1 ELSE 0
OBVIOUS

LEMMA UserFirstHelloPolite == ASSUME IInv, PoliteInv, UserFirstHello PROVE PoliteInv'
<1> DEFINE i == taken'[Client]
           h == clientScript[i].host
           s == Paired[Client].paired
           Now(hn)    == Civil(clientScript, hn, connected, ctx, wrote, None)
           Then(hn)   == Civil(clientScript, hn, connected, ctx', wrote, None)
           Queued(hn, v) == Civil(clientScript, hn, connected, HelloQueued, wrote, v)
<1>1. UserHello /\ (HelloAgain(h) \/ HelloWithoutHost(h) \/ HelloChecked(h))
  BY DEF UserFirstHello
<1>2. Given(Client, {"hello"}) /\ Client \in Contexts
  BY <1>1, SomeServer DEF UserHello
<1>3. /\ i \in Nat /\ i \in 1..i /\ Script(Client)[i].kind \in {"hello"}
      /\ i = taken[Client] + 1 /\ taken[Client] \in Nat
      /\ world' = world /\ read' = read /\ wrote' = wrote
      /\ i \in 1..Len(Script(Client))
  BY <1>2, GivenIs
<1>4. Hello(clientScript, i)
  BY <1>3 DEF Hello, Script
<1>5. \A hn : hn = h => ~Mismatch(clientScript, hn, i)
  BY DEF Mismatch
<1>6. h \in Hosts \cup {NoHost}
  <2>1. Script(Client) \in Seq(Record) /\ Script(Client) = clientScript
    <3>1. world \in World
      BY ContextAssumption DEF IInv, TypeOK
    <3> QED
      BY <3>1 DEF World, Script, clientScript
  <2>2. clientScript[i] \in Record
    BY <1>3, <2>1, ElementOfSeq
  <2> QED
    BY <2>2 DEF Record
<1> HIDE DEF h, s, i
<1>7. ASSUME NEW hn, Now(hn), hn = h PROVE Queued(hn, None)
  <2>1. Civil(clientScript, hn, connected, ctx, wrote, None) /\ ~Mismatch(clientScript, hn, i)
    BY <1>5, <1>7
  <2>2. None \in {None, Paired[Client].paired}
    OBVIOUS
  <2> QED
    BY <1>1, <2>1, <2>2, CivilHello DEF i
<1>8. ASSUME NEW hn, Now(hn)
      PROVE  Civil(clientScript, hn, connected, Stop(HelloQueued, Client), wrote, None)
  <2>1. Civil(clientScript, hn, connected, ctx, wrote, None)
    BY <1>8
  <2>2. Queued(hn, s) /\ HelloQueued[Client].paired = s
    BY <1>1, <2>1, CivilHello DEF s
  <2> QED
    BY <1>2, <2>2, CivilStop
<1>9. CASE HelloAgain(h) \/ HelloWithoutHost(h)
  <2>1. UNCHANGED requests
    BY <1>9 DEF HelloAgain, HelloWithoutHost
  <2>2. \/ ctx' = HelloQueued /\ hostName = h
        \/ ctx' = Stop(HelloQueued, Client)
    BY <1>9 DEF HelloAgain, HelloWithoutHost
  <2>3. Now(hostName) => Then(hostName)
    BY <1>7, <1>8, <2>2
  <2> QED
    BY <1>2, <2>1, <2>3, PoliteGiven
<1>10. CASE HelloChecked(h)
  <2> SUFFICES ASSUME world.polite
               PROVE  /\ Spaced(clientScript, read[Client], wrote[Client])
                      /\ Asked(clientScript, i, hostName', connected', checks', connecting')
                      /\ Civil(clientScript, hostName', connected', ctx', wrote, None)
    BY <1>3, PoliteKeeps DEF i
  <2>1. /\ Spaced(clientScript, read[Client], wrote[Client])
        /\ Asked(clientScript, taken[Client], hostName, connected, checks, connecting)
        /\ Now(hostName)
    BY DEF PoliteInv
  <2>2. ~connected /\ connected' = connected /\ hostName' = h /\ h \in Hosts
    BY <1>6, <1>10 DEF HelloChecked
  <2>3. \A j \in 1..taken[Client] : ~Hello(clientScript, j)
    BY <1>1, <2>1, <2>2, FirstHello
  <2>4. Now(h)
    BY <2>1, <2>2, <2>3, CivilFresh
  <2>5. Then(h)
    <3>1. ctx' = HelloQueued \/ ctx' = Stop(HelloQueued, Client)
      BY <1>10 DEF HelloChecked
    <3> QED
      BY <1>7, <1>8, <2>4, <3>1
  <2>6. \A g \in Hosts : checks[g] = 0 /\ connecting[g] = 0
    BY <2>1, <2>3 DEF Asked
  <2>7. \A g \in Hosts : checks'[g] + connecting'[g] > 0 =>
          g = h /\ checks'[g] + connecting'[g] = 1
    <3>1. checks \in [Hosts -> Nat] /\ connecting \in [Hosts -> Nat]
      BY DEF IInv, TypeOK
    <3>2. CASE checks' = [checks EXCEPT ![h] = @ + 1] /\ connecting' = connecting
      BY <2>2, <2>6, <3>1, <3>2, AskedOne
    <3>3. CASE connecting' = [connecting EXCEPT ![h] = @ + 1] /\ checks' = checks
      BY <2>2, <2>6, <3>1, <3>3, AskedOne
    <3>4. CASE checks' = checks /\ connecting' = connecting
      BY <2>6, <3>4
    <3> QED
      BY <1>10, <3>2, <3>3, <3>4 DEF HelloChecked
  <2>8. Asked(clientScript, i, h, connected, checks', connecting')
    BY <1>3, <1>4, <2>2, <2>7 DEF Asked
  <2> QED
    BY <2>1, <2>2, <2>5, <2>8
<1> QED
  BY <1>1, <1>9, <1>10

LEMMA ReadOnPolite ==
  ASSUME IInv, PoliteInv, NEW c \in Contexts, ReadOn(c) PROVE PoliteInv'
<1> DEFINE r == IF ctx[c].socket = "open" \/ ctx[c].stray THEN "reading" ELSE "rejected"
           y == [ctx[c] EXCEPT !.reader = r]
<1>1. /\ ctx' = With(ctx, c, y)
      /\ UNCHANGED <<world, created, requests, read, taken, wrote>>
  BY DEF ReadOn
<1>2. ctx \in [Contexts -> Fields] /\ \A d \in Contexts : Writer(ctx[d])
  BY DEF IInv, TypeOK, Sound
<1>3. y \in Fields /\ Alike(ctx[c], y) /\ y.paired = ctx[c].paired
  <2>1. r \in {"reading", "rejected"} /\ ctx[c] \in Fields
    BY <1>2
  <2> HIDE DEF r
  <2> QED
    BY <2>1 DEF Fields, SameTasks, Alike
<1> HIDE DEF y
<1>4. /\ ctx' \in [Contexts -> Fields] /\ ctx'[c] = y
      /\ \A d \in Contexts \ {c} : ctx'[d] = ctx[d]
  BY <1>1, <1>2, <1>3, WithIs
<1>5. \A d \in Contexts : Alike(ctx[d], ctx'[d]) /\ ctx'[d].paired = ctx[d].paired
  <2>1. \A d \in Contexts : ctx'[d] = ctx[d] => Alike(ctx[d], ctx'[d])
    BY DEF Alike, SameTasks
  <2> QED
    BY <1>3, <1>4, <2>1
<1>6. Writer(ctx'[Client]) /\ ctx'[Client].paired = ctx[Client].paired
  BY <1>2, <1>5, SomeServer DEF Writer, Alike, SameTasks
<1>7. \A d \in Servers : Alike(ctx[d], ctx'[d])
  BY <1>5, SomeServer
<1>8. /\ world' = world /\ read' = read /\ taken' = taken /\ wrote' = wrote
      /\ hostName' = hostName /\ connected' = connected /\ checks' = checks
      /\ connecting' = connecting
  BY <1>1 DEF requests
<1>9. world.polite => Civil(clientScript, hostName, connected, ctx', wrote, None)
  BY <1>4, <1>6, <1>7, CivilClient DEF PoliteInv
<1> QED
  BY <1>8, <1>9, PoliteKeeps DEF PoliteInv

-----------------------------------------------------------------------------
(* The completion handlers, with a polite client.                          *)

LEMMA PoliteCompletion ==
  ASSUME IInv, PoliteInv, Completion, UNCHANGED requests,
         world.polite =>
           /\ Spaced(clientScript, read[Client], wrote[Client])
              => Spaced(clientScript, read'[Client], wrote'[Client])
           /\ Civil(clientScript, hostName, connected, ctx, wrote, None)
              => Civil(clientScript, hostName, connected, ctx', wrote', None)
  PROVE  PoliteInv'
<1>1. /\ world' = world /\ taken' = taken
      /\ hostName' = hostName /\ connected' = connected /\ checks' = checks
      /\ connecting' = connecting
  BY DEF Completion, requests
<1> QED
  BY <1>1, PoliteKeeps DEF PoliteInv

LEMMA CivilEnded ==
  ASSUME NEW cl, NEW hn, NEW cn, NEW cx, NEW wr, Civil(cl, hn, cn, cx, wr, None),
         NEW c \in Contexts
  PROVE  Civil(cl, hn, cn, Ended(cx, c), wr, None)
<1> DEFINE y  == [cx[c] EXCEPT !.reader = "ended", !.running = FALSE]
           cy == Ended(cx, c)
<1>1. cx \in [Contexts -> Fields] /\ cx[c] \in Fields /\ \A d \in Contexts : Writer(cx[d])
  BY DEF Civil
<1>2. y \in Fields /\ Alike(cx[c], y) /\ y.paired = cx[c].paired
  BY <1>1 DEF Fields, SameTasks, Alike
<1>3. cy = With(cx, c, y)
  BY DEF Ended
<1> HIDE DEF y, cy
<1>4. /\ cy \in [Contexts -> Fields] /\ cy[c] = y
      /\ \A d \in Contexts \ {c} : cy[d] = cx[d]
  BY <1>1, <1>2, <1>3, WithIs
<1>5. \A d \in Contexts : Alike(cx[d], cy[d]) /\ cy[d].paired = cx[d].paired
  <2>1. \A d \in Contexts : cy[d] = cx[d] => Alike(cx[d], cy[d])
    BY DEF Alike, SameTasks
  <2> QED
    BY <1>2, <1>4, <2>1
<1>6. Writer(cy[Client]) /\ cy[Client].paired = cx[Client].paired
  BY <1>1, <1>5, SomeServer DEF Writer, Alike, SameTasks
<1>7. \A d \in Servers : Alike(cx[d], cy[d])
  BY <1>5, SomeServer
<1>8. Civil(cl, hn, cn, cy, wr, None)
  BY <1>4, <1>6, <1>7, CivilClient
<1> QED
  BY <1>8 DEF cy

LEMMA AcceptPolite == ASSUME IInv, PoliteInv, Accept PROVE PoliteInv'
<1>1. /\ Completion /\ UNCHANGED requests /\ ctx' = Start(ctx, Client, NoHost)
      /\ read' = read /\ wrote' = wrote
  BY DEF Accept
<1>2. /\ Client \in Contexts /\ Servers \subseteq Contexts /\ Client \notin Servers
  BY SomeServer
<1>3. ctx \in [Contexts -> Fields] /\ Writer(ctx[Client]) /\ ctx[Client] \in Fields
  BY <1>2 DEF IInv, TypeOK, Sound
<1> DEFINE y == Opened(ctx[Client], NoHost)
<1>4. /\ ctx' \in [Contexts -> Fields] /\ ctx'[Client] = Written(y)
      /\ \A d \in Contexts \ {Client} : ctx'[d] = ctx[d]
  BY <1>1, <1>2, <1>3, StartIs
<1>5. y \in Fields /\ SameTasks(ctx[Client], y) /\ y.paired = ctx[Client].paired
  BY <1>3, OpenedIs
<1> HIDE DEF y
<1>6. Writer(y)
  BY <1>3, <1>5 DEF Writer, SameTasks
<1>7. Writer(Written(y)) /\ Written(y).paired = ctx[Client].paired
  BY <1>5, <1>6, WrittenIs DEF SameButTasks
<1>8. \A d \in Servers : Alike(ctx[d], ctx'[d])
  <2>1. \A d \in Servers : ctx'[d] = ctx[d]
    BY <1>2, <1>4
  <2> QED
    BY <2>1 DEF Alike, SameTasks
<1>9. Civil(clientScript, hostName, connected, ctx, wrote, None)
        => Civil(clientScript, hostName, connected, ctx', wrote', None)
  BY <1>1, <1>4, <1>7, <1>8, CivilClient
<1> QED
  BY <1>1, <1>9, PoliteCompletion

(* The records of a read that is over are of a polite client.              *)
LEMMA ReadSpaced ==
  ASSUME IInv, world.polite, NEW n, ReadDone(Client, n),
         Spaced(clientScript, read[Client], wrote[Client]),
         read' = [read EXCEPT ![Client] = @ + n]
  PROVE  Spaced(clientScript, read'[Client], wrote[Client])
<1> SUFFICES ASSUME NEW i \in 1..read'[Client], NEW j \in 1..(i - 1),
                    Hello(clientScript, i), Hello(clientScript, j)
             PROVE  wrote[Client] # <<>>
  BY DEF Spaced
<1>1. read \in [Contexts -> Nat] /\ read[Client] \in Nat /\ Client \in Contexts
  BY SomeServer DEF IInv, TypeOK
<1>2. Len(Script(Client)) \in Nat
  <2>1. world \in World
    BY ContextAssumption DEF IInv, TypeOK
  <2>2. Script(Client) \in Seq(Record)
    BY <2>1 DEF World, Script, clientScript
  <2> QED
    BY <2>2, LenProperties
<1>3. n \in 1..(Len(Script(Client)) - read[Client])
  BY DEF ReadDone
<1>4. n \in Nat /\ read'[Client] = read[Client] + n
  BY <1>1, <1>2, <1>3
<1>5. CASE i <= read[Client]
  <2>1. i \in 1..read[Client]
    BY <1>1, <1>4, <1>5
  <2> QED
    BY <2>1 DEF Spaced
<1>6. CASE i > read[Client]
  <2>1. i \in (read[Client] + 1)..(read[Client] + n)
    BY <1>1, <1>4, <1>6
  <2>2. Sends(Client, i)
    BY <2>1 DEF ReadDone
  <2> QED
    BY <2>2 DEF Sends, Hello
<1> QED
  BY <1>1, <1>4, <1>5, <1>6

LEMMA ReadDonePolite ==
  ASSUME IInv, PoliteInv, NEW c \in Contexts, NEW n, ReadDone(c, n)
  PROVE  PoliteInv'
<1>1. Completion /\ UNCHANGED requests /\ wrote' = wrote
  BY DEF ReadDone
<1>2. ctx \in [Contexts -> Fields] /\ ctx[c] \in Fields /\ \A d \in Contexts : Writer(ctx[d])
  BY DEF IInv, TypeOK, Sound
<1>3. CASE /\ ctx' = With(ctx, c, [ctx[c] EXCEPT !.reader = "loop"])
           /\ read' = [read EXCEPT ![c] = @ + n]
  <2> DEFINE y == [ctx[c] EXCEPT !.reader = "loop"]
  <2>1. y \in Fields /\ Alike(ctx[c], y) /\ y.paired = ctx[c].paired
    BY <1>2 DEF Fields, SameTasks, Alike
  <2>2. ctx' = With(ctx, c, y)
    BY <1>3
  <2> HIDE DEF y
  <2>3. /\ ctx' \in [Contexts -> Fields] /\ ctx'[c] = y
        /\ \A d \in Contexts \ {c} : ctx'[d] = ctx[d]
    BY <1>2, <2>1, <2>2, WithIs
  <2>4. \A d \in Contexts : Alike(ctx[d], ctx'[d]) /\ ctx'[d].paired = ctx[d].paired
    <3>1. \A d \in Contexts : ctx'[d] = ctx[d] => Alike(ctx[d], ctx'[d])
      BY DEF Alike, SameTasks
    <3> QED
      BY <2>1, <2>3, <3>1
  <2>5. /\ Writer(ctx'[Client]) /\ ctx'[Client].paired = ctx[Client].paired
        /\ \A d \in Servers : Alike(ctx[d], ctx'[d])
    BY <1>2, <2>4, SomeServer DEF Writer, Alike, SameTasks
  <2>6. Civil(clientScript, hostName, connected, ctx, wrote, None)
          => Civil(clientScript, hostName, connected, ctx', wrote, None)
    BY <2>3, <2>5, CivilClient
  <2>7. world.polite /\ Spaced(clientScript, read[Client], wrote[Client])
          => Spaced(clientScript, read'[Client], wrote[Client])
    <3>1. CASE c = Client
      BY <1>3, <3>1, ReadSpaced
    <3>2. CASE c # Client
      <4>1. read'[Client] = read[Client]
        BY <1>3, <3>2, SomeServer DEF IInv, TypeOK
      <4> QED
        BY <4>1
    <3> QED
      BY <3>1, <3>2
  <2> QED
    BY <1>1, <2>6, <2>7, PoliteCompletion
<1>4. CASE /\ ctx' = Release(Stop(Ended(ctx, c), c), Waiting(checks, connecting))
           /\ read' = read
  <2>1. Civil(clientScript, hostName, connected, ctx, wrote, None)
          => Civil(clientScript, hostName, connected, ctx', wrote, None)
    BY <1>4, CivilEnded, CivilStop, CivilRelease
  <2> QED
    BY <1>1, <1>4, <2>1, PoliteCompletion
<1> QED
  BY <1>3, <1>4 DEF ReadDone

(* A reader that ends.                                                     *)
LEMMA ReadEndsPolite ==
  ASSUME IInv, PoliteInv, NEW c \in Contexts,
         ReadEof(c) \/ ReadCancelled(c) \/ ReadFailed(c)
  PROVE  PoliteInv'
<1>1. /\ Completion /\ UNCHANGED requests /\ wrote' = wrote /\ read' = read
      /\ \/ ctx' = Release(Ended(ctx, c), Waiting(checks, connecting))
         \/ ctx' = Release(Stop(Ended(ctx, c), c), Waiting(checks, connecting))
  BY DEF ReadEof, ReadCancelled, ReadFailed
<1>2. Civil(clientScript, hostName, connected, ctx, wrote, None)
        => Civil(clientScript, hostName, connected, ctx', wrote, None)
  BY <1>1, CivilEnded, CivilStop, CivilRelease
<1> QED
  BY <1>1, <1>2, PoliteCompletion

LEMMA WriteDonePolite ==
  ASSUME IInv, PoliteInv, NEW c \in Contexts, NEW k, WriteDone(c, k)
  PROVE  PoliteInv'
<1> DEFINE f    == ctx[c].flying
           rest == SubSeq(f, 1, k - 1) \o SubSeq(f, k + 1, Len(f))
           y    == [ctx[c] EXCEPT !.flying = rest, !.writing = FALSE]
           cy   == DoWrite(With(ctx, c, y), c)
<1>1. /\ Completion /\ k \in DOMAIN f /\ UNCHANGED requests
      /\ wrote' = [wrote EXCEPT ![c] = Append(@, f[k])]
      /\ ctx' = Release(cy, Waiting(checks, connecting))
      /\ read' = read
  BY DEF WriteDone
<1>2. /\ ctx \in [Contexts -> Fields] /\ ctx[c] \in Fields /\ Writer(ctx[c])
      /\ wrote \in [Contexts -> Seq(Writes)]
  BY SoundNow DEF Sound, ContextTypes
<1>3. f # <<>> /\ Len(f) = 1 /\ f \in Seq(Writes)
  <2>1. f \in Seq(Writes)
    BY <1>2, OutputOf DEF Fields, Writes
  <2>2. f # <<>>
    BY <1>1
  <2> QED
    BY <1>2, <2>1, <2>2, FlyingOne
<1>4. k = 1 /\ rest = <<>>
  <2> HIDE DEF f
  <2> QED
    BY <1>1, <1>3, NothingLeft
<1> HIDE DEF rest
<1>5. /\ y \in Fields /\ SameButTasks(ctx[c], y) /\ y.flying = <<>> /\ ~y.writing
      /\ y.queue = ctx[c].queue
  <2>1. y = [ctx[c] EXCEPT !.flying = <<>>, !.writing = FALSE]
    BY <1>4
  <2>2. <<>> \in Seq(Writes)
    OBVIOUS
  <2> HIDE DEF y
  <2> QED
    BY <1>2, <2>1, <2>2 DEF Fields, SameButTasks, Writes
<1> HIDE DEF y
<1>6. Civil(clientScript, hostName, connected, ctx, wrote, None)
        => Civil(clientScript, hostName, connected, ctx', wrote', None)
  <2> SUFFICES ASSUME Civil(clientScript, hostName, connected, ctx, wrote, None)
               PROVE  Civil(clientScript, hostName, connected, ctx', wrote', None)
    OBVIOUS
  <2>1. Delivers(wrote, wrote', c, ctx[c])
    BY <1>1, <1>3, <1>4 DEF Delivers
  <2>2. y \in Fields /\ Finished(ctx[c], y)
    BY <1>5 DEF Finished
  <2>3. Civil(clientScript, hostName, connected, ctx, wrote, None) /\ c \in Contexts
    OBVIOUS
  <2>4. Civil(clientScript, hostName, connected, cy, wrote', None)
    BY ONLY <2>1, <2>2, <2>3, CivilDone
  <2> HIDE DEF cy
  <2> QED
    BY <1>1, <2>4, CivilRelease
<1>7. Spaced(clientScript, read[Client], wrote[Client])
        => Spaced(clientScript, read'[Client], wrote'[Client])
  <2>1. CASE c = Client
    <3>1. wrote'[Client] = Append(wrote[Client], f[k])
      BY <1>1, <1>2, <2>1
    <3>2. f[k] \in Writes /\ wrote[Client] \in Seq(Writes)
      BY <1>1, <1>2, <1>3, <2>1
    <3>3. wrote'[Client] # <<>>
      <4> HIDE DEF f
      <4> QED
        BY <3>1, <3>2
    <3> QED
      BY <3>3 DEF Spaced
  <2>2. CASE c # Client
    <3>1. wrote'[Client] = wrote[Client]
      BY <1>1, <1>2, <2>2, SomeServer
    <3> QED
      BY <1>1, <3>1
  <2> QED
    BY <2>1, <2>2
<1> QED
  BY <1>1, <1>6, <1>7, PoliteCompletion

LEMMA WriteFailedPolite ==
  ASSUME IInv, PoliteInv, NEW c \in Contexts, WriteFailed(c) PROVE PoliteInv'
<1> DEFINE y  == [ctx[c] EXCEPT !.flying = Tail(@)]
           cy == With(ctx, c, y)
<1>1. /\ Completion /\ ctx[c].flying # <<>> /\ UNCHANGED requests
      /\ ctx' = Release(Stop(cy, c), Waiting(checks, connecting))
      /\ read' = read /\ wrote' = wrote
  BY DEF WriteFailed
<1>2. ctx \in [Contexts -> Fields] /\ ctx[c] \in Fields /\ Writer(ctx[c])
  BY SoundNow DEF Sound
<1>3. Tail(ctx[c].flying) = <<>>
  BY <1>1, <1>2, FlyingOne
<1>4. /\ y \in Fields /\ SameButTasks(ctx[c], y) /\ y.flying = <<>>
      /\ y.queue = ctx[c].queue
  <2>1. y = [ctx[c] EXCEPT !.flying = <<>>]
    BY <1>2, <1>3 DEF Fields
  <2>2. <<>> \in Seq(Writes)
    OBVIOUS
  <2> HIDE DEF y
  <2> QED
    BY <1>2, <2>1, <2>2 DEF Fields, SameButTasks, Writes
<1> HIDE DEF y
<1>5. Civil(clientScript, hostName, connected, ctx, wrote, None)
        => Civil(clientScript, hostName, connected, ctx', wrote, None)
  <2> SUFFICES ASSUME Civil(clientScript, hostName, connected, ctx, wrote, None)
               PROVE  Civil(clientScript, hostName, connected, ctx', wrote, None)
    OBVIOUS
  <2>1. Civil(clientScript, hostName, connected, cy, wrote, None)
    BY <1>1, <1>4, CivilFailed
  <2> HIDE DEF cy
  <2> QED
    BY <1>1, <2>1, CivilStop, CivilRelease
<1> QED
  BY <1>1, <1>5, PoliteCompletion

(* The one request goes on or is over.                                     *)
LEMMA AskedStep ==
  ASSUME NEW cl, NEW n, NEW hn, NEW cn, NEW cs, NEW cg, Asked(cl, n, hn, cn, cs, cg),
         cs \in [Hosts -> Nat], cg \in [Hosts -> Nat],
         NEW h \in Hosts, cs[h] > 0 \/ cg[h] > 0,
         NEW ct \in [Hosts -> Nat], NEW ch \in [Hosts -> Nat], NEW cm \in BOOLEAN,
         \A g \in Hosts : g # h => ct[g] = cs[g] /\ ch[g] = cg[g],
         \/ ct[h] + ch[h] = 0
         \/ cm = cn /\ ct[h] + ch[h] = cs[h] + cg[h]
  PROVE  h = hn /\ Asked(cl, n, hn, cm, ct, ch)
<1>1. cs[h] + cg[h] > 0 /\ cs[h] \in Nat /\ cg[h] \in Nat
  OBVIOUS
<1>2. h = hn /\ cs[h] + cg[h] = 1
  BY <1>1 DEF Asked
<1>3. ~cn /\ ~(\A i \in 1..n : ~Hello(cl, i))
  <2>1. ~(cs[h] = 0 /\ cg[h] = 0)
    BY <1>1
  <2> QED
    BY <2>1 DEF Asked
<1>4. \A g \in Hosts : g # h => cs[g] + cg[g] = 0
  <2> SUFFICES ASSUME NEW g \in Hosts, g # h PROVE cs[g] + cg[g] = 0
    OBVIOUS
  <2>1. ~(cs[g] + cg[g] > 0)
    BY <1>2 DEF Asked
  <2>2. cs[g] \in Nat /\ cg[g] \in Nat
    OBVIOUS
  <2> QED
    BY <2>1, <2>2
<1>5. \A g \in Hosts : g # h => ct[g] + ch[g] = 0
  BY <1>4
<1>6. \A g \in Hosts : ct[g] + ch[g] > 0 => g = hn /\ ct[g] + ch[g] = 1
  BY <1>2, <1>5
<1>7. cm => \A g \in Hosts : ct[g] = 0 /\ ch[g] = 0
  <2> SUFFICES ASSUME cm, NEW g \in Hosts PROVE ct[g] = 0 /\ ch[g] = 0
    OBVIOUS
  <2>1. ct[h] + ch[h] = 0
    BY <1>3
  <2>2. ct[g] + ch[g] = 0 /\ ct[g] \in Nat /\ ch[g] \in Nat
    BY <1>5, <2>1
  <2> QED
    BY <2>2
<1> QED
  BY <1>2, <1>3, <1>6, <1>7 DEF Asked

LEMMA CheckAnsweredPolite ==
  ASSUME IInv, PoliteInv, NEW h \in Hosts, CheckAnswered(h) PROVE PoliteInv'
<1>1. /\ Completion /\ checks[h] > 0 /\ checks' = [checks EXCEPT ![h] = @ - 1]
      /\ hostName' = hostName /\ connected' = connected /\ read' = read /\ wrote' = wrote
      /\ world' = world /\ taken' = taken
      /\ \/ connecting' = [connecting EXCEPT ![h] = @ + 1] /\ ctx' = ctx
         \/ /\ ctx' = Release(Stop(ctx, Client), Waiting(checks', connecting))
            /\ connecting' = connecting
  BY DEF CheckAnswered, Completion
<1> SUFFICES ASSUME world.polite
             PROVE  /\ Spaced(clientScript, read[Client], wrote[Client])
                    /\ Asked(clientScript, taken[Client], hostName, connected, checks',
                             connecting')
                    /\ Civil(clientScript, hostName, connected, ctx', wrote, None)
  BY <1>1, PoliteKeeps
<1>2. /\ Spaced(clientScript, read[Client], wrote[Client])
      /\ Asked(clientScript, taken[Client], hostName, connected, checks, connecting)
      /\ Civil(clientScript, hostName, connected, ctx, wrote, None)
  BY DEF PoliteInv
<1>3. /\ checks \in [Hosts -> Nat] /\ connecting \in [Hosts -> Nat]
      /\ connected \in BOOLEAN
  BY SoundNow
<1>4. Civil(clientScript, hostName, connected, ctx', wrote, None)
  BY <1>1, <1>2, CivilStop, CivilRelease, SomeServer
<1>5. checks[h] + connecting[h] = 1 /\ checks[h] = 1 /\ connecting[h] = 0
  <2>1. checks[h] \in Nat /\ connecting[h] \in Nat /\ checks[h] + connecting[h] > 0
    BY <1>1, <1>3
  <2>2. checks[h] + connecting[h] = 1
    BY <1>2, <2>1 DEF Asked
  <2> QED
    BY <1>1, <2>1, <2>2
<1>6. /\ checks' \in [Hosts -> Nat] /\ connecting' \in [Hosts -> Nat]
      /\ \A g \in Hosts : g # h => checks'[g] = checks[g] /\ connecting'[g] = connecting[g]
      /\ checks'[h] = 0 /\ connecting'[h] \in {0, 1}
  BY <1>1, <1>3, <1>5
<1>7. \/ checks'[h] + connecting'[h] = 0
      \/ connected = connected /\ checks'[h] + connecting'[h] = checks[h] + connecting[h]
  BY <1>5, <1>6
<1>8. checks[h] > 0 \/ connecting[h] > 0
  BY <1>1
<1>9. Asked(clientScript, taken[Client], hostName, connected, checks', connecting')
  BY <1>2, <1>3, <1>6, <1>7, <1>8, AskedStep
<1> QED
  BY <1>2, <1>4, <1>9

(* A connect is over.                                                      *)
LEMMA ConnectOver ==
  ASSUME IInv, NEW h \in Hosts, connecting[h] > 0, NEW cl, NEW cm \in BOOLEAN,
         Asked(cl, taken[Client], hostName, connected, checks, connecting),
         checks' = checks, connecting' = [connecting EXCEPT ![h] = @ - 1]
  PROVE  /\ h = hostName
         /\ Asked(cl, taken[Client], hostName, cm, checks', connecting')
<1>1. checks \in [Hosts -> Nat] /\ connecting \in [Hosts -> Nat]
  BY SoundNow
<1>2. connecting[h] = 1 /\ checks[h] = 0
  <2>1. checks[h] \in Nat /\ connecting[h] \in Nat /\ checks[h] + connecting[h] > 0
    BY <1>1
  <2>2. checks[h] + connecting[h] = 1
    BY <2>1 DEF Asked
  <2> QED
    BY <2>1, <2>2
<1>3. /\ checks' \in [Hosts -> Nat] /\ connecting' \in [Hosts -> Nat]
      /\ \A g \in Hosts : g # h => checks'[g] = checks[g] /\ connecting'[g] = connecting[g]
      /\ checks'[h] + connecting'[h] = 0
  BY <1>1, <1>2
<1>4. /\ checks[h] > 0 \/ connecting[h] > 0
      /\ \/ checks'[h] + connecting'[h] = 0
         \/ cm = connected /\ checks'[h] + connecting'[h] = checks[h] + connecting[h]
  BY <1>3
<1>5. Asked(cl, taken[Client], hostName, connected, checks, connecting)
  OBVIOUS
<1>6. /\ checks' \in [Hosts -> Nat] /\ connecting' \in [Hosts -> Nat]
      /\ \A g \in Hosts : g # h => checks'[g] = checks[g] /\ connecting'[g] = connecting[g]
      /\ h \in Hosts /\ cm \in BOOLEAN
  BY <1>3
<1> QED
  BY ONLY <1>1, <1>4, <1>5, <1>6, AskedStep

LEMMA ConnectFailedPolite ==
  ASSUME IInv, PoliteInv, NEW h \in Hosts, ConnectFailed(h) PROVE PoliteInv'
<1>1. /\ connecting[h] > 0 /\ connecting' = [connecting EXCEPT ![h] = @ - 1]
      /\ ctx' = Release(Stop(ctx, Client), Waiting(checks, connecting'))
      /\ checks' = checks /\ hostName' = hostName /\ connected' = connected
      /\ read' = read /\ wrote' = wrote /\ world' = world /\ taken' = taken
      /\ connected \in BOOLEAN
  BY SoundNow DEF ConnectFailed, Completion
<1> SUFFICES ASSUME world.polite
             PROVE  /\ Spaced(clientScript, read[Client], wrote[Client])
                    /\ Asked(clientScript, taken[Client], hostName, connected, checks',
                             connecting')
                    /\ Civil(clientScript, hostName, connected, ctx', wrote, None)
  BY <1>1, PoliteKeeps
<1>2. /\ Spaced(clientScript, read[Client], wrote[Client])
      /\ Asked(clientScript, taken[Client], hostName, connected, checks, connecting)
      /\ Civil(clientScript, hostName, connected, ctx, wrote, None)
  BY DEF PoliteInv
<1>3. Civil(clientScript, hostName, connected, ctx', wrote, None)
  BY <1>1, <1>2, CivilStop, CivilRelease, SomeServer
<1>4. Asked(clientScript, taken[Client], hostName, connected, checks', connecting')
  BY <1>1, <1>2, ConnectOver
<1> QED
  BY <1>2, <1>3, <1>4

LEMMA ConnectedPolite ==
  ASSUME IInv, PoliteInv, NEW h \in Hosts, Connected(h) PROVE PoliteInv'
<1> DEFINE s == ctx[Client].paired
<1>1. /\ connecting[h] > 0 /\ connecting' = [connecting EXCEPT ![h] = @ - 1]
      /\ ctx' = IF s = None THEN ctx
                ELSE Release(Start(ctx, s, h), Waiting(checks, connecting'))
      /\ connected' = (connected \/ s # None)
      /\ checks' = checks /\ hostName' = hostName
      /\ read' = read /\ wrote' = wrote /\ world' = world /\ taken' = taken
  BY DEF Connected, Completion
<1>2. connected' \in BOOLEAN /\ (connected => connected') /\ hostName \in Hosts \cup {NoHost}
  BY <1>1, SoundNow
<1> SUFFICES ASSUME world.polite
             PROVE  /\ Spaced(clientScript, read[Client], wrote[Client])
                    /\ Asked(clientScript, taken[Client], hostName, connected', checks',
                             connecting')
                    /\ Civil(clientScript, hostName, connected', ctx', wrote, None)
  BY <1>1, PoliteKeeps
<1>3. /\ Spaced(clientScript, read[Client], wrote[Client])
      /\ Asked(clientScript, taken[Client], hostName, connected, checks, connecting)
      /\ Civil(clientScript, hostName, connected, ctx, wrote, None)
  BY DEF PoliteInv
<1>4. /\ h = hostName
      /\ Asked(clientScript, taken[Client], hostName, connected', checks', connecting')
  BY <1>1, <1>2, <1>3, ConnectOver
<1>5. Civil(clientScript, hostName, connected', ctx, wrote, None)
  BY <1>2, <1>3, CivilMore
<1>6. Civil(clientScript, hostName, connected', ctx', wrote, None)
  <2>1. CASE s = None
    BY <1>1, <1>5, <2>1
  <2>2. CASE s # None
    <3>1. s \in Servers
      <4>1. s \in 1..created /\ created \in 0..MaxServers /\ MaxServers \in Nat
        BY <2>2, SoundNow, ContextAssumption DEF Sound, Links, ContextTypes
      <4> QED
        BY <4>1 DEF Servers
    <3>2. connected' /\ ctx' = Release(Start(ctx, s, hostName), Waiting(checks, connecting'))
      BY <1>1, <1>4, <2>2
    <3>3. ctx[Client].paired = s
      OBVIOUS
    <3> HIDE DEF s
    <3>4. Civil(clientScript, hostName, connected', Start(ctx, s, hostName), wrote, None)
      BY <1>2, <1>5, <3>1, <3>2, <3>3, CivilStart
    <3> QED
      BY <3>2, <3>4, CivilRelease
  <2> QED
    BY <2>1, <2>2
<1> QED
  BY <1>3, <1>4, <1>6

LEMMA PoliteInitially == ASSUME Init PROVE PoliteInv
<1> USE Initially
<1>1. IInv /\ ~connected
  BY DEF Init
<1>2. /\ \A c \in Contexts : read[c] = 0 /\ taken[c] = 0 /\ wrote[c] = <<>> /\ ctx[c] = Blank
      /\ \A h \in Hosts : checks[h] = 0 /\ connecting[h] = 0
  BY DEF Init
<1>3. Client \in Contexts /\ Servers \subseteq Contexts
  BY SomeServer
<1>4. Spaced(clientScript, read[Client], wrote[Client])
  BY <1>2, <1>3 DEF Spaced
<1>5. Asked(clientScript, taken[Client], hostName, connected, checks, connecting)
  BY <1>1, <1>2 DEF Asked
<1>6. DOMAIN <<>> = {}
  OBVIOUS
<1>7. \A s \in Servers : Output(ctx[s], wrote[s]) = <<>>
  <2>1. Untold(Blank, <<>>)
    BY BlankIs DEF Untold
  <2>2. Output(Blank, <<>>) = <<>>
    BY <2>1, NothingOut
  <2> QED
    BY <1>2, <1>3, <2>2
<1>8. \A s \in Servers : Addressed(hostName, connected, ctx[s], wrote[s])
  BY <1>2, <1>3, <1>6, BlankIs DEF Addressed
<1>9. \A s \in Servers : /\ LastOnly(clientScript, hostName, Output(ctx[s], wrote[s]))
                         /\ Matching(clientScript, hostName, Output(ctx[s], wrote[s]))
  BY <1>6, <1>7 DEF LastOnly, Matching
<1>10. /\ ctx \in [Contexts -> Fields] /\ wrote \in [Contexts -> Seq(Writes)]
       /\ \A c \in Contexts : Writer(ctx[c])
  BY <1>1, SoundNow DEF Sound, ContextTypes
<1>11. Civil(clientScript, hostName, connected, ctx, wrote, None)
  BY <1>8, <1>9, <1>10 DEF Civil
<1> QED
  BY <1>4, <1>5, <1>11 DEF PoliteInv

LEMMA PoliteNext == ASSUME IInv, PoliteInv, [Next]_vars PROVE PoliteInv'
<1>1. CASE HandleUserMessage
  BY <1>1, UserEmptyPolite, UserEncryptedPolite, UserBadPolite, UserDataPolite,
     UserFirstHelloPolite DEF HandleUserMessage
<1>2. CASE HandleServerMessage
  BY <1>2, ServerDataPolite, ServerBadPolite DEF HandleServerMessage
<1>3. CASE \E c \in Contexts : ReadOn(c)
  BY <1>3, ReadOnPolite
<1>4. CASE Accept
  BY <1>4, AcceptPolite
<1>5. CASE \E c \in Contexts : Read(c)
  BY <1>5, ReadDonePolite, ReadEndsPolite DEF Read
<1>6. CASE \E c \in Contexts : Write(c)
  BY <1>6, WriteDonePolite, WriteFailedPolite DEF Write
<1>7. CASE \E h \in Hosts : Connect(h)
  BY <1>7, CheckAnsweredPolite, ConnectFailedPolite, ConnectedPolite DEF Connect
<1>8. CASE UNCHANGED vars
  <2>1. /\ world' = world /\ ctx' = ctx /\ hostName' = hostName
        /\ connected' = connected /\ checks' = checks /\ connecting' = connecting
        /\ read' = read /\ taken' = taken /\ wrote' = wrote
    BY <1>8 DEF vars
  <2> QED
    BY <2>1, PoliteKeeps DEF PoliteInv
<1> QED
  BY <1>1, <1>2, <1>3, <1>4, <1>5, <1>6, <1>7, <1>8 DEF Next, Loop

LEMMA PoliteInvariant == Spec => [](IInv /\ PoliteInv)
<1>1. Init => IInv /\ PoliteInv
  BY Initially, PoliteInitially
<1>2. (IInv /\ PoliteInv) /\ [Next]_vars => (IInv /\ PoliteInv)'
  BY NextKeeps, PoliteNext
<1> QED
  BY <1>1, <1>2, PTL DEF Spec

LEMMA FirstPart ==
  ASSUME NEW a \in Seq(Nat), NEW b \in Seq(Nat), NEW c \in Seq(Nat), NEW i \in 1..Len(a)
  PROVE  LET q == (a \o b) \o c
         IN i \in DOMAIN q /\ q[i] = a[i] /\ (i = Len(q) => i = Len(a))
<1>1. /\ a \o b \in Seq(Nat) /\ Len(a) \in Nat /\ Len(b) \in Nat
      /\ Len(a \o b) = Len(a) + Len(b) /\ (a \o b)[i] = a[i]
  BY ConcatAt
<1> DEFINE d == a \o b
<1> HIDE DEF d
<1>2. d \in Seq(Nat) /\ Len(d) = Len(a) + Len(b) /\ d[i] = a[i]
  BY <1>1 DEF d
<1>3. i \in 1..Len(d)
  BY <1>1, <1>2
<1>4. /\ Len(c) \in Nat /\ Len(d \o c) = Len(d) + Len(c)
      /\ DOMAIN (d \o c) = 1..(Len(d) + Len(c)) /\ (d \o c)[i] = d[i]
  BY <1>2, <1>3, ConcatAt
<1>5. i \in 1..(Len(d) + Len(c)) /\ (i = Len(d) + Len(c) => i = Len(a))
  BY <1>1, <1>2, <1>4
<1> QED
  BY <1>2, <1>4, <1>5 DEF d

LEMMA MismatchLast == ASSUME IInv, PoliteInv PROVE MismatchIsLast
<1> SUFFICES ASSUME world.polite, NEW s \in Servers, NEW i \in DOMAIN wrote[s],
                    clientScript[wrote[s][i].rec].kind = "hello",
                    clientScript[wrote[s][i].rec].host # wrote[s][i].to,
                    \A j \in 1..(wrote[s][i].rec - 1) : clientScript[j].kind # "ccs"
             PROVE  i = Len(wrote[s])
  BY DEF MismatchIsLast
<1> DEFINE x == ctx[s]
           w == wrote[s]
           q == Output(x, w)
<1>1. /\ x \in Fields /\ w \in Seq(Writes) /\ Addressed(hostName, connected, x, w)
      /\ LastOnly(clientScript, hostName, q)
  BY SomeServer DEF PoliteInv, Civil
<1>2. Mismatch(clientScript, hostName, w[i].rec)
  <2>1. w[i].to = hostName
    BY <1>1 DEF Addressed
  <2> QED
    BY <2>1 DEF Mismatch, Hello
<1> HIDE DEF x, w
<1> DEFINE a == Records(w)
           b == Records(x.flying)
<1>3. /\ a \in Seq(Nat) /\ b \in Seq(Nat) /\ x.queue \in Seq(Nat)
      /\ Len(a) = Len(w) /\ i \in 1..Len(w) /\ Len(w) \in Nat
      /\ a[i] = w[i].rec
  <2>1. i \in DOMAIN w
    BY DEF w
  <2> QED
    BY <1>1, <2>1, OutputOf, RecordsOf, LenProperties
<1>4. q = (a \o b) \o x.queue
  BY DEF Output
<1> HIDE DEF a, b, q
<1>5. i \in DOMAIN q /\ q[i] = a[i] /\ (i = Len(q) => i = Len(a))
  <2> DEFINE c == x.queue
  <2>1. /\ a \in Seq(Nat) /\ b \in Seq(Nat) /\ c \in Seq(Nat) /\ i \in 1..Len(a)
        /\ q = (a \o b) \o c
    BY <1>3, <1>4
  <2> HIDE DEF c
  <2>2. /\ i \in DOMAIN ((a \o b) \o c) /\ ((a \o b) \o c)[i] = a[i]
        /\ i = Len((a \o b) \o c) => i = Len(a)
    BY ONLY <2>1, FirstPart
  <2> QED
    BY <2>1, <2>2
<1>6. i = Len(q)
  BY <1>1, <1>2, <1>3, <1>5 DEF LastOnly
<1>7. i = Len(w)
  BY <1>3, <1>5, <1>6
<1> QED
  BY <1>7 DEF w

-----------------------------------------------------------------------------
(* The theorems.                                                           *)

(* Between two neighbours of a sequence that increases there is none of it. *)
LEMMA NothingBetween ==
  ASSUME NEW q, NEW h \in Nat, NEW m \in Nat,
         h \in DOMAIN q, h + 1 \in DOMAIN q, m \in DOMAIN q,
         \A j, k \in DOMAIN q : j < k => q[j] < q[k],
         q[h] \in Nat, q[m] \in Nat, q[h + 1] \in Nat,
         q[h] < q[m], q[m] < q[h + 1]
  PROVE  FALSE
<1>1. CASE m < h
  <2>1. q[m] < q[h]
    BY <1>1
  <2> QED
    BY <2>1
<1>2. CASE h + 1 < m
  <2>1. q[h + 1] < q[m]
    BY <1>2
  <2> QED
    BY <2>1
<1>3. CASE m = h \/ m = h + 1
  BY <1>3
<1> QED
  BY <1>1, <1>2, <1>3

LEMMA NoGap ==
  ASSUME NEW sc, NEW n \in Nat, NEW q \in Seq(Nat), Relayed(sc, q, n),
         NEW i \in 2..Len(q)
  PROVE  /\ q[i - 1] < q[i]
         /\ \A j \in (q[i - 1] + 1)..(q[i] - 1) : Skipped(sc, j)
<1>1. /\ DOMAIN q = 1..Len(q) /\ Len(q) \in Nat /\ q # <<>>
      /\ \A k \in 1..Len(q) : q[k] \in Nat
  BY ElementOfSeq, EmptySeq, LenProperties
<1>2. /\ 1 \in DOMAIN q /\ i \in DOMAIN q /\ i - 1 \in DOMAIN q /\ i - 1 < i
      /\ i - 1 = 1 \/ 1 < i - 1
  BY <1>1
<1> DEFINE h == i - 1
<1>0. /\ h \in DOMAIN q /\ h < i /\ (h = 1 \/ 1 < h)
      /\ i \in DOMAIN q /\ 1 \in DOMAIN q /\ i \in Nat /\ h \in Nat /\ i = h + 1
  BY <1>1, <1>2
<1> HIDE DEF h
<1>9. \A j, k \in DOMAIN q : j < k => q[j] < q[k]
  BY DEF Relayed
<1>3. q[1] <= q[i - 1] /\ q[i - 1] < q[i]
  <2>1. q[h] < q[i] /\ (h = 1 \/ q[1] < q[h])
    BY <1>0, <1>9
  <2>2. q[1] \in Nat /\ q[h] \in Nat
    BY <1>0, <1>1
  <2> QED
    BY <2>1, <2>2 DEF h
<1>4. ASSUME NEW j \in (q[i - 1] + 1)..(q[i] - 1), ~Skipped(sc, j)
      PROVE  FALSE
  <2>1. /\ j \in Nat /\ j \in q[1]..q[i] /\ q[i - 1] < j /\ j < q[i]
    BY <1>1, <1>2, <1>3
  <2>2. PICK m \in DOMAIN q : q[m] = j
    BY <1>2, <1>4, <2>1 DEF Relayed
  <2>3. /\ q[h] < q[m] /\ q[m] < q[i] /\ m \in DOMAIN q /\ m \in Nat
        /\ q[h] \in Nat /\ q[m] \in Nat /\ q[i] \in Nat
    BY <1>0, <1>1, <2>1, <2>2 DEF h
  <2> QED
    BY <1>0, <1>9, <2>3, NothingBetween
<1> QED
  BY <1>3, <1>4

(* What a server has been sent.                                            *)
LEMMA ServerWasSent ==
  ASSUME IInv, NEW s \in Servers
  PROVE  /\ DOMAIN wrote[s] = 1..Len(wrote[s])
         /\ Records(wrote[s]) \in Seq(Nat)
         /\ Len(Records(wrote[s])) = Len(wrote[s])
         /\ \A i \in 1..Len(wrote[s]) : Records(wrote[s])[i] = wrote[s][i].rec
         /\ Relayed(clientScript, Records(wrote[s]), taken[Client])
<1>1. s \in Contexts /\ Client \in Contexts
  BY SomeServer
<1>2. /\ ctx[s] \in Fields /\ wrote[s] \in Seq(Writes) /\ taken[Client] \in Nat
  BY <1>1 DEF IInv, TypeOK, Writes
<1>3. Relayed(clientScript, Sent(ctx[s], wrote[s]), taken[Client])
  BY DEF IInv, Sound, ToServer, clientScript
<1>4. Records(wrote[s]) \in Seq(Nat) /\ Records(ctx[s].flying) \in Seq(Nat)
  BY <1>2, OutputOf
<1>5. Relayed(clientScript, Records(wrote[s]), taken[Client])
  BY <1>2, <1>3, <1>4, RelayedPrefix DEF Sent
<1> QED
  BY <1>2, <1>5, RecordsOf, LenProperties

LEMMA IsRefused ==
  ASSUME NEW c \in Contexts, NEW i, Refused(c, i)
  PROVE  Bad(Script(c), i)
BY DEF Refused, Bad

LEMMA SentWell == IInv => NothingRefusedIsSent
<1> SUFFICES ASSUME IInv PROVE NothingRefusedIsSent
  OBVIOUS
<1>1. /\ Client \in Contexts /\ 1 \in Contexts /\ Servers \subseteq Contexts
      /\ Contexts = {Client} \cup Servers /\ 1 # Client /\ Client \notin Servers
  BY SomeServer DEF Contexts, Servers, Client
<1>2. Script(Client) = clientScript /\ Script(1) = serverScript
  BY <1>1 DEF Script
<1>3. \A i \in DOMAIN wrote[Client] : wrote[Client][i].rec = i
  BY ClientWasSent
<1>4. ASSUME NEW s \in Servers, wrote[s] # <<>>
      PROVE  clientScript[wrote[s][1].rec].kind = "hello"
  <2>1. wrote[s] \in Seq(Writes)
    BY <1>1 DEF IInv, TypeOK, Writes
  <2>2. Len(wrote[s]) \in Nat /\ Len(wrote[s]) # 0
    BY <1>4, <2>1, EmptySeq, LenProperties
  <2>3. 1 \in 1..Len(wrote[s]) /\ Records(wrote[s]) # <<>>
    BY <2>2, ServerWasSent, EmptySeq
  <2> QED
    BY <2>3, ServerWasSent DEF Relayed, Hello
<1>5. ASSUME NEW s \in Servers, NEW i \in 2..Len(wrote[s])
      PROVE  /\ wrote[s][i - 1].rec < wrote[s][i].rec
             /\ \A j \in (wrote[s][i - 1].rec + 1)..(wrote[s][i].rec - 1) :
                  clientScript[j].kind = "empty"
  <2> DEFINE q == Records(wrote[s])
  <2>1. wrote[s] \in Seq(Writes) /\ taken[Client] \in Nat
    BY <1>1 DEF IInv, TypeOK, Writes
  <2>2. Len(wrote[s]) \in Nat
    BY <2>1, LenProperties
  <2>3. i \in 1..Len(wrote[s]) /\ i - 1 \in 1..Len(wrote[s])
    BY <2>2
  <2>4. /\ q \in Seq(Nat) /\ i \in 2..Len(q) /\ Relayed(clientScript, q, taken[Client])
        /\ q[i] = wrote[s][i].rec /\ q[i - 1] = wrote[s][i - 1].rec
    BY <2>3, ServerWasSent
  <2> HIDE DEF q
  <2>5. /\ q[i - 1] < q[i]
        /\ \A j \in (q[i - 1] + 1)..(q[i] - 1) : Skipped(clientScript, j)
    BY <2>1, <2>4, NoGap
  <2> QED
    BY <2>4, <2>5 DEF Skipped
<1>6. ASSUME NEW c \in Contexts, NEW i \in DOMAIN wrote[c]
      PROVE  ~Refused(IF c = Client THEN 1 ELSE Client, wrote[c][i].rec)
  <2>1. CASE c = Client
    <3>1. wrote[c][i].rec = i /\ ~Bad(Script(1), i)
      BY <1>2, <2>1, ClientWasSent
    <3> QED
      BY <1>1, <2>1, <3>1, IsRefused
  <2>2. CASE c \in Servers
    <3>1. ~Bad(clientScript, wrote[c][i].rec)
      <4>1. DOMAIN Records(wrote[c]) = 1..Len(wrote[c])
        BY <2>2, ServerWasSent, LenProperties
      <4> QED
        BY <2>2, <4>1, ServerWasSent DEF Relayed
    <3> QED
      BY <1>1, <1>2, <2>2, <3>1, IsRefused
  <2> QED
    BY <1>1, <2>1, <2>2
<1> QED
  BY <1>3, <1>4, <1>5, <1>6 DEF NothingRefusedIsSent

LEMMA InOrder == IInv => RelayedInOrder
<1> SUFFICES ASSUME IInv, NEW s \in Servers,
                    ctx[s].paired = Client, ctx[Client].socket = "open"
             PROVE  /\ {Out(s)[k] : k \in DOMAIN Out(s)} = FromHello
                    /\ \A j, k \in DOMAIN Out(s) : j < k => Out(s)[j] < Out(s)[k]
                    /\ Len(Out(Client)) = taken[s]
                    /\ \A k \in DOMAIN Out(Client) : Out(Client)[k] = k
  BY DEF RelayedInOrder
<1> DEFINE n == taken[Client]
           q == Output(ctx[1], wrote[1])
<1>1. Client \in Contexts /\ 1 \in Contexts /\ 1 \in Servers /\ s \in Nat /\ None \notin Nat
  BY SomeServer DEF None, Servers
<1>2. /\ Links(ctx, created, wrote)
      /\ Open(world, ctx, created, connected, checks, connecting, taken, wrote)
      /\ ToServer(world.client, taken[Client], ctx[1], wrote[1])
  BY <1>1 DEF IInv, Sound
<1>3. s = 1
  BY <1>1, <1>2 DEF Links, Open
<1>4. Useful(clientScript, ctx[1], wrote[1])
  BY <1>2, <1>3 DEF Open, clientScript
<1>5. Relayed(clientScript, q, n) /\ Complete(clientScript, q, n)
  BY <1>2, <1>3, <1>4 DEF ToServer, Useful, clientScript
<1>6. Echo(serverScript, taken[1], ctx[Client], wrote[Client])
  BY <1>2 DEF Open, serverScript
<1>7. /\ Out(s) = q /\ Out(Client) = Output(ctx[Client], wrote[Client])
  BY <1>3 DEF Out, Output
<1>8. q \in Seq(Nat) /\ n \in Nat
  <2>1. ctx[1] \in Fields /\ wrote[1] \in Seq(Writes) /\ n \in Nat
    BY <1>1 DEF IInv, TypeOK, Writes
  <2> QED
    BY <2>1, OutputOf
<1>9. \A i \in 1..(q[1] - 1) : ~Hello(clientScript, i)
  BY <1>4 DEF Useful
<1> HIDE DEF q, n
<1>10. /\ DOMAIN q = 1..Len(q) /\ Len(q) \in Nat /\ 1 \in DOMAIN q
       /\ \A k \in DOMAIN q : q[k] \in Nat
  <2>1. q # <<>>
    BY <1>5 DEF Complete
  <2>2. Len(q) \in Nat /\ Len(q) # 0
    BY <1>8, <2>1, EmptySeq, LenProperties
  <2> QED
    BY <1>8, <2>2, LenProperties, ElementOfSeq
<1>11. ASSUME NEW k \in DOMAIN q PROVE q[k] \in FromHello
  <2>1. q[k] \in 1..n /\ ~Bad(clientScript, q[k]) /\ Hello(clientScript, q[1])
    BY <1>5, <1>10, <1>11 DEF Relayed, Complete
  <2>2. q[1] \in 1..q[k]
    <3>1. k = 1 \/ 1 < k
      BY <1>10
    <3>2. q[1] <= q[k] /\ q[1] \in 1..n
      BY <1>5, <1>10, <1>11, <3>1 DEF Relayed
    <3> QED
      BY <1>8, <1>10, <3>2
  <2> QED
    BY <2>1, <2>2 DEF FromHello, Bad, Skipped, Hello, n
<1>12. ASSUME NEW i \in FromHello PROVE \E k \in DOMAIN q : q[k] = i
  <2>1. PICK j \in 1..i : Hello(clientScript, j)
    BY <1>12 DEF FromHello, Hello
  <2>2. i \in 1..n /\ ~Skipped(clientScript, i)
    BY <1>12 DEF FromHello, Skipped, n
  <2>3. ~(j \in 1..(q[1] - 1))
    BY <1>9, <2>1
  <2>4. i \in q[1]..n
    BY <1>8, <1>10, <2>1, <2>2, <2>3
  <2> QED
    BY <1>5, <2>2, <2>4 DEF Complete
<1>13. {q[k] : k \in DOMAIN q} = FromHello
  BY <1>11, <1>12
<1>14. \A j, k \in DOMAIN q : j < k => q[j] < q[k]
  BY <1>5 DEF Relayed
<1>15. /\ Len(Out(Client)) = taken[s]
       /\ \A k \in DOMAIN Out(Client) : Out(Client)[k] = k
  BY <1>3, <1>6, <1>7 DEF Echo
<1> QED
  BY <1>7, <1>13, <1>14, <1>15

(* The fields of every context keep their types, and what was created,     *)
(* checked and written stays within what the client can cause              *)
(* (tls_context.cpp: every handler, whatever ran before it).               *)
THEOREM TypesHold == Spec => []TypeOK
<1>1. IInv => TypeOK
  BY DEF IInv
<1> QED
  BY <1>1, Invariant, PTL

(* A server context that forwards to the client context is the one the     *)
(* client context holds: Stop clears both pointers before either context   *)
(* closes, so no orphan of an earlier Stop reaches the client.             *)
THEOREM PairsAreMutual == Spec => []PairedMutually
<1>1. IInv => PairedMutually
  BY DEF IInv, Sound, Links, PairedMutually
<1> QED
  BY <1>1, Invariant, PTL

(* HandleServerMessage and DoConnectHost use paired_ without a look at it, *)
(* and find it null on a stopped connection only.                          *)
THEOREM CrashNeedsStop == Spec => []CrashOnlyAfterStop
<1>1. IInv => CrashOnlyAfterStop
  BY DEF IInv
<1> QED
  BY <1>1, Invariant, PTL

(* As long as nobody has called Stop, Queue, DoWrite and Start together    *)
(* lose, double or overtake nothing: what one side has been handled of is  *)
(* exactly what the other side's context has sent or has still to send.    *)
THEOREM RelaysInOrder == Spec => []RelayedInOrder
BY InOrder, Invariant, PTL

(* What a peer has been sent is a stretch of the other's stream without a  *)
(* gap and without a record that HandleUserMessage or HandleServerMessage  *)
(* refused, whatever failed, was stopped or created again before.          *)
THEOREM SendsNothingRefused == Spec => []NothingRefusedIsSent
BY SentWell, Invariant, PTL

(* After a polite client's hello for a host that was not checked the       *)
(* server it went to is sent nothing more: HandleUserMessage queues such a *)
(* hello before it compares the names, and the Stop that follows cuts the  *)
(* server context off for good, whatever is still in flight or queued.     *)
THEOREM MismatchEndsIt == Spec => []MismatchIsLast
BY PoliteInvariant, MismatchLast, PTL

=============================================================================
