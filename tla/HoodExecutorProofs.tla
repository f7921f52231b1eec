------------------------- MODULE HoodExecutorProofs -------------------------
(***************************************************************************)
(* For every number of workers and every plan: no wake-up is lost, and the *)
(* threads run the graph of tasks as TaskGraph says.                       *)
(***************************************************************************)
EXTENDS HoodExecutor, TLAPS, WellFoundedInduction, SequenceTheorems,
        FiniteSetTheorems

IdlePlaces == {"top", "wait", "blocked", "exited", "dead"}
BusyPlaces == {"woken", "clear", "test", "delay", "tell", "begin", "load",
               "alert", "loading", "running", "countdown", "queue", "set",
               "checked"}

(* QueueHasWorker is inductive, once every worker is somewhere.            *)
IInv == /\ pc \in [Workers -> IdlePlaces \cup BusyPlaces]
        /\ QueueHasWorker

LEMMA InitInv == Init => IInv
BY DEF Init, IInv, QueueHasWorker, IdlePlaces

(* A step after which a worker is busy needs nothing else.                 *)
LEMMA BusyKeeps ==
  ASSUME IInv, NEW w \in Workers, NEW at \in BusyPlaces, To(w, at)
  PROVE  IInv'
<1>1. pc' \in [Workers -> IdlePlaces \cup BusyPlaces]
  BY DEF IInv, To
<1>2. ~Idle(w)'
  BY DEF IInv, To, Idle, BusyPlaces
<1> QED BY <1>1, <1>2 DEF IInv, QueueHasWorker

(* An idle worker may go from one place to another.                        *)
LEMMA IdleKeeps ==
  ASSUME IInv, NEW w \in Workers, Idle(w),
         NEW at \in IdlePlaces \cup BusyPlaces, To(w, at),
         UNCHANGED <<queue, plan, taskEvent, deleted, sched, main>>
  PROVE  IInv'
<1>1. pc' \in [Workers -> IdlePlaces \cup BusyPlaces]
  BY DEF IInv, To
<1>2. \A v \in Workers : ~Idle(v) => ~Idle(v)'
  BY DEF IInv, To, Idle
<1> QED BY <1>1, <1>2 DEF IInv, QueueHasWorker

(* A worker that goes idle leaves nothing behind, or is told to go.        *)
LEMMA LeaveKeeps ==
  ASSUME IInv, NEW w \in Workers, NEW at \in IdlePlaces, To(w, at),
         queue' = <<>> \/ deleted' \/ plan'.raising
  PROVE  IInv'
BY DEF IInv, To, QueueHasWorker

(* Setting the event.                                                      *)
LEMMA SetKeeps ==
  ASSUME IInv, NEW at \in [Workers -> IdlePlaces \cup BusyPlaces],
         SetTaskEvent(at)
  PROVE  IInv'
BY DEF IInv, SetTaskEvent, Woken, QueueHasWorker, BusyPlaces

(* What leaves the workers, their queue and the event alone.               *)
LEMMA RestKeeps ==
  ASSUME IInv, pc' = pc,
         UNCHANGED <<queue, plan, taskEvent, deleted>> \/ deleted',
         sched = "set" => sched' = "set", main = "set" => main' = "set"
  PROVE  IInv'
BY DEF IInv, QueueHasWorker, Idle

LEMMA WorkerKeeps ==
  ASSUME IInv, NEW w \in Workers, Worker(w) \/ Raise(w)
  PROVE  IInv'
<1>1. CASE Top(w)
  <2>1. PICK at \in {"exited", "wait"} : To(w, at)
    BY <1>1 DEF Top
  <2> QED BY <1>1, <2>1, IdleKeeps DEF Top, At, Idle, work, events, IdlePlaces
<1>2. CASE WaitTask(w)
  <2>1. PICK at \in {"woken", "blocked"} : To(w, at)
    BY <1>2 DEF WaitTask
  <2> QED BY <1>2, <2>1, IdleKeeps
       DEF WaitTask, At, Idle, work, events, IdlePlaces, BusyPlaces
<1>3. CASE Wake(w)
  <2>1. CASE deleted
    <3>1. To(w, "exited") /\ deleted'
      BY <1>3, <2>1 DEF Wake, events
    <3> QED BY <3>1, LeaveKeeps DEF IdlePlaces
  <2>2. CASE ~deleted
    BY <1>3, <2>2, BusyKeeps DEF Wake, BusyPlaces
  <2> QED BY <2>1, <2>2
<1>4. CASE Get(w)
  <2>1. CASE queue = <<>>
    <3>1. To(w, "top") /\ queue' = <<>>
      BY <1>4, <2>1 DEF Get
    <3> QED BY <3>1, LeaveKeeps DEF IdlePlaces
  <2>2. CASE queue # <<>>
    BY <1>4, <2>2, BusyKeeps DEF Get, BusyPlaces
  <2> QED BY <2>1, <2>2
<1>5. CASE \/ Clear(w) \/ Delay(w) \/ TellScheduler(w) \/ Begin(w) \/ Load(w)
           \/ Loaded(w) \/ Finish(w) \/ Countdown(w) \/ QueueFresh(w)
  <2>1. \E at \in BusyPlaces : To(w, at)
    BY <1>5 DEF Clear, Delay, TellScheduler, Begin, Load, Loaded, Finish,
                Countdown, QueueFresh, BusyPlaces
  <2> QED BY <2>1, BusyKeeps
<1>6. CASE AlertLoad(w) \/ SetFresh(w)
  <2>1. PICK at \in BusyPlaces : SetTaskEvent([pc EXCEPT ![w] = at])
    BY <1>6 DEF AlertLoad, SetFresh, BusyPlaces
  <2>2. [pc EXCEPT ![w] = at] \in [Workers -> IdlePlaces \cup BusyPlaces]
    BY DEF IInv
  <2> QED BY <2>1, <2>2, SetKeeps
<1>7. CASE Checked(w)
  <2>1. CASE deleted
    <3>1. To(w, "top") /\ deleted'
      BY <1>7, <2>1 DEF Checked, events
    <3> QED BY <3>1, LeaveKeeps DEF IdlePlaces
  <2>2. CASE ~deleted
    BY <1>7, <2>2, BusyKeeps DEF Checked, BusyPlaces
  <2> QED BY <2>1, <2>2
<1>8. CASE Raise(w)
  <2>1. To(w, "dead") /\ plan'.raising
    BY <1>8 DEF Raise, At
  <2> QED BY <2>1, LeaveKeeps DEF IdlePlaces
<1> QED BY <1>1, <1>2, <1>3, <1>4, <1>5, <1>6, <1>7, <1>8 DEF Worker

LEMMA SchedulerKeeps == IInv /\ (Scheduler \/ SchedTimeout) => IInv'
<1> SUFFICES ASSUME IInv, Scheduler \/ SchedTimeout PROVE IInv'
  OBVIOUS
<1>1. CASE SchedTop \/ SchedWait \/ SchedTimeout \/ SchedClear \/ SchedScan
  BY <1>1, RestKeeps DEF SchedTop, SchedWait, SchedTimeout, SchedClear,
                         SchedScan, Sched, work, events
<1>2. CASE SchedQueue
  <2>1. pc' = pc /\ sched' = "set"
    BY <1>2 DEF SchedQueue
  <2> QED BY <2>1 DEF IInv, QueueHasWorker
<1>3. CASE SchedSet
  BY <1>3, SetKeeps DEF SchedSet, IInv
<1> QED BY <1>1, <1>2, <1>3 DEF Scheduler

LEMMA MainKeeps == IInv /\ MainThread => IInv'
<1> SUFFICES ASSUME IInv, MainThread PROVE IInv'
  OBVIOUS
<1>1. CASE PlayQueue
  <2>1. pc' = pc /\ main' = "set"
    BY <1>1 DEF PlayQueue
  <2> QED BY <2>1 DEF IInv, QueueHasWorker
<1>2. CASE PlaySet \/ DeleteWakesWorkers
  BY <1>2, SetKeeps DEF PlaySet, DeleteWakesWorkers, IInv
<1>3. CASE PlayDone \/ Delete \/ DeleteWakesScheduler
  BY <1>3, RestKeeps DEF PlayDone, Delete, DeleteWakesScheduler, Main, work, events
<1> QED BY <1>1, <1>2, <1>3 DEF MainThread

LEMMA NextKeeps == IInv /\ [Next]_vars => IInv'
<1> SUFFICES ASSUME IInv, [Next]_vars PROVE IInv'
  OBVIOUS
<1>1. ASSUME NEW n, Elapse(n) PROVE IInv'
  BY <1>1, RestKeeps DEF Elapse, events
<1>2. CASE UNCHANGED vars
  BY <1>2, RestKeeps DEF vars
<1> QED BY <1>1, <1>2, WorkerKeeps, SchedulerKeeps, MainKeeps DEF Next

(* QueueHasWorker: whatever the order in which threads wait for, set and   *)
(* clear new_task_event, a queued task is going to be looked for.          *)
THEOREM NoWakeUpIsLost == Spec => []QueueHasWorker
<1>1. IInv => QueueHasWorker
  BY DEF IInv
<1> QED BY <1>1, InitInv, NextKeeps, PTL DEF Spec

-----------------------------------------------------------------------------
(* Induction over data.  The induction theorems of the library take an     *)
(* operator, which the provers cannot instantiate; that every set of numbers*)
(* has a least element does the same for sets.  In this way Kept and       *)
(* FlattenSeq, which are recursive functions, are followed through.        *)

(* The least element of a set of numbers, which is what the inductions     *)
(* over data below rest on.                                                *)
LEMMA LeastNumber ==
  ASSUME NEW T \in SUBSET Nat, T # {}
  PROVE  \E m \in T : \A k \in T : m <= k
<1> DEFINE R == {s \in Nat \X Nat : s[1] < s[2]}
<1>1. IsWellFoundedOn(R, Nat)
  BY NatLessThanWellFounded DEF OpToRel
<1>2. \A x, y \in Nat : x < y => <<x, y>> \in R
  OBVIOUS
<1> HIDE DEF R
<1>3. PICK m \in T : \A k \in T : <<k, m>> \notin R
  BY <1>1, WFMin
<1>4. \A k \in T : ~(k < m)
  BY <1>2, <1>3
<1>5. \A k \in T : k \in Nat
  OBVIOUS
<1> QED BY <1>4, <1>5

(* A set that has 0, and n if it has n - 1, has all numbers up to a bound. *)
LEMMA UpTo ==
  ASSUME NEW G, NEW z \in Nat, 0 \in G, \A n \in 1..z : n - 1 \in G => n \in G
  PROVE  \A n \in 0..z : n \in G
<1> SUFFICES ASSUME ~ \A n \in 0..z : n \in G PROVE FALSE
  OBVIOUS
<1> DEFINE T == {n \in 0..z : n \notin G}
<1>1. PICK m \in T : \A k \in T : m <= k
  <2>1. T \in SUBSET Nat /\ T # {}
    OBVIOUS
  <2> HIDE DEF T
  <2> QED BY <2>1, LeastNumber
<1>2. m \in 1..z /\ m \notin G /\ m - 1 \in 0..z
  OBVIOUS
<1>3. m - 1 \notin T
  BY <1>1, <1>2
<1> QED BY <1>2, <1>3

(* The positions of a list that is put behind another.                     *)
LEMMA Joined ==
  ASSUME NEW S, NEW a \in Seq(S), NEW b \in Seq(S)
  PROVE  LET s == a \o b
         IN /\ s \in Seq(S) /\ Len(s) = Len(a) + Len(b)
            /\ Len(a) \in Nat /\ Len(b) \in Nat
            /\ \A k \in 1..Len(s) :
                 \/ k \in 1..Len(a) /\ k <= Len(a) /\ s[k] = a[k]
                 \/ /\ ~(k <= Len(a)) /\ k - Len(a) \in 1..Len(b)
                    /\ Len(a) + (k - Len(a)) = k /\ s[k] = b[k - Len(a)]
            /\ \A k \in 1..Len(a) :
                 k \in 1..Len(s) /\ k <= Len(a) /\ s[k] = a[k]
            /\ \A k \in 1..Len(b) :
                 /\ Len(a) + k \in 1..Len(s) /\ ~(Len(a) + k <= Len(a))
                 /\ Len(a) + k - Len(a) = k /\ s[Len(a) + k] = b[k]
<1> DEFINE s == a \o b
<1>1. Len(a) \in Nat /\ Len(b) \in Nat
  OBVIOUS
<1>2. s \in Seq(S) /\ Len(s) = Len(a) + Len(b)
  OBVIOUS
<1>3. \A k \in 1..Len(a) : k \in 1..(Len(a) + Len(b)) /\ k <= Len(a)
  BY <1>1
<1>4. \A k \in 1..Len(b) : /\ Len(a) + k \in 1..(Len(a) + Len(b))
                           /\ ~(Len(a) + k <= Len(a))
                           /\ Len(a) + k - Len(a) = k
  BY <1>1
<1>5. \A k \in 1..Len(a) : s[k] = a[k]
  BY <1>1, <1>2
<1>6. \A k \in 1..Len(b) : s[Len(a) + k] = b[k]
  BY <1>1, <1>2
<1> HIDE DEF s
<1>7. \A k \in 1..(Len(a) + Len(b)) :
        \/ k \in 1..Len(a) /\ k <= Len(a)
        \/ /\ ~(k <= Len(a)) /\ k - Len(a) \in 1..Len(b)
           /\ Len(a) + (k - Len(a)) = k
  BY <1>1
<1>8. \A k \in 1..Len(s) :
        \/ k \in 1..Len(a) /\ k <= Len(a) /\ s[k] = a[k]
        \/ /\ ~(k <= Len(a)) /\ k - Len(a) \in 1..Len(b)
           /\ Len(a) + (k - Len(a)) = k /\ s[k] = b[k - Len(a)]
  <2> TAKE k \in 1..Len(s)
  <2>1. CASE k \in 1..Len(a) /\ k <= Len(a)
    BY <1>5, <2>1
  <2>2. CASE /\ ~(k <= Len(a)) /\ k - Len(a) \in 1..Len(b)
             /\ Len(a) + (k - Len(a)) = k
    BY <1>6, <2>2
  <2> QED BY <1>2, <1>7, <2>1, <2>2
<1> QED BY <1>1, <1>2, <1>3, <1>4, <1>5, <1>6, <1>8 DEF s

(* The function that Kept is defined with.                                 *)
KeptBy(kept, s, I) ==
  kept = [i \in 0..Len(s) |-> IF i = 0 THEN <<>>
                             ELSE IF i \in I THEN Append(kept[i - 1], s[i])
                             ELSE kept[i - 1]]

LEMMA KeptDefined ==
  ASSUME NEW S, NEW s \in Seq(S), NEW I
  PROVE  \E kept : Kept(s, I) = kept[Len(s)] /\ KeptBy(kept, s, I)
<1> DEFINE Step(g, i) == IF i = 0 THEN <<>>
                         ELSE IF i \in I THEN Append(g[i - 1], s[i])
                         ELSE g[i - 1]
           Made(g, n) == g = [i \in 0..n |-> Step(g, i)]
           kept == CHOOSE g : Made(g, Len(s))
           G == {n \in 0..Len(s) : \E g : Made(g, n)}
<1>1. Len(s) \in Nat
  OBVIOUS
<1>2. 0 \in G
  <2>1. Made([i \in 0..0 |-> <<>>], 0)
    OBVIOUS
  <2> HIDE DEF Made
  <2> QED BY <1>1, <2>1
<1>3. ASSUME NEW n \in 1..Len(s), n - 1 \in G PROVE n \in G
  <2>1. PICK g : Made(g, n - 1)
    BY <1>3
  <2> DEFINE h == [i \in 0..n |-> IF i = n THEN Step(g, n) ELSE g[i]]
  <2>2. \A i \in 0..n : Step(h, i) = Step(g, i)
    <3>1. \A i \in 0..n : i # 0 => i - 1 \in 0..n /\ i - 1 # n
      OBVIOUS
    <3> QED BY <3>1
  <2>3. \A i \in 0..(n - 1) : g[i] = Step(g, i)
    BY <2>1
  <2>4. \A i \in 0..n : h[i] = Step(g, i)
    <3>1. \A i \in 0..n : i = n \/ i \in 0..(n - 1)
      OBVIOUS
    <3> QED BY <2>3, <3>1
  <2>5. h = [i \in 0..n |-> Step(h, i)]
    <3>1. [i \in 0..n |-> Step(h, i)] = [i \in 0..n |-> h[i]]
      BY <2>2, <2>4
    <3> QED BY <3>1
  <2>6. Made(h, n)
    BY <2>5
  <2>7. n \in 0..Len(s)
    BY <1>1
  <2> HIDE DEF Made, h
  <2> QED BY <2>6, <2>7
<1>4. Len(s) \in G
  <2>1. Len(s) \in 0..Len(s)
    BY <1>1
  <2> HIDE DEF G
  <2> QED BY <1>1, <1>2, <1>3, <2>1, UpTo
<1>5. Made(kept, Len(s))
  BY <1>4
<1>6. Kept(s, I) = kept[Len(s)]
  BY DEF Kept
<1>7. KeptBy(kept, s, I)
  BY <1>5 DEF KeptBy
<1> HIDE DEF kept
<1> QED BY <1>6, <1>7

(* What is kept of s are its elements at the positions in I, each once and *)
(* in their order.                                                         *)
Places(t, s, I, f) ==
  /\ f \in [1..Len(t) -> I \cap 1..Len(s)]
  /\ \A k \in 1..Len(t) : t[k] = s[f[k]]
  /\ \A j, k \in 1..Len(t) : j < k => f[j] < f[k]
  /\ \A i \in I \cap 1..Len(s) : \E k \in 1..Len(t) : f[k] = i

LEMMA KeptIs ==
  ASSUME NEW S, NEW s \in Seq(S), NEW I
  PROVE  /\ Kept(s, I) \in Seq(S)
         /\ \E f : Places(Kept(s, I), s, I, f)
<1>made. PICK kept : Kept(s, I) = kept[Len(s)] /\ KeptBy(kept, s, I)
  BY KeptDefined
<1>1. /\ Kept(s, I) = kept[Len(s)]
      /\ kept = [i \in 0..Len(s) |-> IF i = 0 THEN <<>>
                                     ELSE IF i \in I THEN Append(kept[i - 1], s[i])
                                     ELSE kept[i - 1]]
  BY <1>made DEF KeptBy
<1>0. Len(s) \in Nat
  OBVIOUS
<1> DEFINE Up(f, n) ==
             LET t == kept[n]
             IN /\ f \in [1..Len(t) -> I \cap 1..n]
                /\ \A k \in 1..Len(t) : t[k] = s[f[k]]
                /\ \A j, k \in 1..Len(t) : j < k => f[j] < f[k]
                /\ \A i \in I \cap 1..n : \E k \in 1..Len(t) : f[k] = i
           G == {n \in 0..Len(s) : kept[n] \in Seq(S) /\ \E f : Up(f, n)}
<1>2. kept[0] = <<>>
  BY <1>0, <1>1
<1>3. ASSUME NEW n \in 1..Len(s)
      PROVE  kept[n] = IF n \in I THEN Append(kept[n - 1], s[n]) ELSE kept[n - 1]
  <2>1. n \in 0..Len(s) /\ n # 0
    BY <1>0
  <2> QED BY ONLY <1>1, <2>1
<1>4. 0 \in G
  <2>1. kept[0] \in Seq(S) /\ Len(kept[0]) = 0
    BY <1>2
  <2>2. Up([k \in 1..0 |-> 0], 0)
    BY <2>1
  <2> HIDE DEF Up
  <2> QED BY <1>0, <2>1, <2>2
<1>5. ASSUME NEW n \in 1..Len(s), n - 1 \in G PROVE n \in G
  <2> DEFINE t == kept[n - 1]
             u == kept[n]
  <2>1. PICK f : Up(f, n - 1)
    BY <1>5
  <2>2. t \in Seq(S) /\ Len(t) \in Nat /\ n \in Nat /\ s[n] \in S
    BY <1>5, <1>0
  <2>3. /\ \A k \in 1..Len(t) : f[k] \in I /\ f[k] \in 1..n - 1
        /\ \A k \in 1..Len(t) : t[k] = s[f[k]]
        /\ \A j, k \in 1..Len(t) : j < k => f[j] < f[k]
        /\ \A i \in I \cap 1..n - 1 : \E k \in 1..Len(t) : f[k] = i
        /\ f \in [1..Len(t) -> I \cap 1..n - 1]
    BY <2>1
  <2>4. 1..n = 1..(n - 1) \cup {n}
    BY <2>2
  <2>5. CASE n \in I
    <3> DEFINE g == [k \in 1..(Len(t) + 1) |-> IF k = Len(t) + 1 THEN n ELSE f[k]]
    <3>1. u = Append(t, s[n])
      BY <1>3, <2>5
    <3> HIDE DEF t, u
    <3>2. /\ u \in Seq(S) /\ Len(u) = Len(t) + 1
          /\ \A k \in 1..Len(t) : u[k] = t[k]
          /\ u[Len(t) + 1] = s[n]
      BY <2>2, <3>1
    <3>3. 1..Len(u) = 1..Len(t) \cup {Len(t) + 1} /\ Len(t) + 1 \notin 1..Len(t)
      BY <2>2, <3>2
    <3>4. g[Len(t) + 1] = n /\ \A k \in 1..Len(t) : g[k] = f[k]
      BY <2>2, <3>3
    <3>5. \A k \in 1..Len(u) : g[k] \in I \cap 1..n
      BY <2>3, <2>4, <2>5, <3>3, <3>4
    <3>6. g \in [1..Len(u) -> I \cap 1..n]
      BY <3>2, <3>5
    <3>7. \A k \in 1..Len(u) : u[k] = s[g[k]]
      BY <2>3, <3>2, <3>3, <3>4
    <3>8. \A j, k \in 1..Len(u) : j < k => g[j] < g[k]
      <4> SUFFICES ASSUME NEW j \in 1..Len(u), NEW k \in 1..Len(u), j < k
                   PROVE  g[j] < g[k]
        OBVIOUS
      <4>1. j \in 1..Len(t)
        BY <2>2, <3>2
      <4>2. CASE k = Len(t) + 1
        BY <2>2, <2>3, <3>4, <4>1, <4>2
      <4>3. CASE k # Len(t) + 1
        <5>1. k \in 1..Len(t)
          BY <3>3, <4>3
        <5> QED BY <2>3, <3>4, <4>1, <5>1
      <4> QED BY <4>2, <4>3
    <3>9. \A i \in I \cap 1..n : \E k \in 1..Len(u) : g[k] = i
      <4> SUFFICES ASSUME NEW i \in I \cap 1..n
                   PROVE  \E k \in 1..Len(u) : g[k] = i
        OBVIOUS
      <4>1. CASE i = n
        BY <3>3, <3>4, <4>1
      <4>2. CASE i # n
        <5>1. PICK k \in 1..Len(t) : f[k] = i
          BY <2>3, <2>4, <4>2
        <5> QED BY <3>3, <3>4, <5>1
      <4> QED BY <4>1, <4>2
    <3>10. Up(g, n)
      BY ONLY <3>6, <3>7, <3>8, <3>9 DEF u
    <3> HIDE DEF Up, g
    <3> QED BY <3>2, <3>10 DEF u
  <2>6. CASE n \notin I
    <3>1. u = t
      BY <1>3, <2>6
    <3>2. I \cap 1..n = I \cap 1..(n - 1)
      BY <2>4, <2>6
    <3>3. Up(f, n)
      BY ONLY <2>1, <3>1, <3>2
    <3> HIDE DEF Up
    <3> QED BY <2>2, <3>1, <3>3
  <2> QED BY <2>5, <2>6
<1>6. Len(s) \in G
  <2>1. Len(s) \in 0..Len(s)
    BY <1>0
  <2> HIDE DEF G
  <2> QED BY <1>0, <1>4, <1>5, <2>1, UpTo
<1>7. PICK f : Up(f, Len(s))
  BY <1>6
<1>8. kept[Len(s)] \in Seq(S)
  BY <1>6
<1>9. Places(kept[Len(s)], s, I, f)
  BY ONLY <1>7 DEF Places
<1>10. Kept(s, I) = kept[Len(s)]
  BY <1>1
<1> QED BY ONLY <1>8, <1>9, <1>10

LEMMA FlattenDefined ==
  ASSUME NEW ss, Len(ss) \in Nat, Len(ss) > 0
  PROVE  \E flat : /\ FlattenSeq(ss) = flat[Len(ss)]
                   /\ flat = [i \in 1..Len(ss) |->
                                IF i = 1 THEN ss[i] ELSE flat[i - 1] \o ss[i]]
<1> DEFINE Step(g, i) == IF i = 1 THEN ss[i] ELSE g[i - 1] \o ss[i]
           Made(g, n) == g = [i \in 1..n |-> Step(g, i)]
           flat == CHOOSE g : Made(g, Len(ss))
           G == {n \in 0..Len(ss) : \E g : Made(g, n)}
<1>1. 0 \in G
  <2>1. Made([i \in 1..0 |-> 0], 0)
    OBVIOUS
  <2> HIDE DEF Made
  <2> QED BY <2>1
<1>2. ASSUME NEW n \in 1..Len(ss), n - 1 \in G PROVE n \in G
  <2>1. PICK g : Made(g, n - 1)
    BY <1>2
  <2> DEFINE h == [i \in 1..n |-> IF i = n THEN Step(g, n) ELSE g[i]]
  <2>2. \A i \in 1..n : Step(h, i) = Step(g, i)
    <3>1. \A i \in 1..n : i # 1 => i - 1 \in 1..n /\ i - 1 # n
      OBVIOUS
    <3> QED BY <3>1
  <2>3. \A i \in 1..(n - 1) : g[i] = Step(g, i)
    BY <2>1
  <2>4. \A i \in 1..n : h[i] = Step(g, i)
    <3>1. \A i \in 1..n : i = n \/ i \in 1..(n - 1)
      OBVIOUS
    <3> QED BY <2>3, <3>1
  <2>5. h = [i \in 1..n |-> Step(h, i)]
    <3>1. [i \in 1..n |-> Step(h, i)] = [i \in 1..n |-> h[i]]
      BY <2>2, <2>4
    <3> QED BY <3>1
  <2>6. Made(h, n)
    BY ONLY <2>5
  <2>7. n \in 0..Len(ss)
    OBVIOUS
  <2> HIDE DEF Made, h
  <2> QED BY <2>6, <2>7
<1>3. Len(ss) \in G
  <2>1. Len(ss) \in 0..Len(ss)
    OBVIOUS
  <2> HIDE DEF G
  <2> QED BY <1>1, <1>2, <2>1, UpTo
<1>4. Made(flat, Len(ss))
  BY <1>3
<1>5. FlattenSeq(ss) = flat[Len(ss)]
  BY DEF FlattenSeq
<1> HIDE DEF flat
<1> QED BY <1>4, <1>5

(* What a list of lists is flattened to are the elements of its lists,     *)
(* each once: a and b tell in which list an element was, and where.        *)
Origins(t, ss, n, a, b) ==
  /\ a \in [1..Len(t) -> 1..n] /\ b \in [1..Len(t) -> Nat]
  /\ \A k \in 1..Len(t) : b[k] \in 1..Len(ss[a[k]]) /\ t[k] = ss[a[k]][b[k]]
  /\ \A j, k \in 1..Len(t) : a[j] = a[k] /\ b[j] = b[k] => j = k
  /\ \A i \in 1..n : \A j \in 1..Len(ss[i]) :
       \E k \in 1..Len(t) : a[k] = i /\ b[k] = j

LEMMA FlattenIs ==
  ASSUME NEW S, NEW ss \in Seq(Seq(S)), Len(ss) > 0
  PROVE  /\ FlattenSeq(ss) \in Seq(S)
         /\ \E a, b : Origins(FlattenSeq(ss), ss, Len(ss), a, b)
<1>1. Len(ss) \in Nat
  OBVIOUS
<1>2. PICK flat : /\ FlattenSeq(ss) = flat[Len(ss)]
                  /\ flat = [i \in 1..Len(ss) |->
                               IF i = 1 THEN ss[i] ELSE flat[i - 1] \o ss[i]]
  BY <1>1, FlattenDefined
<1>3. \A i \in 1..Len(ss) : ss[i] \in Seq(S)
  OBVIOUS
<1> DEFINE G == {n \in 0..Len(ss) :
                   n = 0 \/ (/\ flat[n] \in Seq(S)
                             /\ \E a, b : Origins(flat[n], ss, n, a, b))}
<1>4. 0 \in G
  BY <1>1
<1>5. ASSUME NEW n \in 1..Len(ss), n - 1 \in G PROVE n \in G
  <2>1. n \in Nat /\ n \in 0..Len(ss) /\ n - 1 \in Nat
    BY <1>1
  <2>2. flat[n] = IF n = 1 THEN ss[n] ELSE flat[n - 1] \o ss[n]
    BY ONLY <1>2, n \in 1..Len(ss)
  <2>3. CASE n = 1
    <3> DEFINE u == ss[1]
               a == [k \in 1..Len(u) |-> 1]
               b == [k \in 1..Len(u) |-> k]
    <3>1. flat[1] = u /\ u \in Seq(S)
      BY <1>3, <2>2, <2>3
    <3>2. Len(u) \in Nat
      BY <3>1
    <3>3. Origins(u, ss, 1, a, b)
      <4> HIDE DEF u
      <4>1. a \in [1..Len(u) -> 1..1] /\ b \in [1..Len(u) -> Nat]
        BY <3>2
      <4>2. 1..1 = {1}
        OBVIOUS
      <4> QED BY <4>1, <4>2, <3>2 DEF Origins, u
    <3> HIDE DEF a, b, u
    <3> QED BY <2>1, <2>3, <3>1, <3>3
  <2>4. CASE n # 1
    <3> DEFINE t == flat[n - 1]
               s == ss[n]
               u == flat[n]
    <3>1. PICK c, d : Origins(t, ss, n - 1, c, d)
      BY <1>5, <2>1, <2>4
    <3>2. t \in Seq(S) /\ s \in Seq(S) /\ u = t \o s
      <4>1. n - 1 # 0
        BY <2>1, <2>4
      <4>2. flat[n - 1] \in Seq(S)
        BY <1>5, <4>1
      <4> QED BY <1>3, <2>2, <2>4, <4>2
    <3>3. Len(t) \in Nat /\ Len(s) \in Nat
      BY <3>2
    <3>4. /\ u \in Seq(S) /\ Len(u) = Len(t) + Len(s)
          /\ \A k \in 1..Len(t) : u[k] = t[k]
          /\ \A k \in 1..Len(s) : u[Len(t) + k] = s[k]
      <4> HIDE DEF t, s, u
      <4> QED BY <3>2
    <3> DEFINE a == [k \in 1..Len(u) |-> IF k <= Len(t) THEN c[k] ELSE n]
               b == [k \in 1..Len(u) |-> IF k <= Len(t) THEN d[k] ELSE k - Len(t)]
    <3>5. /\ c \in [1..Len(t) -> 1..(n - 1)] /\ d \in [1..Len(t) -> Nat]
          /\ \A k \in 1..Len(t) : d[k] \in 1..Len(ss[c[k]]) /\ t[k] = ss[c[k]][d[k]]
          /\ \A j, k \in 1..Len(t) : c[j] = c[k] /\ d[j] = d[k] => j = k
          /\ \A i \in 1..(n - 1) : \A j \in 1..Len(ss[i]) :
               \E k \in 1..Len(t) : c[k] = i /\ d[k] = j
      BY <3>1 DEF Origins
    <3> HIDE DEF t, s, u
    <3>6. \A k \in 1..Len(u) : \/ k \in 1..Len(t) /\ k <= Len(t)
                               \/ k - Len(t) \in 1..Len(s) /\ ~(k <= Len(t))
      BY <3>3, <3>4
    <3>7. /\ \A k \in 1..Len(t) : k \in 1..Len(u) /\ k <= Len(t)
          /\ \A k \in 1..Len(s) : /\ Len(t) + k \in 1..Len(u)
                                  /\ ~(Len(t) + k <= Len(t))
                                  /\ Len(t) + k - Len(t) = k
      BY <3>3, <3>4
    <3>8. \A k \in 1..Len(t) : a[k] = c[k] /\ b[k] = d[k] /\ c[k] \in 1..(n - 1)
      BY <3>5, <3>7
    <3>9. \A k \in 1..Len(u) : ~(k <= Len(t)) => a[k] = n /\ b[k] = k - Len(t)
      OBVIOUS
    <3>10. n \in 1..n /\ n \notin 1..(n - 1) /\ 1..(n - 1) \subseteq 1..n
           /\ \A i \in 1..n : i = n \/ i \in 1..(n - 1)
      BY <2>1
    <3>11. a \in [1..Len(u) -> 1..n] /\ b \in [1..Len(u) -> Nat]
      <4>1. ASSUME NEW k \in 1..Len(u) PROVE a[k] \in 1..n /\ b[k] \in Nat
        <5>1. CASE k \in 1..Len(t)
          BY <3>5, <3>8, <3>10, <5>1
        <5>2. CASE k - Len(t) \in 1..Len(s) /\ ~(k <= Len(t))
          BY <3>9, <3>10, <5>2
        <5> QED BY <3>6, <5>1, <5>2
      <4> QED BY <4>1
    <3>12. \A k \in 1..Len(u) : b[k] \in 1..Len(ss[a[k]]) /\ u[k] = ss[a[k]][b[k]]
      <4> TAKE k \in 1..Len(u)
      <4>1. CASE k \in 1..Len(t)
        BY <3>4, <3>5, <3>8, <4>1
      <4>2. CASE k - Len(t) \in 1..Len(s) /\ ~(k <= Len(t))
        <5>1. a[k] = n /\ b[k] = k - Len(t)
          BY <3>9, <4>2
        <5>2. Len(t) + (k - Len(t)) = k
          BY <3>3
        <5>3. u[k] = s[k - Len(t)]
          BY <3>4, <4>2, <5>2
        <5> QED BY <4>2, <5>1, <5>3 DEF s
      <4> QED BY <3>6, <4>1, <4>2
    <3> HIDE DEF a, b
    <3>13. \A j, k \in 1..Len(u) : a[j] = a[k] /\ b[j] = b[k] => j = k
      <4> SUFFICES ASSUME NEW j \in 1..Len(u), NEW k \in 1..Len(u),
                          a[j] = a[k], b[j] = b[k]
                   PROVE  j = k
        OBVIOUS
      <4>1. CASE j \in 1..Len(t) /\ k \in 1..Len(t)
        BY <3>5, <3>8, <4>1
      <4>2. CASE ~(j <= Len(t)) /\ ~(k <= Len(t))
        <5>1. j - Len(t) = k - Len(t)
          BY <3>9, <4>2
        <5> QED BY <3>3, <5>1
      <4>3. CASE j \in 1..Len(t) /\ ~(k <= Len(t))
        <5>1. a[j] \in 1..(n - 1) /\ a[k] = n
          BY <3>8, <3>9, <4>3
        <5> QED BY <3>10, <5>1
      <4>4. CASE k \in 1..Len(t) /\ ~(j <= Len(t))
        <5>1. a[k] \in 1..(n - 1) /\ a[j] = n
          BY <3>8, <3>9, <4>4
        <5> QED BY <3>10, <5>1
      <4> QED BY <3>6, <4>1, <4>2, <4>3, <4>4
    <3>14. \A i \in 1..n : \A j \in 1..Len(ss[i]) :
             \E k \in 1..Len(u) : a[k] = i /\ b[k] = j
      <4> SUFFICES ASSUME NEW i \in 1..n, NEW j \in 1..Len(ss[i])
                   PROVE  \E k \in 1..Len(u) : a[k] = i /\ b[k] = j
        OBVIOUS
      <4>1. CASE i = n
        <5>1. j \in 1..Len(s)
          BY <4>1 DEF s
        <5>2. /\ Len(t) + j \in 1..Len(u) /\ ~(Len(t) + j <= Len(t))
              /\ Len(t) + j - Len(t) = j
          BY <3>7, <5>1
        <5>3. a[Len(t) + j] = n /\ b[Len(t) + j] = j
          BY <3>9, <5>2
        <5> QED BY <4>1, <5>2, <5>3
      <4>2. CASE i \in 1..(n - 1)
        <5>1. PICK k \in 1..Len(t) : c[k] = i /\ d[k] = j
          BY <3>5, <4>2
        <5> QED BY <3>7, <3>8, <5>1
      <4> QED BY <3>10, <4>1, <4>2
    <3>15. Origins(u, ss, n, a, b)
      BY <3>11, <3>12, <3>13, <3>14 DEF Origins
    <3> QED BY <2>1, <3>4, <3>15 DEF u
  <2> QED BY <2>3, <2>4
<1>6. Len(ss) \in G
  <2>1. Len(ss) \in 0..Len(ss)
    BY <1>1
  <2> HIDE DEF G
  <2> QED BY <1>1, <1>4, <1>5, <2>1, UpTo
<1>7. flat[Len(ss)] \in Seq(S) /\ \E a, b : Origins(flat[Len(ss)], ss, Len(ss), a, b)
  BY <1>1, <1>6
<1> QED BY <1>2, <1>7

-----------------------------------------------------------------------------
(* The nodes of the graph and their dependants, kind by kind.              *)

(* The nodes are told apart by their shapes.                               *)
LEMMA Shapes ==
  ASSUME NEW t, NEW u, NEW i, NEW j, NEW k
  PROVE  /\ Start(t) # End(u) /\ Start(t) # Done /\ End(t) # Done
         /\ Action(t, i) # Start(u) /\ Action(t, i) # End(u) /\ Action(t, i) # Done
         /\ Resource(t, i, k) # Start(u) /\ Resource(t, i, k) # End(u)
         /\ Resource(t, i, k) # Done /\ Resource(t, i, k) # Action(u, j)
<1>1. Start(t) # End(u) /\ Start(t) # Done /\ End(t) # Done
  BY DEF Start, End, Done
<1>2. Action(t, i) # Start(u) /\ Action(t, i) # End(u) /\ Action(t, i) # Done
  BY DEF Start, End, Done, Action
<1>3. /\ Resource(t, i, k) # Start(u) /\ Resource(t, i, k) # End(u)
      /\ Resource(t, i, k) # Done /\ Resource(t, i, k) # Action(u, j)
  BY DEF Start, End, Done, Action, Resource
<1> QED BY ONLY <1>1, <1>2, <1>3

LEMMA Parts ==
  ASSUME NEW t, NEW i, NEW k
  PROVE  /\ Start(t)[1] = t /\ End(t)[1] = t /\ Done[1] = "done"
         /\ Action(t, i)[1] = t /\ Action(t, i)[3] = i
         /\ Resource(t, i, k)[1] = t
         /\ Len(Start(t)) = 2 /\ Len(End(t)) = 2 /\ Len(Done) = 1
         /\ Len(Action(t, i)) = 3 /\ Len(Resource(t, i, k)) = 4
BY DEF Start, End, Done, Action, Resource

LEMMA Same ==
  ASSUME NEW t, NEW u, NEW i, NEW j
  PROVE  /\ Start(t) = Start(u) => t = u
         /\ End(t) = End(u) => t = u
         /\ Action(t, i) = Action(u, j) => t = u /\ i = j
BY DEF Start, End, Action

LEMMA NodeCases ==
  ASSUME NEW p, NEW n
  PROVE  n \in GraphNodes(p) <=>
           \/ n = Done
           \/ \E t \in Tasks(p) : n = Start(t) \/ n = End(t)
           \/ \E t \in Tasks(p) : \E i \in 1..p.actions[t] : n = Action(t, i)
BY DEF GraphNodes, Actions

LEMMA DependantsOf ==
  ASSUME NEW p, NEW t, NEW i, NEW k
  PROVE  /\ Dependants(p, Done) = <<>>
         /\ Dependants(p, Start(t)) =
              <<End(t)>> \o IF p.actions[t] > 0 THEN <<Action(t, 1)>> ELSE <<>>
         /\ Dependants(p, End(t)) = EndDependants(p, t)
         /\ Dependants(p, Action(t, i)) =
              IF i < p.actions[t] THEN <<Action(t, i + 1)>> ELSE <<End(t)>>
         /\ Dependants(p, Resource(t, i, k)) = <<>>
<1>1. Dependants(p, Done) = <<>>
  <2>1. \A u : Done # Start(u) /\ Done # End(u)
    BY Shapes
  <2>2. Len(Done) = 1
    BY Parts
  <2> QED BY <2>1, <2>2 DEF Dependants
<1>2. Dependants(p, Start(t)) =
        <<End(t)>> \o IF p.actions[t] > 0 THEN <<Action(t, 1)>> ELSE <<>>
  <2>1. Start(t)[1] = t /\ Len(Start(t)) = 2
    BY Parts
  <2>2. Start(t) # Done /\ Start(t) # End(t)
    BY Shapes
  <2> QED BY <2>1, <2>2 DEF Dependants
<1>3. Dependants(p, End(t)) = EndDependants(p, t)
  <2>1. End(t)[1] = t /\ Len(End(t)) = 2
    BY Parts
  <2>2. End(t) # Done /\ Start(t) # End(t)
    BY Shapes
  <2> QED BY <2>1, <2>2 DEF Dependants
<1>4. Dependants(p, Action(t, i)) =
        IF i < p.actions[t] THEN <<Action(t, i + 1)>> ELSE <<End(t)>>
  <2>1. Action(t, i)[1] = t /\ Action(t, i)[3] = i /\ Len(Action(t, i)) = 3
    BY Parts
  <2>2. Action(t, i) # Done /\ Action(t, i) # Start(t) /\ Action(t, i) # End(t)
    BY Shapes
  <2> QED BY <2>1, <2>2 DEF Dependants
<1>5. Dependants(p, Resource(t, i, k)) = <<>>
  <2>1. Resource(t, i, k)[1] = t /\ Len(Resource(t, i, k)) = 4
    BY Parts
  <2>2. Resource(t, i, k) # Done /\ Resource(t, i, k) # Start(t)
        /\ Resource(t, i, k) # End(t)
    BY Shapes
  <2> QED BY <2>1, <2>2 DEF Dependants
<1> QED BY ONLY <1>1, <1>2, <1>3, <1>4, <1>5

-----------------------------------------------------------------------------
(* What a task has written down for another, within EndDependants.         *)

LEMMA PlanFacts ==
  ASSUME NEW p \in Plans
  PROVE  /\ p.tasks \in Seq(Tasks(p)) /\ Len(p.tasks) \in Nat /\ Len(p.tasks) > 0
         /\ \A i, j \in DOMAIN p.tasks : p.tasks[i] = p.tasks[j] => i = j
         /\ \A t \in Tasks(p) :
              /\ p.before[t] \in Seq(Tasks(p)) /\ Len(p.before[t]) \in Nat
              /\ p.after[t] \in Seq(Tasks(p)) /\ Len(p.after[t]) \in Nat
              /\ p.actions[t] \in Nat
              /\ \A i \in 1..p.actions[t] : p.resources[t][i] \in Nat
<1>1. /\ p.tasks \in Seq(Tasks(p)) /\ Len(p.tasks) > 0
      /\ \A i, j \in DOMAIN p.tasks : p.tasks[i] = p.tasks[j] => i = j
      /\ \A t \in Tasks(p) :
              /\ p.before[t] \in Seq(Tasks(p))
              /\ p.after[t] \in Seq(Tasks(p))
              /\ p.actions[t] \in Nat
              /\ \A i \in 1..p.actions[t] : p.resources[t][i] \in Nat
  BY ExecutorAssumption
<1>2. \A T : \A s \in Seq(T) : Len(s) \in Nat
  OBVIOUS
<1> QED BY ONLY <1>1, <1>2

(* What is in the list of the end of u because of task v: u's "before" if  *)
(* they are the same, and the "after" of v that name u.                    *)
Segment(p, u, v) ==
  (IF v = u THEN Starts(p.before[u]) ELSE <<>>) \o
  Kept([j \in DOMAIN p.after[v] |-> Start(v)],
       {j \in DOMAIN p.after[v] : p.after[v][j] = u})

Labels(p, u, v, s, kind, at) ==
  /\ kind \in [1..Len(s) -> {"before", "after"}] /\ at \in [1..Len(s) -> Nat]
  /\ \A k \in 1..Len(s) : kind[k] = "before" =>
       v = u /\ at[k] \in DOMAIN p.before[u] /\ s[k] = Start(p.before[u][at[k]])
  /\ \A k \in 1..Len(s) : kind[k] = "after" =>
       /\ at[k] \in DOMAIN p.after[v] /\ p.after[v][at[k]] = u
       /\ s[k] = Start(v)
  /\ \A j, k \in 1..Len(s) : kind[j] = kind[k] /\ at[j] = at[k] => j = k
  /\ v = u => \A i \in DOMAIN p.before[u] :
                \E k \in 1..Len(s) : kind[k] = "before" /\ at[k] = i
  /\ \A i \in DOMAIN p.after[v] : p.after[v][i] = u =>
       \E k \in 1..Len(s) : kind[k] = "after" /\ at[k] = i

LEMMA SegmentIs ==
  ASSUME NEW p \in Plans, NEW u \in Tasks(p), NEW v \in Tasks(p)
  PROVE  /\ Segment(p, u, v) \in Seq(GraphNodes(p))
         /\ \E kind, at : Labels(p, u, v, Segment(p, u, v), kind, at)
<1> DEFINE pre  == IF v = u THEN Starts(p.before[u]) ELSE <<>>
           mine == [j \in DOMAIN p.after[v] |-> Start(v)]
           hits == {j \in DOMAIN p.after[v] : p.after[v][j] = u}
           post == Kept(mine, hits)
           s    == Segment(p, u, v)
           N    == GraphNodes(p)
<1>1. \A t \in Tasks(p) : Start(t) \in N
  BY NodeCases
<1>2. /\ p.before[u] \in Seq(Tasks(p)) /\ p.after[v] \in Seq(Tasks(p))
      /\ Len(p.before[u]) \in Nat /\ Len(p.after[v]) \in Nat
  BY PlanFacts
<1>3. DOMAIN p.before[u] = 1..Len(p.before[u]) /\ DOMAIN p.after[v] = 1..Len(p.after[v])
  BY <1>2
<1> HIDE DEF N
<1>4. mine \in Seq(N) /\ Len(mine) = Len(p.after[v])
      /\ \A k \in 1..Len(mine) : mine[k] = Start(v)
  BY <1>1, <1>2, <1>3
<1>5. /\ pre \in Seq(N) /\ Len(pre) \in Nat
      /\ Len(pre) = IF v = u THEN Len(p.before[u]) ELSE 0
      /\ \A k \in 1..Len(pre) : /\ v = u /\ k \in DOMAIN p.before[u]
                                /\ pre[k] = Start(p.before[u][k])
  <2>1. CASE v = u
    <3>1. \A k \in DOMAIN p.before[u] : p.before[u][k] \in Tasks(p)
      BY <1>2
    <3>2. /\ Starts(p.before[u]) \in Seq(N)
          /\ Len(Starts(p.before[u])) = Len(p.before[u])
          /\ \A k \in 1..Len(p.before[u]) :
               Starts(p.before[u])[k] = Start(p.before[u][k])
      BY <1>1, <1>2, <1>3, <3>1 DEF Starts
    <3> QED BY <1>2, <1>3, <2>1, <3>2
  <2>2. CASE v # u
    <3>1. pre = <<>>
      BY <2>2
    <3> HIDE DEF pre
    <3>2. pre \in Seq(N) /\ Len(pre) = 0
      BY <3>1
    <3>3. \A k \in 1..Len(pre) : FALSE
      BY <3>2
    <3> QED BY ONLY <2>2, <3>2, <3>3
  <2> QED BY <2>1, <2>2
<1> HIDE DEF mine, pre
<1>6. post \in Seq(N)
  BY <1>4, KeptIs
<1>7. PICK f : Places(post, mine, hits, f)
  BY <1>4, KeptIs
<1>8. s = pre \o post
  BY DEF Segment, pre, mine
<1>9. Len(post) \in Nat
  BY <1>6
<1>10. hits \cap 1..Len(mine) = hits
  BY <1>3, <1>4
<1>11. /\ f \in [1..Len(post) -> hits]
       /\ \A k \in 1..Len(post) : post[k] = Start(v)
       /\ \A j, k \in 1..Len(post) : f[j] = f[k] => j = k
       /\ \A i \in hits : \E k \in 1..Len(post) : f[k] = i
  <2>1. /\ f \in [1..Len(post) -> hits]
        /\ \A k \in 1..Len(post) : post[k] = mine[f[k]]
        /\ \A j, k \in 1..Len(post) : j < k => f[j] < f[k]
        /\ \A i \in hits : \E k \in 1..Len(post) : f[k] = i
    BY <1>7, <1>10 DEF Places
  <2>2. \A k \in 1..Len(post) : f[k] \in 1..Len(mine)
    BY <2>1, <1>3, <1>4
  <2>3. \A j, k \in 1..Len(post) : f[j] = f[k] => j = k
    <3> SUFFICES ASSUME NEW j \in 1..Len(post), NEW k \in 1..Len(post), f[j] = f[k]
                 PROVE  j = k
      OBVIOUS
    <3>1. ~(j < k) /\ ~(k < j)
      <4>1. f[j] \in Int /\ f[k] \in Int
        BY <2>2, <1>2, <1>4
      <4>2. (j < k => f[j] < f[k]) /\ (k < j => f[k] < f[j])
        BY <2>1
      <4> QED BY <4>1, <4>2
    <3> QED BY <3>1, <1>9
  <2> QED BY <1>4, <2>1, <2>2, <2>3
<1>12. \A i \in hits : i \in DOMAIN p.after[v] /\ p.after[v][i] = u /\ i \in Nat
  BY <1>3
<1>13. \A i \in DOMAIN p.after[v] : p.after[v][i] = u => i \in hits
  OBVIOUS
<1> HIDE DEF s, post, hits
<1>14. /\ s \in Seq(N) /\ Len(s) = Len(pre) + Len(post)
       /\ Len(pre) \in Nat
       /\ \A k \in 1..Len(s) :
            \/ k \in 1..Len(pre) /\ k <= Len(pre) /\ s[k] = pre[k]
            \/ /\ ~(k <= Len(pre)) /\ k - Len(pre) \in 1..Len(post)
               /\ Len(pre) + (k - Len(pre)) = k /\ s[k] = post[k - Len(pre)]
       /\ \A k \in 1..Len(pre) : k \in 1..Len(s) /\ k <= Len(pre)
       /\ \A k \in 1..Len(post) :
            /\ Len(pre) + k \in 1..Len(s) /\ ~(Len(pre) + k <= Len(pre))
            /\ Len(pre) + k - Len(pre) = k
  <2>1. pre \in Seq(N)
    BY <1>5
  <2> QED BY ONLY <2>1, <1>6, <1>8, Joined
<1> DEFINE kind == [k \in 1..Len(s) |-> IF k <= Len(pre) THEN "before" ELSE "after"]
           at == [k \in 1..Len(s) |-> IF k <= Len(pre) THEN k ELSE f[k - Len(pre)]]
<1>15. \A k \in 1..Len(pre) : k \in Nat
  OBVIOUS
<1>16. \A k \in 1..Len(s) :
         \/ /\ k \in 1..Len(pre) /\ kind[k] = "before" /\ at[k] = k
            /\ s[k] = pre[k]
         \/ /\ k - Len(pre) \in 1..Len(post) /\ kind[k] = "after"
            /\ at[k] = f[k - Len(pre)] /\ s[k] = post[k - Len(pre)]
            /\ Len(pre) + (k - Len(pre)) = k
  BY ONLY <1>14
<1>17. /\ kind \in [1..Len(s) -> {"before", "after"}] /\ at \in [1..Len(s) -> Nat]
  BY <1>11, <1>12, <1>15, <1>16
<1>18. /\ \A k \in 1..Len(pre) : k \in 1..Len(s) /\ kind[k] = "before" /\ at[k] = k
       /\ \A k \in 1..Len(post) : /\ Len(pre) + k \in 1..Len(s)
                                  /\ kind[Len(pre) + k] = "after"
                                  /\ at[Len(pre) + k] = f[k]
  BY ONLY <1>14
<1> HIDE DEF kind, at
<1>19. \A k \in 1..Len(s) : kind[k] = "before" =>
         v = u /\ at[k] \in DOMAIN p.before[u] /\ s[k] = Start(p.before[u][at[k]])
  <2> SUFFICES ASSUME NEW k \in 1..Len(s), kind[k] = "before"
               PROVE  /\ v = u /\ at[k] \in DOMAIN p.before[u]
                      /\ s[k] = Start(p.before[u][at[k]])
    OBVIOUS
  <2>1. k \in 1..Len(pre) /\ at[k] = k /\ s[k] = pre[k]
    BY ONLY <1>16, k \in 1..Len(s), kind[k] = "before"
  <2>2. v = u /\ k \in DOMAIN p.before[u] /\ pre[k] = Start(p.before[u][k])
    BY ONLY <1>5, <2>1
  <2> QED BY ONLY <2>1, <2>2
<1>20. \A k \in 1..Len(s) : kind[k] = "after" =>
         /\ at[k] \in DOMAIN p.after[v] /\ p.after[v][at[k]] = u
         /\ s[k] = Start(v)
  BY <1>11, <1>12, <1>16
<1>21. \A j, k \in 1..Len(s) : kind[j] = kind[k] /\ at[j] = at[k] => j = k
  <2> SUFFICES ASSUME NEW j \in 1..Len(s), NEW k \in 1..Len(s),
                      kind[j] = kind[k], at[j] = at[k]
               PROVE  j = k
    OBVIOUS
  <2>1. CASE kind[j] = "before"
    <3>1. at[j] = j /\ at[k] = k
      BY <1>16, <2>1
    <3> QED BY <3>1
  <2>2. CASE kind[j] = "after"
    <3>1. /\ j - Len(pre) \in 1..Len(post) /\ at[j] = f[j - Len(pre)]
          /\ Len(pre) + (j - Len(pre)) = j
      BY <1>16, <2>2
    <3>2. /\ k - Len(pre) \in 1..Len(post) /\ at[k] = f[k - Len(pre)]
          /\ Len(pre) + (k - Len(pre)) = k
      BY <1>16, <2>2
    <3>3. j - Len(pre) = k - Len(pre)
      BY <1>11, <3>1, <3>2
    <3> QED BY <3>1, <3>2, <3>3
  <2> QED BY <1>17, <2>1, <2>2
<1>22. v = u => \A i \in DOMAIN p.before[u] :
                  \E k \in 1..Len(s) : kind[k] = "before" /\ at[k] = i
  BY <1>3, <1>5, <1>18
<1>23. \A i \in DOMAIN p.after[v] : p.after[v][i] = u =>
         \E k \in 1..Len(s) : kind[k] = "after" /\ at[k] = i
  <2> SUFFICES ASSUME NEW i \in hits
               PROVE  \E k \in 1..Len(s) : kind[k] = "after" /\ at[k] = i
    BY <1>13
  <2>1. PICK k \in 1..Len(post) : f[k] = i
    BY <1>11
  <2> QED BY <1>18, <2>1
<1>24. Labels(p, u, v, s, kind, at)
  BY ONLY <1>17, <1>19, <1>20, <1>21, <1>22, <1>23 DEF Labels
<1> QED BY <1>14, <1>24 DEF s, N

(* Why a node behind the first is in the list s of the end of u.           *)
EndLabels(p, u, s, h) ==
  /\ \A k \in 2..Len(s) :
       /\ h.kind[k] \in {"before", "after"}
       /\ h.name[k] \in Tasks(p) /\ h.at[k] \in Nat
       /\ h.kind[k] = "before" =>
            /\ h.name[k] = u /\ h.at[k] \in DOMAIN p.before[u]
            /\ s[k] = Start(p.before[u][h.at[k]])
       /\ h.kind[k] = "after" =>
            /\ h.at[k] \in DOMAIN p.after[h.name[k]]
            /\ p.after[h.name[k]][h.at[k]] = u
            /\ s[k] = Start(h.name[k])
  /\ \A j, k \in 2..Len(s) :
       h.kind[j] = h.kind[k] /\ h.name[j] = h.name[k] /\ h.at[j] = h.at[k] => j = k
  /\ \A i \in DOMAIN p.before[u] :
       \E k \in 2..Len(s) : h.kind[k] = "before" /\ h.at[k] = i
  /\ \A v \in Tasks(p) : \A i \in DOMAIN p.after[v] : p.after[v][i] = u =>
       \E k \in 2..Len(s) : h.kind[k] = "after" /\ h.name[k] = v /\ h.at[k] = i

LEMMA EndIs ==
  ASSUME NEW p \in Plans, NEW u \in Tasks(p)
  PROVE  /\ EndDependants(p, u) \in Seq(GraphNodes(p))
         /\ Len(EndDependants(p, u)) > 0 /\ EndDependants(p, u)[1] = Done
         /\ \E h : EndLabels(p, u, EndDependants(p, u), h)
<1> DEFINE N == GraphNodes(p)
           m == Len(p.tasks)
           ss == [i \in DOMAIN p.tasks |-> Segment(p, u, p.tasks[i])]
           flat == FlattenSeq(ss)
           s == EndDependants(p, u)
<1>1. s = <<Done>> \o flat
  BY DEF EndDependants, Segment
<1>2. Done \in N
  BY NodeCases
<1>3. /\ p.tasks \in Seq(Tasks(p)) /\ m \in Nat /\ m > 0
      /\ \A i, j \in DOMAIN p.tasks : p.tasks[i] = p.tasks[j] => i = j
  BY PlanFacts
<1>4. DOMAIN p.tasks = 1..m /\ \A i \in 1..m : p.tasks[i] \in Tasks(p)
  BY <1>3
<1>5. \A v \in Tasks(p) : \E i \in 1..m : p.tasks[i] = v
  BY <1>4 DEF Tasks
<1>6. \A v \in Tasks(p) : /\ Segment(p, u, v) \in Seq(N)
                          /\ \E kind, at : Labels(p, u, v, Segment(p, u, v), kind, at)
  BY SegmentIs
<1> HIDE DEF N, m
<1>7. ss \in Seq(Seq(N)) /\ Len(ss) = m
  BY <1>3, <1>4, <1>6
<1>8. \A i \in 1..m : ss[i] = Segment(p, u, p.tasks[i])
  BY <1>4
<1> HIDE DEF ss
<1>9. flat \in Seq(N) /\ \E a, b : Origins(flat, ss, m, a, b)
  BY <1>3, <1>7, FlattenIs
<1> HIDE DEF flat, s
<1>10. /\ s \in Seq(N) /\ Len(s) = Len(flat) + 1 /\ Len(flat) \in Nat
       /\ s[1] = Done /\ \A k \in 1..Len(flat) : s[k + 1] = flat[k]
  BY <1>1, <1>2, <1>9
<1>11. /\ \A k \in 2..Len(s) : k - 1 \in 1..Len(flat) /\ s[k] = flat[k - 1]
                               /\ (k - 1) + 1 = k
       /\ \A k \in 1..Len(flat) : k + 1 \in 2..Len(s) /\ (k + 1) - 1 = k
  <2>1. \A k \in 2..(Len(flat) + 1) : k - 1 \in 1..Len(flat) /\ (k - 1) + 1 = k
    BY ONLY <1>10
  <2>2. \A k \in 1..Len(flat) : k + 1 \in 2..(Len(flat) + 1) /\ (k + 1) - 1 = k
    BY ONLY <1>10
  <2>3. \A k \in 2..(Len(flat) + 1) : s[k] = flat[k - 1]
    <3> TAKE k \in 2..(Len(flat) + 1)
    <3>1. s[(k - 1) + 1] = flat[k - 1]
      BY ONLY <1>10, <2>1
    <3> QED BY ONLY <2>1, <3>1
  <2> QED BY ONLY <1>10, <2>1, <2>2, <2>3
<1>12. PICK a, b : Origins(flat, ss, m, a, b)
  BY <1>9
<1>13. /\ \A k \in 1..Len(flat) : /\ a[k] \in 1..m /\ b[k] \in 1..Len(ss[a[k]])
                                  /\ flat[k] = ss[a[k]][b[k]]
       /\ \A j, k \in 1..Len(flat) : a[j] = a[k] /\ b[j] = b[k] => j = k
       /\ \A i \in 1..m : \A j \in 1..Len(ss[i]) :
            \E k \in 1..Len(flat) : a[k] = i /\ b[k] = j
  BY <1>12 DEF Origins
<1> DEFINE Good(i, g) == Labels(p, u, p.tasks[i], ss[i], g[1], g[2])
           G == [i \in 1..m |-> CHOOSE g : Good(i, g)]
<1>14. \A i \in 1..m : Good(i, G[i])
  <2> TAKE i \in 1..m
  <2>1. PICK kind, at : Labels(p, u, p.tasks[i], ss[i], kind, at)
    BY <1>4, <1>6, <1>8
  <2>2. Good(i, <<kind, at>>)
    BY <2>1
  <2> HIDE DEF Good
  <2> QED BY <2>2
<1> HIDE DEF G
<1> DEFINE K(i) == G[i][1]
           A(i) == G[i][2]
<1>15. ASSUME NEW i \in 1..m
       PROVE  Labels(p, u, p.tasks[i], ss[i], K(i), A(i))
  BY <1>14
<1> HIDE DEF K, A
<1> DEFINE h == [kind |-> [k \in 2..Len(s) |-> K(a[k - 1])[b[k - 1]]],
                 name |-> [k \in 2..Len(s) |-> p.tasks[a[k - 1]]],
                 at   |-> [k \in 2..Len(s) |-> A(a[k - 1])[b[k - 1]]]]
<1>16. \A k \in 2..Len(s) : /\ h.kind[k] = K(a[k - 1])[b[k - 1]]
                            /\ h.name[k] = p.tasks[a[k - 1]]
                            /\ h.at[k] = A(a[k - 1])[b[k - 1]]
  OBVIOUS
<1> HIDE DEF h
<1>17. ASSUME NEW k \in 2..Len(s)
       PROVE  /\ h.kind[k] \in {"before", "after"}
              /\ h.name[k] \in Tasks(p) /\ h.at[k] \in Nat
              /\ h.kind[k] = "before" =>
                   /\ h.name[k] = u /\ h.at[k] \in DOMAIN p.before[u]
                   /\ s[k] = Start(p.before[u][h.at[k]])
              /\ h.kind[k] = "after" =>
                   /\ h.at[k] \in DOMAIN p.after[h.name[k]]
                   /\ p.after[h.name[k]][h.at[k]] = u
                   /\ s[k] = Start(h.name[k])
  <2> DEFINE i == a[k - 1]
             j == b[k - 1]
  <2>1. i \in 1..m /\ j \in 1..Len(ss[i]) /\ s[k] = ss[i][j]
    BY <1>11, <1>13
  <2>2. h.kind[k] = K(i)[j] /\ h.name[k] = p.tasks[i] /\ h.at[k] = A(i)[j]
    BY <1>16
  <2>3. p.tasks[i] \in Tasks(p) /\ Labels(p, u, p.tasks[i], ss[i], K(i), A(i))
    BY <1>4, <1>15, <2>1
  <2> HIDE DEF i, j
  <2> QED BY ONLY <2>1, <2>2, <2>3 DEF Labels
<1>18. ASSUME NEW j \in 2..Len(s), NEW k \in 2..Len(s),
              h.kind[j] = h.kind[k], h.name[j] = h.name[k], h.at[j] = h.at[k]
       PROVE  j = k
  <2>1. a[j - 1] = a[k - 1]
    <3>1. a[j - 1] \in DOMAIN p.tasks /\ a[k - 1] \in DOMAIN p.tasks
      BY <1>4, <1>11, <1>13
    <3>2. p.tasks[a[j - 1]] = p.tasks[a[k - 1]]
      BY <1>16, <1>18
    <3> QED BY <1>3, <3>1, <3>2
  <2> DEFINE i == a[j - 1]
  <2>2. /\ i \in 1..m /\ b[j - 1] \in 1..Len(ss[i]) /\ b[k - 1] \in 1..Len(ss[i])
        /\ K(i)[b[j - 1]] = K(i)[b[k - 1]] /\ A(i)[b[j - 1]] = A(i)[b[k - 1]]
    BY <1>11, <1>13, <1>16, <1>18, <2>1
  <2>3. Labels(p, u, p.tasks[i], ss[i], K(i), A(i))
    BY <1>15, <2>2
  <2>4. b[j - 1] = b[k - 1]
    <3>1. \A x, y \in 1..Len(ss[i]) :
            K(i)[x] = K(i)[y] /\ A(i)[x] = A(i)[y] => x = y
      BY ONLY <2>3 DEF Labels
    <3> QED BY ONLY <2>2, <3>1
  <2>5. j - 1 = k - 1
    BY <1>11, <1>13, <2>1, <2>4
  <2> QED BY <1>11, <2>5
<1>19. ASSUME NEW i \in 1..m, NEW j \in 1..Len(ss[i])
       PROVE  \E k \in 2..Len(s) : /\ h.kind[k] = K(i)[j] /\ h.at[k] = A(i)[j]
                                   /\ h.name[k] = p.tasks[i]
  <2>1. PICK q \in 1..Len(flat) : a[q] = i /\ b[q] = j
    BY <1>13
  <2>2. q + 1 \in 2..Len(s) /\ (q + 1) - 1 = q
    BY <1>11
  <2> QED BY <1>16, <2>1, <2>2
<1>20. ASSUME NEW l \in DOMAIN p.before[u]
       PROVE  \E k \in 2..Len(s) : h.kind[k] = "before" /\ h.at[k] = l
  <2>1. PICK i \in 1..m : p.tasks[i] = u
    BY <1>5
  <2>2. PICK j \in 1..Len(ss[i]) : K(i)[j] = "before" /\ A(i)[j] = l
    BY <1>15, <2>1 DEF Labels
  <2>3. PICK k \in 2..Len(s) : h.kind[k] = K(i)[j] /\ h.at[k] = A(i)[j]
    BY ONLY <1>19, i \in 1..m, j \in 1..Len(ss[i])
  <2> QED BY ONLY <2>2, <2>3, k \in 2..Len(s)
<1>21. ASSUME NEW v \in Tasks(p), NEW l \in DOMAIN p.after[v], p.after[v][l] = u
       PROVE  \E k \in 2..Len(s) : h.kind[k] = "after" /\ h.name[k] = v /\ h.at[k] = l
  <2>1. PICK i \in 1..m : p.tasks[i] = v
    BY <1>5
  <2>2. Labels(p, u, v, ss[i], K(i), A(i))
    BY <1>15, <2>1
  <2>3. \A x \in DOMAIN p.after[v] : p.after[v][x] = u =>
          \E j \in 1..Len(ss[i]) : K(i)[j] = "after" /\ A(i)[j] = x
    BY ONLY <2>2 DEF Labels
  <2>4. PICK j \in 1..Len(ss[i]) : K(i)[j] = "after" /\ A(i)[j] = l
    BY <1>21, <2>3
  <2>5. PICK k \in 2..Len(s) : /\ h.kind[k] = K(i)[j] /\ h.at[k] = A(i)[j]
                               /\ h.name[k] = p.tasks[i]
    BY ONLY <1>19, i \in 1..m, j \in 1..Len(ss[i])
  <2> QED BY ONLY <2>1, <2>4, <2>5, k \in 2..Len(s)
<1>22. EndLabels(p, u, s, h)
  BY ONLY <1>17, <1>18, <1>20, <1>21 DEF EndLabels
<1> QED BY <1>10, <1>22 DEF N, s

-----------------------------------------------------------------------------
(* The links of the graph.                                                 *)

(* The links of the graph: what a node has among its dependants, and where.*)
Links(p, n) ==
  {l \in GraphNodes(p) \X Nat :
     l[2] \in DOMAIN Dependants(p, l[1]) /\ Dependants(p, l[1])[l[2]] = n}

(* What the dependants of a node are, kind by kind.                        *)
LEMMA StartDependants ==
  ASSUME NEW p \in Plans, NEW t \in Tasks(p)
  PROVE  LET s == Dependants(p, Start(t))
         IN /\ s \in Seq(GraphNodes(p))
            /\ Len(s) = IF p.actions[t] > 0 THEN 2 ELSE 1
            /\ s[1] = End(t)
            /\ p.actions[t] > 0 => s[2] = Action(t, 1)
<1> DEFINE N == GraphNodes(p)
           s == Dependants(p, Start(t))
<1>1. p.actions[t] \in Nat
  BY PlanFacts
<1>2. End(t) \in N /\ (p.actions[t] > 0 => Action(t, 1) \in N)
  BY <1>1, NodeCases
<1>3. s = <<End(t)>> \o IF p.actions[t] > 0 THEN <<Action(t, 1)>> ELSE <<>>
  BY DependantsOf
<1> HIDE DEF N, s
<1>4. CASE p.actions[t] > 0
  <2> DEFINE a == <<End(t)>>
             b == <<Action(t, 1)>>
  <2>1. s = a \o b
    BY <1>3, <1>4
  <2>2. /\ a \in Seq(N) /\ Len(a) = 1 /\ a[1] = End(t)
        /\ b \in Seq(N) /\ Len(b) = 1 /\ b[1] = Action(t, 1)
    BY <1>2, <1>4
  <2> HIDE DEF a, b
  <2>3. s \in Seq(N) /\ Len(s) = 2 /\ s[1] = End(t) /\ s[2] = Action(t, 1)
    <3> DEFINE c == a \o b
    <3>1. /\ c \in Seq(N) /\ Len(c) = Len(a) + Len(b)
          /\ \A i \in 1..Len(a) : c[i] = a[i]
          /\ \A i \in 1..Len(b) : c[Len(a) + i] = b[i]
      BY ONLY <2>2, Joined
    <3> HIDE DEF c
    <3>2. 1 \in 1..Len(a) /\ 1 \in 1..Len(b) /\ Len(a) + 1 = 2
      BY ONLY <2>2
    <3>3. c[1] = a[1] /\ c[Len(a) + 1] = b[1]
      BY ONLY <3>1, <3>2
    <3>4. Len(c) = 2 /\ c[1] = End(t) /\ c[2] = Action(t, 1)
      BY ONLY <2>2, <3>1, <3>2, <3>3
    <3>5. s = c
      BY <2>1 DEF c
    <3> QED BY ONLY <3>1, <3>4, <3>5
  <2> QED BY <1>4, <2>3 DEF N, s
<1>5. CASE ~(p.actions[t] > 0)
  <2> DEFINE a == <<End(t)>>
             b == <<>>
  <2>1. s = a \o b
    BY <1>3, <1>5
  <2>2. /\ a \in Seq(N) /\ Len(a) = 1 /\ a[1] = End(t)
        /\ b \in Seq(N) /\ Len(b) = 0
    BY <1>2, <1>5
  <2> HIDE DEF a, b
  <2>3. s \in Seq(N) /\ Len(s) = 1 /\ s[1] = End(t)
    BY <2>1, <2>2
  <2> QED BY <1>5, <2>3 DEF N, s
<1> QED BY <1>4, <1>5

LEMMA ActionDependants ==
  ASSUME NEW p \in Plans, NEW t \in Tasks(p), NEW i \in 1..p.actions[t]
  PROVE  LET s == Dependants(p, Action(t, i))
         IN /\ s \in Seq(GraphNodes(p)) /\ Len(s) = 1
            /\ s[1] = IF i < p.actions[t] THEN Action(t, i + 1) ELSE End(t)
<1> DEFINE N == GraphNodes(p)
           s == Dependants(p, Action(t, i))
           next == IF i < p.actions[t] THEN Action(t, i + 1) ELSE End(t)
<1>1. p.actions[t] \in Nat
  BY PlanFacts
<1>2. next \in N
  <2>1. i < p.actions[t] => i + 1 \in 1..p.actions[t]
    BY <1>1
  <2> QED BY <2>1, NodeCases
<1>3. s = <<next>>
  BY DependantsOf
<1> HIDE DEF N, s, next
<1>4. s \in Seq(N) /\ Len(s) = 1 /\ s[1] = next
  BY <1>2, <1>3
<1> QED BY <1>4 DEF N, s, next

LEMMA EdgesClosed ==
  ASSUME NEW p \in Plans, NEW n \in GraphNodes(p)
  PROVE  /\ Dependants(p, n) \in Seq(GraphNodes(p))
         /\ Len(Dependants(p, n)) \in Nat
         /\ DOMAIN Dependants(p, n) = 1..Len(Dependants(p, n))
         /\ \A i \in DOMAIN Dependants(p, n) : Dependants(p, n)[i] \in GraphNodes(p)
<1> DEFINE N == GraphNodes(p)
           s == Dependants(p, n)
<1>1. s \in Seq(N)
  <2>1. CASE n = Done
    <3>1. s = <<>>
      BY <2>1, DependantsOf
    <3> HIDE DEF s, N
    <3> QED BY <3>1
  <2>2. ASSUME NEW t \in Tasks(p), n = Start(t) PROVE s \in Seq(N)
    BY <2>2, StartDependants
  <2>3. ASSUME NEW t \in Tasks(p), n = End(t) PROVE s \in Seq(N)
    <3>1. s = EndDependants(p, t)
      BY <2>3, DependantsOf
    <3> HIDE DEF s
    <3> QED BY <3>1, EndIs
  <2>4. ASSUME NEW t \in Tasks(p), NEW i \in 1..p.actions[t], n = Action(t, i)
        PROVE  s \in Seq(N)
    BY <2>4, ActionDependants
  <2> HIDE DEF N, s
  <2> QED BY <2>1, <2>2, <2>3, <2>4, NodeCases
<1>2. \A S : \A x \in Seq(S) : Len(x) \in Nat /\ DOMAIN x = 1..Len(x)
                               /\ \A i \in DOMAIN x : x[i] \in S
  OBVIOUS
<1> QED BY ONLY <1>1, <1>2

LEMMA LinkIs ==
  ASSUME NEW p \in Plans, NEW n
  PROVE  \A m \in GraphNodes(p) : \A k \in Nat :
           <<m, k>> \in Links(p, n) <=>
             k \in 1..Len(Dependants(p, m)) /\ Dependants(p, m)[k] = n
<1> TAKE m \in GraphNodes(p), k \in Nat
<1>1. DOMAIN Dependants(p, m) = 1..Len(Dependants(p, m))
  BY EdgesClosed
<1> QED BY <1>1 DEF Links

(* The first node that waits for the end of a task is the caller's, the    *)
(* others are the starts of tasks.                                         *)
LEMMA EndHas ==
  ASSUME NEW p \in Plans, NEW u \in Tasks(p)
  PROVE  LET s == Dependants(p, End(u))
         IN /\ Len(s) \in Nat /\ Len(s) > 0 /\ s[1] = Done
            /\ \A k \in 2..Len(s) : \E t \in Tasks(p) : s[k] = Start(t)
            /\ \E h : EndLabels(p, u, s, h)
<1> DEFINE s == Dependants(p, End(u))
<1>1. s = EndDependants(p, u)
  BY DependantsOf
<1>2. EndDependants(p, u) \in Seq(GraphNodes(p))
  BY EndIs
<1>3. Len(EndDependants(p, u)) \in Nat
  BY <1>2
<1> HIDE DEF s
<1>4. PICK h : EndLabels(p, u, s, h)
  BY <1>1, EndIs
<1>5. ASSUME NEW k \in 2..Len(s) PROVE \E t \in Tasks(p) : s[k] = Start(t)
  <2>1. /\ h.kind[k] \in {"before", "after"}
        /\ h.name[k] \in Tasks(p)
        /\ h.kind[k] = "before" =>
            h.at[k] \in DOMAIN p.before[u] /\ s[k] = Start(p.before[u][h.at[k]])
        /\ h.kind[k] = "after" => s[k] = Start(h.name[k])
    BY <1>4 DEF EndLabels
  <2>2. \A i \in DOMAIN p.before[u] : p.before[u][i] \in Tasks(p)
    <3>1. p.before[u] \in Seq(Tasks(p))
      BY PlanFacts
    <3> QED BY <3>1
  <2> QED BY <2>1, <2>2
<1> QED BY <1>1, <1>3, <1>4, <1>5, EndIs DEF s

(* What a node may follow on, kind by kind.                                *)
LEMMA LinkCases ==
  ASSUME NEW p \in Plans, NEW m \in GraphNodes(p),
         NEW k \in 1..Len(Dependants(p, m))
  PROVE  LET n == Dependants(p, m)[k]
         IN \/ n = Done /\ k = 1 /\ \E t \in Tasks(p) : m = End(t)
            \/ \E t, u \in Tasks(p) : n = Start(t) /\ m = End(u) /\ k \in 2..Len(Dependants(p, m))
            \/ \E t \in Tasks(p) : n = End(t) /\ m = Start(t) /\ k = 1
            \/ \E t \in Tasks(p) : /\ n = End(t) /\ p.actions[t] > 0 /\ k = 1
                                   /\ m = Action(t, p.actions[t])
            \/ \E t \in Tasks(p) : /\ n = Action(t, 1) /\ p.actions[t] > 0
                                   /\ m = Start(t) /\ k = 2
            \/ \E t \in Tasks(p) : \E i \in 1..p.actions[t] :
                 n = Action(t, i + 1) /\ i < p.actions[t] /\ m = Action(t, i) /\ k = 1
<1> DEFINE s == Dependants(p, m)
           n == s[k]
           Goal ==
            \/ n = Done /\ k = 1 /\ \E t \in Tasks(p) : m = End(t)
            \/ \E t, u \in Tasks(p) : n = Start(t) /\ m = End(u) /\ k \in 2..Len(s)
            \/ \E t \in Tasks(p) : n = End(t) /\ m = Start(t) /\ k = 1
            \/ \E t \in Tasks(p) : /\ n = End(t) /\ p.actions[t] > 0 /\ k = 1
                                   /\ m = Action(t, p.actions[t])
            \/ \E t \in Tasks(p) : /\ n = Action(t, 1) /\ p.actions[t] > 0
                                   /\ m = Start(t) /\ k = 2
            \/ \E t \in Tasks(p) : \E i \in 1..p.actions[t] :
                 n = Action(t, i + 1) /\ i < p.actions[t] /\ m = Action(t, i) /\ k = 1
<1> HIDE DEF Goal
<1>0. \A t \in Tasks(p) : p.actions[t] \in Nat
  BY PlanFacts
<1>1. ASSUME m = Done PROVE Goal
  <2>1. s = <<>>
    BY <1>1, DependantsOf
  <2> HIDE DEF s
  <2>2. Len(s) = 0
    BY <2>1
  <2> QED BY <2>2 DEF s
<1>2. ASSUME NEW t \in Tasks(p), m = Start(t) PROVE Goal
  <2>1. /\ Len(s) = IF p.actions[t] > 0 THEN 2 ELSE 1
        /\ s[1] = End(t)
        /\ p.actions[t] > 0 => s[2] = Action(t, 1)
    BY <1>2, StartDependants
  <2> HIDE DEF s
  <2>2. k = 1 \/ (k = 2 /\ p.actions[t] > 0)
    BY <2>1 DEF s
  <2> QED BY <1>2, <2>1, <2>2 DEF Goal
<1>3. ASSUME NEW u \in Tasks(p), m = End(u) PROVE Goal
  <2>1. /\ Len(s) \in Nat /\ Len(s) > 0 /\ s[1] = Done
        /\ \A j \in 2..Len(s) : \E t \in Tasks(p) : s[j] = Start(t)
    BY <1>3, EndHas
  <2> HIDE DEF s
  <2>2. k = 1 \/ k \in 2..Len(s)
    BY <2>1 DEF s
  <2> QED BY <1>3, <2>1, <2>2 DEF Goal
<1>4. ASSUME NEW t \in Tasks(p), NEW i \in 1..p.actions[t], m = Action(t, i) PROVE Goal
  <2>1. Len(s) = 1 /\ s[1] = IF i < p.actions[t] THEN Action(t, i + 1) ELSE End(t)
    BY <1>4, ActionDependants
  <2> HIDE DEF s
  <2>2. k = 1
    BY <2>1 DEF s
  <2>3. CASE i < p.actions[t]
    BY <1>4, <2>1, <2>2, <2>3 DEF Goal
  <2>4. CASE ~(i < p.actions[t])
    <3>1. i = p.actions[t] /\ p.actions[t] > 0
      BY <1>0, <2>4
    <3> QED BY <1>4, <2>1, <2>2, <2>4, <3>1 DEF Goal
  <2> QED BY <2>3, <2>4
<1> HIDE DEF s, n
<1>5. \/ m = Done
      \/ \E t \in Tasks(p) : m = Start(t) \/ m = End(t)
      \/ \E t \in Tasks(p) : \E i \in 1..p.actions[t] : m = Action(t, i)
  BY NodeCases
<1>6. Goal
  BY <1>1, <1>2, <1>3, <1>4, <1>5
<1> QED BY <1>6 DEF Goal, s, n

-----------------------------------------------------------------------------
(* How many links lead to a node: as many as InitialWaiting says, for every*)
(* plan, however it is written down.                                       *)

LEMMA SameSize ==
  ASSUME NEW S, IsFiniteSet(S), NEW T, NEW f,
         f \in [S -> T],
         \A x, y \in S : f[x] = f[y] => x = y,
         \A z \in T : \E x \in S : f[x] = z
  PROVE  IsFiniteSet(T) /\ Cardinality(T) = Cardinality(S)
<1>1. f \in Bijection(S, T)
  BY DEF Bijection, Injection, IsInjective, Surjection
<1>2. ExistsBijection(S, T)
  BY <1>1 DEF ExistsBijection
<1> QED BY <1>2, FS_Bijection

LEMMA DoneLinks ==
  ASSUME NEW p \in Plans
  PROVE  /\ IsFiniteSet(Links(p, Done))
         /\ Cardinality(Links(p, Done)) = Len(p.tasks)
<1> DEFINE S == 1..Len(p.tasks)
           T == Links(p, Done)
           f == [i \in S |-> <<End(p.tasks[i]), 1>>]
<1>1. /\ p.tasks \in Seq(Tasks(p)) /\ Len(p.tasks) \in Nat
      /\ \A i, j \in DOMAIN p.tasks : p.tasks[i] = p.tasks[j] => i = j
  BY PlanFacts
<1>2. DOMAIN p.tasks = S /\ (\A i \in S : p.tasks[i] \in Tasks(p))
      /\ (\A t \in Tasks(p) : \E i \in S : p.tasks[i] = t)
  BY <1>1 DEF Tasks
<1>3. ASSUME NEW t \in Tasks(p) PROVE <<End(t), 1>> \in T
  <2>1. End(t) \in GraphNodes(p)
    BY NodeCases
  <2>2. LET s == Dependants(p, End(t)) IN Len(s) \in Nat /\ Len(s) > 0 /\ s[1] = Done
    BY EndHas
  <2>3. 1 \in 1..Len(Dependants(p, End(t)))
    BY ONLY <2>2
  <2> QED BY <2>1, <2>2, <2>3, LinkIs
<1>4. ASSUME NEW l \in T PROVE \E t \in Tasks(p) : l = <<End(t), 1>>
  <2>1. PICK m \in GraphNodes(p), k \in Nat : l = <<m, k>>
    BY DEF Links
  <2>2. k \in 1..Len(Dependants(p, m)) /\ Dependants(p, m)[k] = Done
    BY <2>1, LinkIs
  <2>3. \A t, i : Done # Start(t) /\ Done # End(t) /\ Done # Action(t, i)
    BY Shapes
  <2>4. \/ k = 1 /\ \E t \in Tasks(p) : m = End(t)
        \/ \E t : Done = Start(t) \/ Done = End(t) \/ \E i : Done = Action(t, i)
    BY <2>2, LinkCases
  <2>5. k = 1 /\ \E t \in Tasks(p) : m = End(t)
    BY ONLY <2>3, <2>4
  <2> QED BY <2>1, <2>5
<1>5. IsFiniteSet(S) /\ Cardinality(S) = Len(p.tasks)
  <2>1. ASSUME NEW z \in Nat PROVE IsFiniteSet(1..z) /\ Cardinality(1..z) = z
    BY FS_Interval
  <2> QED BY <1>1, <2>1
<1> HIDE DEF S, T
<1>6. f \in [S -> T]
  BY <1>2, <1>3
<1>7. \A x, y \in S : f[x] = f[y] => x = y
  <2>1. \A x, y \in S : f[x] = f[y] => End(p.tasks[x]) = End(p.tasks[y])
    OBVIOUS
  <2>2. \A x, y \in S : f[x] = f[y] => p.tasks[x] = p.tasks[y]
    BY <2>1, Same
  <2> QED BY <1>1, <1>2, <2>2
<1>8. \A z \in T : \E x \in S : f[x] = z
  BY <1>2, <1>4
<1> HIDE DEF f
<1> QED BY <1>5, <1>6, <1>7, <1>8, SameSize DEF T

LEMMA EndLinks ==
  ASSUME NEW p \in Plans, NEW t \in Tasks(p)
  PROVE  /\ <<Start(t), 1>> \in Links(p, End(t))
         /\ p.actions[t] > 0 => <<Action(t, p.actions[t]), 1>> \in Links(p, End(t))
         /\ IsFiniteSet(Links(p, End(t)))
         /\ Cardinality(Links(p, End(t))) = IF p.actions[t] > 0 THEN 2 ELSE 1
<1> DEFINE T == Links(p, End(t))
           a == <<Start(t), 1>>
           b == <<Action(t, p.actions[t]), 1>>
<1>1. p.actions[t] \in Nat
  BY PlanFacts
<1>2. a \in T
  <2>1. Start(t) \in GraphNodes(p)
    BY NodeCases
  <2>2. LET s == Dependants(p, Start(t))
        IN Len(s) = (IF p.actions[t] > 0 THEN 2 ELSE 1) /\ s[1] = End(t)
    BY StartDependants
  <2>3. 1 \in 1..Len(Dependants(p, Start(t)))
    BY ONLY <2>2
  <2> QED BY <2>1, <2>2, <2>3, LinkIs
<1>3. ASSUME p.actions[t] > 0 PROVE b \in T
  <2>0. p.actions[t] \in 1..p.actions[t]
    BY <1>1, <1>3
  <2>1. Action(t, p.actions[t]) \in GraphNodes(p)
    BY <2>0, NodeCases
  <2>2. LET s == Dependants(p, Action(t, p.actions[t]))
        IN Len(s) = 1 /\ s[1] = End(t)
    BY <1>1, <2>0, ActionDependants
  <2>3. 1 \in 1..Len(Dependants(p, Action(t, p.actions[t])))
    BY ONLY <2>2
  <2> QED BY <2>1, <2>2, <2>3, LinkIs
<1>4. ASSUME NEW l \in T PROVE l = a \/ (p.actions[t] > 0 /\ l = b)
  <2>1. PICK m \in GraphNodes(p), k \in Nat : l = <<m, k>>
    BY DEF Links
  <2>2. k \in 1..Len(Dependants(p, m)) /\ Dependants(p, m)[k] = End(t)
    BY <2>1, LinkIs
  <2>3. /\ \A u, i : End(t) # Start(u) /\ End(t) # Done /\ End(t) # Action(u, i)
        /\ \A u : End(t) = End(u) => t = u
    BY Shapes, Same
  <2>4. k = 1 /\ (m = Start(t) \/ (p.actions[t] > 0 /\ m = Action(t, p.actions[t])))
    BY <2>2, <2>3, LinkCases
  <2> QED BY <2>1, <2>4
<1>5. a # b
  BY Shapes
<1> HIDE DEF T, a, b
<1>6. CASE p.actions[t] > 0
  <2>1. T = {a} \cup {b}
    BY <1>2, <1>3, <1>4, <1>6
  <2>2. IsFiniteSet({a}) /\ Cardinality({a}) = 1
    BY FS_Singleton
  <2>3. IsFiniteSet({a} \cup {b}) /\ Cardinality({a} \cup {b}) = 2
    BY <1>5, <2>2, FS_AddElement
  <2> QED BY <1>2, <1>3, <1>6, <2>1, <2>3 DEF T, a, b
<1>7. CASE ~(p.actions[t] > 0)
  <2>1. T = {a}
    BY <1>2, <1>4, <1>7
  <2>2. IsFiniteSet({a}) /\ Cardinality({a}) = 1
    BY FS_Singleton
  <2> QED BY <1>2, <1>7, <2>1, <2>2 DEF T, a
<1> QED BY <1>6, <1>7

LEMMA ActionLinks ==
  ASSUME NEW p \in Plans, NEW t \in Tasks(p), NEW i \in 1..p.actions[t]
  PROVE  /\ i > 1 => <<Action(t, i - 1), 1>> \in Links(p, Action(t, i))
         /\ IsFiniteSet(Links(p, Action(t, i)))
         /\ Cardinality(Links(p, Action(t, i))) = 1
<1> DEFINE T == Links(p, Action(t, i))
           a == IF i = 1 THEN <<Start(t), 2>> ELSE <<Action(t, i - 1), 1>>
<1>1. p.actions[t] \in Nat
  BY PlanFacts
<1>2. a \in T
  <2>1. CASE i = 1
    <3>1. Start(t) \in GraphNodes(p)
      BY NodeCases
    <3>2. p.actions[t] > 0
      BY <1>1
    <3>3. LET s == Dependants(p, Start(t)) IN Len(s) = 2 /\ s[2] = Action(t, 1)
      BY <3>2, StartDependants
    <3>4. 2 \in 1..Len(Dependants(p, Start(t)))
      BY ONLY <3>3
    <3> QED BY <2>1, <3>1, <3>3, <3>4, LinkIs
  <2>2. CASE i # 1
    <3>1. i - 1 \in 1..p.actions[t] /\ i - 1 < p.actions[t] /\ (i - 1) + 1 = i
      BY <1>1, <2>2
    <3>2. Action(t, i - 1) \in GraphNodes(p)
      BY <3>1, NodeCases
    <3>3. LET s == Dependants(p, Action(t, i - 1))
          IN Len(s) = 1 /\ s[1] = IF i - 1 < p.actions[t] THEN Action(t, (i - 1) + 1) ELSE End(t)
      BY <3>1, ActionDependants
    <3>4. 1 \in 1..Len(Dependants(p, Action(t, i - 1)))
      BY ONLY <3>3
    <3>5. Dependants(p, Action(t, i - 1))[1] = Action(t, i)
      BY ONLY <3>1, <3>3
    <3> QED BY <2>2, <3>2, <3>4, <3>5, LinkIs
  <2> QED BY <2>1, <2>2
<1>3. ASSUME NEW l \in T PROVE l = a
  <2>1. PICK m \in GraphNodes(p), k \in Nat : l = <<m, k>>
    BY DEF Links
  <2>2. k \in 1..Len(Dependants(p, m)) /\ Dependants(p, m)[k] = Action(t, i)
    BY <2>1, LinkIs
  <2>3. /\ \A u : Action(t, i) # Start(u) /\ Action(t, i) # End(u) /\ Action(t, i) # Done
        /\ \A u, j : Action(t, i) = Action(u, j) => t = u /\ i = j
    BY Shapes, Same
  <2>4. \/ i = 1 /\ m = Start(t) /\ k = 2
        \/ \E j \in 1..p.actions[t] : i = j + 1 /\ m = Action(t, j) /\ k = 1
    BY <2>2, <2>3, LinkCases
  <2>5. CASE i = 1 /\ m = Start(t) /\ k = 2
    BY <2>1, <2>5
  <2>6. ASSUME NEW j \in 1..p.actions[t], i = j + 1, m = Action(t, j), k = 1
        PROVE  l = a
    <3>1. j = i - 1 /\ i # 1
      BY <2>6
    <3> QED BY <2>1, <2>6, <3>1
  <2> QED BY <2>4, <2>5, <2>6
<1>4. i > 1 => a = <<Action(t, i - 1), 1>>
  OBVIOUS
<1> HIDE DEF T, a
<1>5. T = {a}
  BY <1>2, <1>3
<1>6. IsFiniteSet({a}) /\ Cardinality({a}) = 1
  BY FS_Singleton
<1> QED BY <1>2, <1>4, <1>5, <1>6 DEF T

LEMMA FiniteImage ==
  ASSUME NEW S, IsFiniteSet(S), NEW f
  PROVE  IsFiniteSet({f[x] : x \in S})
<1> DEFINE g == [x \in S |-> f[x]]
           T == {f[x] : x \in S}
<1>1. g \in Surjection(S, T)
  BY DEF Surjection
<1> QED BY <1>1, FS_Surjection

BeforeSet(p, t) ==
  UNION {{<<u, i>> : i \in {j \in DOMAIN p.before[u] : p.before[u][j] = t}} :
           u \in Tasks(p)}

(* What is written in the plan about t: who names it in its "before", and  *)
(* whom it names in its "after".                                           *)
Written(p, t) == ({"before"} \X BeforeSet(p, t)) \cup ({"after"} \X DOMAIN p.after[t])

LEMMA WrittenIs ==
  ASSUME NEW p \in Plans, NEW t \in Tasks(p)
  PROVE  /\ IsFiniteSet(Written(p, t))
         /\ Cardinality(Written(p, t)) = BeforeCount(p, t) + Len(p.after[t])
         /\ \A u, i : <<u, i>> \in BeforeSet(p, t) <=>
              u \in Tasks(p) /\ i \in DOMAIN p.before[u] /\ p.before[u][i] = t
         /\ \A b \in BeforeSet(p, t) : \E u, i : b = <<u, i>>
<1> DEFINE B == BeforeSet(p, t)
           A == DOMAIN p.after[t]
           P == {"before"} \X B
           Q == {"after"} \X A
           Of(u) == {<<u, i>> : i \in {j \in DOMAIN p.before[u] : p.before[u][j] = t}}
<1>1. /\ p.tasks \in Seq(Tasks(p)) /\ Len(p.tasks) \in Nat
      /\ \A u \in Tasks(p) : /\ p.before[u] \in Seq(Tasks(p)) /\ Len(p.before[u]) \in Nat
                             /\ p.after[u] \in Seq(Tasks(p)) /\ Len(p.after[u]) \in Nat
  BY PlanFacts
<1>2. IsFiniteSet(Tasks(p))
  <2>1. Tasks(p) = {p.tasks[i] : i \in 1..Len(p.tasks)}
    BY <1>1 DEF Tasks
  <2>2. IsFiniteSet(1..Len(p.tasks))
    BY <1>1, FS_Interval
  <2>3. IsFiniteSet({p.tasks[i] : i \in 1..Len(p.tasks)})
    BY <2>2, FiniteImage
  <2> QED BY <2>1, <2>3
<1>3. \A u \in Tasks(p) : IsFiniteSet(Of(u))
  <2> TAKE u \in Tasks(p)
  <2> DEFINE I == {j \in DOMAIN p.before[u] : p.before[u][j] = t}
             f == [i \in I |-> <<u, i>>]
  <2>0. Len(p.before[u]) \in Nat /\ DOMAIN p.before[u] = 1..Len(p.before[u])
    BY <1>1
  <2>1. IsFiniteSet(1..Len(p.before[u])) /\ I \subseteq 1..Len(p.before[u])
    BY <2>0, FS_Interval
  <2> HIDE DEF I
  <2>2. IsFiniteSet(I)
    BY <2>1, FS_Subset
  <2>3. IsFiniteSet({f[i] : i \in I})
    BY ONLY <2>2, FiniteImage
  <2>4. {f[i] : i \in I} = {<<u, i>> : i \in I}
    OBVIOUS
  <2> QED BY <2>3, <2>4 DEF I
<1>4. B = UNION {Of(u) : u \in Tasks(p)}
  BY DEF BeforeSet
<1>5. IsFiniteSet({Of(u) : u \in Tasks(p)})
  <2> HIDE DEF Of
  <2> DEFINE f == [u \in Tasks(p) |-> Of(u)]
  <2>1. IsFiniteSet({f[u] : u \in Tasks(p)})
    BY ONLY <1>2, FiniteImage
  <2>2. {f[u] : u \in Tasks(p)} = {Of(u) : u \in Tasks(p)}
    OBVIOUS
  <2> QED BY <2>1, <2>2
<1>6. IsFiniteSet(B)
  <2> DEFINE C == {Of(u) : u \in Tasks(p)}
  <2>1. \A X \in C : IsFiniteSet(X)
    BY <1>3
  <2>2. IsFiniteSet(C) /\ B = UNION C
    BY <1>4, <1>5
  <2> HIDE DEF C, B
  <2> QED BY ONLY <2>1, <2>2, FS_UNION
<1>7. Cardinality(B) = BeforeCount(p, t)
  BY DEF BeforeSet, BeforeCount
<1>8. IsFiniteSet(A) /\ Cardinality(A) = Len(p.after[t])
  <2>1. A = 1..Len(p.after[t]) /\ Len(p.after[t]) \in Nat
    BY <1>1
  <2> QED BY <2>1, FS_Interval
<1>9. \A x : IsFiniteSet({x}) /\ Cardinality({x}) = 1
  BY FS_Singleton
<1> HIDE DEF B, A
<1>12. Cardinality(A) \in Nat /\ Cardinality(B) \in Nat
  BY <1>6, <1>8, FS_CardinalityType
<1>10. IsFiniteSet(P) /\ Cardinality(P) = Cardinality(B)
  <2> DEFINE x == {"before"}
  <2>1. IsFiniteSet(x) /\ Cardinality(x) = 1
    BY <1>9
  <2> HIDE DEF x
  <2>2. IsFiniteSet(x \X B) /\ Cardinality(x \X B) = Cardinality(x) * Cardinality(B)
    BY ONLY <1>6, <2>1, FS_Product
  <2> QED BY <1>12, <2>1, <2>2 DEF x
<1>11. IsFiniteSet(Q) /\ Cardinality(Q) = Cardinality(A)
  <2> DEFINE x == {"after"}
  <2>1. IsFiniteSet(x) /\ Cardinality(x) = 1
    BY <1>9
  <2> HIDE DEF x
  <2>2. IsFiniteSet(x \X A) /\ Cardinality(x \X A) = Cardinality(x) * Cardinality(A)
    BY ONLY <1>8, <2>1, FS_Product
  <2> QED BY <1>12, <2>1, <2>2 DEF x
<1>13. P \cap Q = {}
  OBVIOUS
<1> HIDE DEF P, Q
<1>14. /\ IsFiniteSet(P \cup Q)
       /\ Cardinality(P \cup Q) = Cardinality(P) + Cardinality(Q) - Cardinality(P \cap Q)
  BY <1>10, <1>11, FS_Union
<1>15. Cardinality(P \cap Q) = 0
  BY <1>13, FS_EmptySet
<1>16. Cardinality(P \cup Q) = Cardinality(B) + Cardinality(A)
  BY <1>10, <1>11, <1>12, <1>14, <1>15
<1>17. Written(p, t) = P \cup Q
  BY DEF Written, P, Q, A, B
<1>18. \A u, i : <<u, i>> \in BeforeSet(p, t) <=>
              u \in Tasks(p) /\ i \in DOMAIN p.before[u] /\ p.before[u][i] = t
  BY DEF BeforeSet
<1>19. \A b \in BeforeSet(p, t) : \E u, i : b = <<u, i>>
  BY DEF BeforeSet
<1> QED BY <1>7, <1>8, <1>14, <1>16, <1>17, <1>18, <1>19

LEMMA StartLinks ==
  ASSUME NEW p \in Plans, NEW t \in Tasks(p)
  PROVE  /\ IsFiniteSet(Links(p, Start(t)))
         /\ Cardinality(Links(p, Start(t))) = BeforeCount(p, t) + Len(p.after[t])
<1> DEFINE S == Links(p, Start(t))
           T == Written(p, t)
           D(u) == Dependants(p, End(u))
           H == [u \in Tasks(p) |-> CHOOSE h : EndLabels(p, u, D(u), h)]
           Why(u, k) == IF H[u].kind[k] = "before" THEN <<"before", <<u, H[u].at[k]>>>>
                        ELSE <<"after", H[u].at[k]>>
           f == [l \in S |-> Why(l[1][1], l[2])]
<1>1. \A u \in Tasks(p) : EndLabels(p, u, D(u), H[u])
  <2> TAKE u \in Tasks(p)
  <2>1. \E h : EndLabels(p, u, D(u), h)
    BY EndHas
  <2> QED BY <2>1
<1> HIDE DEF H
<1>2. /\ \A u \in Tasks(p) : p.after[u] \in Seq(Tasks(p)) /\ p.before[u] \in Seq(Tasks(p))
  BY PlanFacts
<1>3. /\ \A u \in Tasks(p) : \A i \in DOMAIN p.after[u] : p.after[u][i] \in Tasks(p)
      /\ \A u \in Tasks(p) : Len(D(u)) \in Nat
  BY <1>2, EndHas
<1>4. ASSUME NEW l \in S
      PROVE  \E u \in Tasks(p) : \E k \in 2..Len(D(u)) :
               /\ l = <<End(u), k>> /\ D(u)[k] = Start(t) /\ l[1][1] = u /\ l[2] = k
  <2>1. PICK m \in GraphNodes(p), k \in Nat : l = <<m, k>>
    BY DEF Links
  <2>2. k \in 1..Len(Dependants(p, m)) /\ Dependants(p, m)[k] = Start(t)
    BY <2>1, LinkIs
  <2>3. \A u, i : Start(t) # Done /\ Start(t) # End(u) /\ Start(t) # Action(u, i)
    BY Shapes
  <2>4. \/ \E u \in Tasks(p) : m = End(u) /\ k \in 2..Len(Dependants(p, m))
        \/ Start(t) = Done
        \/ \E u : Start(t) = End(u) \/ \E i : Start(t) = Action(u, i)
    BY <2>2, LinkCases
  <2>5. PICK u \in Tasks(p) : m = End(u) /\ k \in 2..Len(Dependants(p, m))
    BY ONLY <2>3, <2>4
  <2>6. End(u)[1] = u
    BY Parts
  <2> QED BY <2>1, <2>2, <2>5, <2>6
<1>5. ASSUME NEW u \in Tasks(p), NEW k \in 2..Len(D(u)), D(u)[k] = Start(t)
      PROVE  /\ <<End(u), k>> \in S
             /\ f[<<End(u), k>>] = Why(u, k)
  <2>1. k \in Nat /\ k \in 1..Len(D(u))
    BY <1>3
  <2>2. End(u) \in GraphNodes(p) /\ End(u)[1] = u
    BY NodeCases, Parts
  <2>3. <<End(u), k>> \in S
    BY <1>5, <2>1, <2>2, LinkIs
  <2> HIDE DEF S, Why
  <2> QED BY <2>2, <2>3
<1>6. \A v \in Tasks(p) : Start(v) = Start(t) => v = t
  BY Same
<1> HIDE DEF S
<1>7. ASSUME NEW u \in Tasks(p), NEW k \in 2..Len(D(u)), D(u)[k] = Start(t)
      PROVE  \/ /\ H[u].kind[k] = "before" /\ H[u].name[k] = u
                /\ H[u].at[k] \in DOMAIN p.before[u] /\ p.before[u][H[u].at[k]] = t
                /\ Why(u, k) = <<"before", <<u, H[u].at[k]>>>>
             \/ /\ H[u].kind[k] = "after" /\ H[u].name[k] = t
                /\ H[u].at[k] \in DOMAIN p.after[t] /\ p.after[t][H[u].at[k]] = u
                /\ Why(u, k) = <<"after", H[u].at[k]>>
  <2>1. /\ H[u].kind[k] \in {"before", "after"}
        /\ H[u].name[k] \in Tasks(p)
        /\ H[u].kind[k] = "before" =>
             /\ H[u].name[k] = u /\ H[u].at[k] \in DOMAIN p.before[u]
             /\ D(u)[k] = Start(p.before[u][H[u].at[k]])
        /\ H[u].kind[k] = "after" =>
             /\ H[u].at[k] \in DOMAIN p.after[H[u].name[k]]
             /\ p.after[H[u].name[k]][H[u].at[k]] = u
             /\ D(u)[k] = Start(H[u].name[k])
    BY <1>1 DEF EndLabels
  <2>2. CASE H[u].kind[k] = "before"
    <3>1. p.before[u][H[u].at[k]] \in Tasks(p)
      BY <1>2, <2>1, <2>2
    <3>2. p.before[u][H[u].at[k]] = t
      BY <1>6, <1>7, <2>1, <2>2, <3>1
    <3> QED BY <2>1, <2>2, <3>2
  <2>3. CASE H[u].kind[k] = "after"
    <3>1. H[u].name[k] = t
      BY <1>6, <1>7, <2>1, <2>3
    <3> QED BY <2>1, <2>3, <3>1
  <2> QED BY <2>1, <2>2, <2>3
<1>8. \A u, i : <<u, i>> \in BeforeSet(p, t) <=>
              u \in Tasks(p) /\ i \in DOMAIN p.before[u] /\ p.before[u][i] = t
  BY WrittenIs
<1> HIDE DEF D, Why, f
<1>9. f \in [S -> T]
  <2>1. f = [l \in S |-> f[l]]
    BY DEF f
  <2>2. ASSUME NEW l \in S PROVE f[l] \in T
    <3>1. PICK u \in Tasks(p) : \E k \in 2..Len(D(u)) : l = <<End(u), k>> /\ D(u)[k] = Start(t)
      BY <1>4
    <3>2. PICK k \in 2..Len(D(u)) : l = <<End(u), k>> /\ D(u)[k] = Start(t)
      BY <3>1
    <3>3. f[l] = Why(u, k)
      BY <1>5, <3>2
    <3>4. Why(u, k) \in T
      <4>1. CASE /\ H[u].at[k] \in DOMAIN p.before[u] /\ p.before[u][H[u].at[k]] = t
                 /\ Why(u, k) = <<"before", <<u, H[u].at[k]>>>>
        BY <1>8, <4>1 DEF Written
      <4>2. CASE H[u].at[k] \in DOMAIN p.after[t] /\ Why(u, k) = <<"after", H[u].at[k]>>
        BY <4>2 DEF Written
      <4> QED BY <1>7, <3>2, <4>1, <4>2
    <3> QED BY <3>3, <3>4
  <2> HIDE DEF T
  <2> QED BY <2>1, <2>2
<1>10. ASSUME NEW x \in S, NEW y \in S, f[x] = f[y] PROVE x = y
  <2>1. PICK u \in Tasks(p) : \E k \in 2..Len(D(u)) : x = <<End(u), k>> /\ D(u)[k] = Start(t)
    BY <1>4
  <2>2. PICK j \in 2..Len(D(u)) : x = <<End(u), j>> /\ D(u)[j] = Start(t)
    BY <2>1
  <2>3. PICK v \in Tasks(p) : \E k \in 2..Len(D(v)) : y = <<End(v), k>> /\ D(v)[k] = Start(t)
    BY <1>4
  <2>4. PICK k \in 2..Len(D(v)) : y = <<End(v), k>> /\ D(v)[k] = Start(t)
    BY <2>3
  <2>5. Why(u, j) = Why(v, k)
    BY <1>5, <1>10, <2>2, <2>4
  <2>6. /\ u = v /\ H[u].kind[j] = H[u].kind[k]
        /\ H[u].name[j] = H[u].name[k] /\ H[u].at[j] = H[u].at[k]
    <3> DEFINE X(w, i) == /\ H[w].kind[i] = "before" /\ H[w].name[i] = w
                          /\ Why(w, i) = <<"before", <<w, H[w].at[i]>>>>
               Y(w, i) == /\ H[w].kind[i] = "after" /\ H[w].name[i] = t
                          /\ p.after[t][H[w].at[i]] = w
                          /\ Why(w, i) = <<"after", H[w].at[i]>>
    <3>1. X(u, j) \/ Y(u, j)
      BY <1>7, <2>2
    <3>2. X(v, k) \/ Y(v, k)
      BY <1>7, <2>4
    <3>3. CASE X(u, j) /\ X(v, k)
      <4>0. <<"before", <<u, H[u].at[j]>>>> = <<"before", <<v, H[v].at[k]>>>>
        BY ONLY <2>5, <3>3
      <4>1. u = v /\ H[u].at[j] = H[v].at[k]
        BY ONLY <4>0
      <4> QED BY ONLY <3>3, <4>1
    <3>4. CASE Y(u, j) /\ Y(v, k)
      <4>0. <<"after", H[u].at[j]>> = <<"after", H[v].at[k]>>
        BY ONLY <2>5, <3>4
      <4>1. H[u].at[j] = H[v].at[k]
        BY ONLY <4>0
      <4>2. u = v
        BY ONLY <3>4, <4>1
      <4> QED BY ONLY <3>4, <4>1, <4>2
    <3>5. ~(X(u, j) /\ Y(v, k)) /\ ~(Y(u, j) /\ X(v, k))
      BY ONLY <2>5
    <3> QED BY <3>1, <3>2, <3>3, <3>4, <3>5
  <2>7. \A a, b \in 2..Len(D(u)) :
          H[u].kind[a] = H[u].kind[b] /\ H[u].name[a] = H[u].name[b]
            /\ H[u].at[a] = H[u].at[b] => a = b
    BY <1>1 DEF EndLabels
  <2> QED BY <2>2, <2>4, <2>6, <2>7
<1>11. ASSUME NEW z \in T PROVE \E x \in S : f[x] = z
  <2>1. CASE z \in {"before"} \X BeforeSet(p, t)
    <3>1. PICK b \in BeforeSet(p, t) : z = <<"before", b>>
      BY <2>1
    <3>2. PICK u, i : b = <<u, i>>
      BY WrittenIs
    <3>3. u \in Tasks(p) /\ i \in DOMAIN p.before[u] /\ p.before[u][i] = t
      BY <1>8, <3>2
    <3>4. PICK k \in 2..Len(D(u)) : H[u].kind[k] = "before" /\ H[u].at[k] = i
      BY <1>1, <3>3 DEF EndLabels
    <3>5. D(u)[k] = Start(p.before[u][H[u].at[k]])
      BY <1>1, <3>3, <3>4 DEF EndLabels
    <3>6. D(u)[k] = Start(t)
      BY <3>3, <3>4, <3>5
    <3>7. Why(u, k) = z
      BY <3>1, <3>2, <3>4 DEF Why
    <3> QED BY <1>5, <3>3, <3>6, <3>7
  <2>2. CASE z \in {"after"} \X DOMAIN p.after[t]
    <3>1. PICK i \in DOMAIN p.after[t] : z = <<"after", i>>
      BY <2>2
    <3> DEFINE u == p.after[t][i]
    <3>2. u \in Tasks(p)
      BY <1>3
    <3> HIDE DEF u
    <3>3. EndLabels(p, u, D(u), H[u])
      BY <1>1, <3>2
    <3>4. \A v \in Tasks(p) : \A j \in DOMAIN p.after[v] : p.after[v][j] = u =>
            \E k \in 2..Len(D(u)) : H[u].kind[k] = "after" /\ H[u].name[k] = v /\ H[u].at[k] = j
      BY ONLY <3>3 DEF EndLabels
    <3>5. p.after[t][i] = u
      BY DEF u
    <3>6. PICK k \in 2..Len(D(u)) :
            H[u].kind[k] = "after" /\ H[u].name[k] = t /\ H[u].at[k] = i
      BY <3>4, <3>5
    <3>7. D(u)[k] = Start(t)
      BY <3>3, <3>6 DEF EndLabels
    <3>8. Why(u, k) = z
      BY <3>1, <3>6 DEF Why
    <3> QED BY <1>5, <3>2, <3>7, <3>8
  <2> QED BY <2>1, <2>2 DEF Written
<1>12. IsFiniteSet(T) /\ Cardinality(T) = BeforeCount(p, t) + Len(p.after[t])
  BY WrittenIs
<1> HIDE DEF T
<1>13. PICK g : g \in [T -> S] /\ \A z \in T : f[g[z]] = z
  <2> DEFINE g == [z \in T |-> CHOOSE x \in S : f[x] = z]
  <2>1. g \in [T -> S] /\ \A z \in T : f[g[z]] = z
    BY <1>11
  <2> QED BY <2>1
<1>14. \A x, y \in T : g[x] = g[y] => x = y
  BY <1>13
<1>15. \A x \in S : \E z \in T : g[z] = x
  <2> TAKE x \in S
  <2>1. f[x] \in T
    BY <1>9
  <2>2. g[f[x]] \in S /\ f[g[f[x]]] = f[x]
    BY <1>13, <2>1
  <2>3. g[f[x]] = x
    BY <1>10, <2>2
  <2> QED BY <2>1, <2>3
<1>16. IsFiniteSet(S) /\ Cardinality(S) = Cardinality(T)
  BY <1>12, <1>13, <1>14, <1>15, SameSize
<1> QED BY <1>12, <1>16 DEF S

(* The number a node waits for at first is that of the links to it.        *)
LEMMA LinkCount ==
  ASSUME NEW p \in Plans, NEW n \in GraphNodes(p)
  PROVE  /\ IsFiniteSet(Links(p, n))
         /\ InitialWaiting(p)[n] = Cardinality(Links(p, n))
<1> DEFINE W == InitialWaiting(p)
           Goal == IsFiniteSet(Links(p, n)) /\ W[n] = Cardinality(Links(p, n))
<1>1. W[n] = CASE n = Done -> Len(p.tasks)
               [] n = Start(n[1]) -> BeforeCount(p, n[1]) + Len(p.after[n[1]])
               [] n = End(n[1]) -> IF p.actions[n[1]] > 0 THEN 2 ELSE 1
               [] OTHER -> 1
  BY DEF InitialWaiting
<1> HIDE DEF W, Goal
<1>2. ASSUME n = Done PROVE Goal
  <2>1. \A t : Done # Start(t) /\ Done # End(t)
    BY Shapes
  <2>2. W[n] = Len(p.tasks)
    BY <1>1, <1>2, <2>1
  <2> QED BY <1>2, <2>2, DoneLinks DEF Goal
<1>3. ASSUME NEW t \in Tasks(p), n = Start(t) PROVE Goal
  <2>1. Start(t) # Done /\ Start(t) # End(t)
    BY Shapes
  <2>2. Start(t)[1] = t
    BY Parts
  <2>3. W[n] = BeforeCount(p, t) + Len(p.after[t])
    BY <1>1, <1>3, <2>1, <2>2
  <2> QED BY <1>3, <2>3, StartLinks DEF Goal
<1>4. ASSUME NEW t \in Tasks(p), n = End(t) PROVE Goal
  <2>1. End(t) # Done /\ End(t) # Start(t)
    BY Shapes
  <2>2. End(t)[1] = t
    BY Parts
  <2>3. W[n] = IF p.actions[t] > 0 THEN 2 ELSE 1
    BY <1>1, <1>4, <2>1, <2>2
  <2> QED BY <1>4, <2>3, EndLinks DEF Goal
<1>5. ASSUME NEW t \in Tasks(p), NEW i \in 1..p.actions[t], n = Action(t, i) PROVE Goal
  <2>1. Action(t, i) # Done /\ Action(t, i) # Start(t) /\ Action(t, i) # End(t)
    BY Shapes
  <2>2. Action(t, i)[1] = t
    BY Parts
  <2>3. W[n] = 1
    BY <1>1, <1>5, <2>1, <2>2
  <2> QED BY <1>5, <2>3, ActionLinks DEF Goal
<1>6. \/ n = Done
      \/ \E t \in Tasks(p) : n = Start(t) \/ n = End(t)
      \/ \E t \in Tasks(p) : \E i \in 1..p.actions[t] : n = Action(t, i)
  BY NodeCases
<1>7. Goal
  BY <1>2, <1>3, <1>4, <1>5, <1>6
<1> QED BY <1>7 DEF Goal, W

(* Whoever has the last node, and with a node all it waits for, has all.   *)
LEMMA AllBeforeDone ==
  ASSUME NEW p \in Plans, NEW C, Done \in C,
         \A n \in GraphNodes(p) \cap C : \A l \in Links(p, n) : l[1] \in C
  PROVE  GraphNodes(p) \subseteq C
<1>0. \A t \in Tasks(p) : p.actions[t] \in Nat
  BY PlanFacts
<1>1. \A n \in GraphNodes(p) \cap C : \A m \in GraphNodes(p) : \A k \in Nat :
        k \in 1..Len(Dependants(p, m)) /\ Dependants(p, m)[k] = n => m \in C
  <2> SUFFICES ASSUME NEW n \in GraphNodes(p) \cap C, NEW m \in GraphNodes(p),
                      NEW k \in Nat, k \in 1..Len(Dependants(p, m)),
                      Dependants(p, m)[k] = n
               PROVE  m \in C
    OBVIOUS
  <2>1. <<m, k>> \in Links(p, n) => m \in C
    <3>1. <<m, k>>[1] = m
      OBVIOUS
    <3> QED BY <3>1
  <2> QED BY <2>1, LinkIs
<1>2. ASSUME NEW t \in Tasks(p) PROVE End(t) \in C
  <2>1. End(t) \in GraphNodes(p) /\ Done \in GraphNodes(p) \cap C
    BY NodeCases
  <2>2. /\ Len(Dependants(p, End(t))) \in Nat /\ Len(Dependants(p, End(t))) > 0
        /\ Dependants(p, End(t))[1] = Done
    BY EndHas
  <2>3. 1 \in 1..Len(Dependants(p, End(t)))
    BY ONLY <2>2
  <2> QED BY <1>1, <2>1, <2>2, <2>3
<1>3. ASSUME NEW t \in Tasks(p) PROVE Start(t) \in C
  <2>1. Start(t) \in GraphNodes(p) /\ End(t) \in GraphNodes(p) \cap C
    BY <1>2, NodeCases
  <2>2. /\ Len(Dependants(p, Start(t))) = IF p.actions[t] > 0 THEN 2 ELSE 1
        /\ Dependants(p, Start(t))[1] = End(t)
    BY StartDependants
  <2>3. 1 \in 1..Len(Dependants(p, Start(t)))
    BY ONLY <2>2
  <2> QED BY <1>1, <2>1, <2>2, <2>3
<1>4. ASSUME NEW t \in Tasks(p), NEW i \in 1..p.actions[t] PROVE Action(t, i) \in C
  <2> DEFINE a == p.actions[t]
             G == {j \in 0..a - 1 : Action(t, a - j) \in C}
  <2>0. a \in Nat /\ a > 0 /\ a - 1 \in Nat
    BY <1>0
  <2>1. ASSUME NEW j \in 1..a
        PROVE  /\ Action(t, j) \in GraphNodes(p)
               /\ 1 \in 1..Len(Dependants(p, Action(t, j)))
               /\ Dependants(p, Action(t, j))[1] =
                    IF j < a THEN Action(t, j + 1) ELSE End(t)
    <3>1. Action(t, j) \in GraphNodes(p)
      BY NodeCases
    <3>2. LET s == Dependants(p, Action(t, j))
          IN Len(s) = 1 /\ s[1] = IF j < a THEN Action(t, j + 1) ELSE End(t)
      BY ActionDependants
    <3>3. 1 \in 1..Len(Dependants(p, Action(t, j)))
      BY ONLY <3>2
    <3> QED BY <3>1, <3>2, <3>3
  <2>2. Action(t, a) \in C
    <3>1. a \in 1..a /\ ~(a < a) /\ 1 \in Nat
      BY <2>0
    <3>2. End(t) \in GraphNodes(p) \cap C
      BY <1>2, NodeCases
    <3> HIDE DEF a
    <3> QED BY <1>1, <2>1, <3>1, <3>2
  <2>3. ASSUME NEW j \in 1..a, j < a, Action(t, j + 1) \in C PROVE Action(t, j) \in C
    <3>1. j + 1 \in 1..a /\ 1 \in Nat
      BY <2>0, <2>3
    <3>2. Action(t, j + 1) \in GraphNodes(p) \cap C
      BY <2>1, <2>3, <3>1
    <3> HIDE DEF a
    <3> QED BY <1>1, <2>1, <2>3, <3>1, <3>2
  <2> HIDE DEF a
  <2>4. 0 \in G
    <3>1. a - 0 = a /\ 0 \in 0..a - 1
      BY <2>0
    <3> QED BY <2>2, <3>1
  <2>5. \A j \in 1..a - 1 : j - 1 \in G => j \in G
    <3> SUFFICES ASSUME NEW j \in 1..a - 1, j - 1 \in G PROVE j \in G
      OBVIOUS
    <3>1. /\ a - j \in 1..a /\ a - j < a /\ (a - j) + 1 = a - (j - 1)
          /\ j \in 0..a - 1
      BY <2>0
    <3>2. Action(t, (a - j) + 1) \in C
      BY <3>1
    <3> QED BY <2>3, <3>1, <3>2
  <2>6. \A j \in 0..a - 1 : j \in G
    <3> HIDE DEF G
    <3> QED BY <2>0, <2>4, <2>5, UpTo
  <2>7. a - i \in 0..a - 1 /\ a - (a - i) = i
    BY <2>0 DEF a
  <2> QED BY <2>6, <2>7
<1> QED BY <1>2, <1>3, <1>4, NodeCases

(* The edges of the abstract graph, and its nodes.                         *)
Edges(p) ==
  UNION {{<<n, Dependants(p, n)[i]>> : i \in DOMAIN Dependants(p, n)} :
           n \in GraphNodes(p)}

LEMMA EdgeIs ==
  ASSUME NEW p \in Plans, NEW e \in Edges(p)
  PROVE  /\ e[1] \in GraphNodes(p) /\ e[2] \in GraphNodes(p)
         /\ \E k \in Nat : <<e[1], k>> \in Links(p, e[2])
<1>0. PICK n \in GraphNodes(p) :
        e \in {<<n, Dependants(p, n)[i]>> : i \in DOMAIN Dependants(p, n)}
  BY DEF Edges
<1>1. PICK i \in DOMAIN Dependants(p, n) : e = <<n, Dependants(p, n)[i]>>
  BY <1>0
<1>2. /\ DOMAIN Dependants(p, n) = 1..Len(Dependants(p, n))
      /\ Dependants(p, n)[i] \in GraphNodes(p)
  BY EdgesClosed
<1>3. i \in Nat
  BY <1>2
<1> QED BY <1>1, <1>2, <1>3, LinkIs

LEMMA NodesOfEdges ==
  ASSUME NEW p \in Plans
  PROVE  {e[1] : e \in Edges(p)} \cup {e[2] : e \in Edges(p)} = GraphNodes(p)
<1> DEFINE M == {e[1] : e \in Edges(p)} \cup {e[2] : e \in Edges(p)}
<1>1. M \subseteq GraphNodes(p)
  BY EdgeIs
<1>2. ASSUME NEW n \in GraphNodes(p), NEW i \in 1..Len(Dependants(p, n))
      PROVE  n \in M /\ Dependants(p, n)[i] \in M
  <2>1. <<n, Dependants(p, n)[i]>> \in Edges(p)
    BY EdgesClosed DEF Edges
  <2> QED BY <2>1
<1>3. ASSUME NEW t \in Tasks(p) PROVE Start(t) \in M
  <2>1. Start(t) \in GraphNodes(p)
    BY NodeCases
  <2>2. Len(Dependants(p, Start(t))) = IF p.actions[t] > 0 THEN 2 ELSE 1
    BY StartDependants
  <2>3. 1 \in 1..Len(Dependants(p, Start(t)))
    BY ONLY <2>2
  <2> QED BY <1>2, <2>1, <2>3
<1>4. ASSUME NEW t \in Tasks(p) PROVE End(t) \in M /\ Done \in M
  <2>1. End(t) \in GraphNodes(p)
    BY NodeCases
  <2>2. /\ Len(Dependants(p, End(t))) \in Nat /\ Len(Dependants(p, End(t))) > 0
        /\ Dependants(p, End(t))[1] = Done
    BY EndHas
  <2>3. 1 \in 1..Len(Dependants(p, End(t)))
    BY ONLY <2>2
  <2> HIDE DEF M
  <2> QED BY <1>2, <2>1, <2>2, <2>3
<1>5. ASSUME NEW t \in Tasks(p), NEW i \in 1..p.actions[t] PROVE Action(t, i) \in M
  <2>1. Action(t, i) \in GraphNodes(p)
    BY NodeCases
  <2>2. Len(Dependants(p, Action(t, i))) = 1
    BY ActionDependants
  <2>3. 1 \in 1..Len(Dependants(p, Action(t, i)))
    BY ONLY <2>2
  <2> QED BY <1>2, <2>1, <2>3
<1>6. \E t : t \in Tasks(p)
  <2>1. p.tasks \in Seq(Tasks(p)) /\ Len(p.tasks) > 0
    BY PlanFacts
  <2>2. 1 \in DOMAIN p.tasks
    BY <2>1
  <2> QED BY <2>2 DEF Tasks
<1> HIDE DEF M
<1>7. GraphNodes(p) \subseteq M
  BY <1>3, <1>4, <1>5, <1>6, NodeCases
<1> QED BY <1>1, <1>7 DEF M

(* The resources of a page are no nodes of the graph.                      *)
ResourceNodes(p) == {Resource(t, i, k) : t \in Tasks(p), i \in Nat, k \in Nat}

Everything(p) == GraphNodes(p) \cup ResourceNodes(p)

LEMMA ResourcesAre ==
  ASSUME NEW p \in Plans
  PROVE  /\ \A n \in ResourceNodes(p) : /\ n \notin GraphNodes(p) /\ n # Done
                                        /\ Dependants(p, n) = <<>>
         /\ \A n \in Everything(p) : Resources(p, n) \in Seq(ResourceNodes(p))
<1>1. ASSUME NEW n \in ResourceNodes(p)
      PROVE  /\ n \notin GraphNodes(p) /\ n # Done /\ Dependants(p, n) = <<>>
             /\ Len(n) # 3
  <2>1. PICK t \in Tasks(p), i \in Nat, k \in Nat : n = Resource(t, i, k)
    BY DEF ResourceNodes
  <2>2. /\ \A u, j : n # Start(u) /\ n # End(u) /\ n # Action(u, j)
        /\ n # Done
    BY <2>1, Shapes
  <2>3. n \notin GraphNodes(p)
    BY <2>2, NodeCases
  <2>4. Len(n) = 4
    BY <2>1, Parts
  <2>5. Dependants(p, n) = <<>>
    BY <2>1, DependantsOf
  <2> QED BY <2>2, <2>3, <2>4, <2>5
<1>2. ASSUME NEW n \in Everything(p), Len(n) # 3
      PROVE  Resources(p, n) \in Seq(ResourceNodes(p))
  <2>1. Resources(p, n) = <<>>
    BY <1>2 DEF Resources
  <2> QED BY <2>1
<1>3. ASSUME NEW n \in GraphNodes(p), Len(n) = 3
      PROVE  Resources(p, n) \in Seq(ResourceNodes(p))
  <2>0. PICK t \in Tasks(p) : \E i \in 1..p.actions[t] : n = Action(t, i)
    <3>1. \A t : Len(Start(t)) = 2 /\ Len(End(t)) = 2 /\ Len(Done) = 1
      BY Parts
    <3> QED BY <1>3, <3>1, NodeCases
  <2>1. PICK i \in 1..p.actions[t] : n = Action(t, i)
    BY <2>0
  <2>2. n[1] = t /\ n[3] = i
    BY <2>1, Parts
  <2>3. p.resources[t][i] \in Nat /\ i \in Nat
    BY PlanFacts
  <2>4. Resources(p, n) = [k \in 1..p.resources[t][i] |-> Resource(t, i, k)]
    BY <1>3, <2>2 DEF Resources
  <2> DEFINE R == p.resources[t][i]
  <2>5. \A k \in 1..R : Resource(t, i, k) \in ResourceNodes(p)
    BY <2>3 DEF ResourceNodes
  <2> HIDE DEF R
  <2>6. [k \in 1..R |-> Resource(t, i, k)] \in Seq(ResourceNodes(p))
    BY <2>3, <2>5 DEF R
  <2> QED BY <2>4, <2>6 DEF R
<1> QED BY <1>1, <1>2, <1>3 DEF Everything

-----------------------------------------------------------------------------
(* Lists of tasks.                                                         *)

(* What a list has of a set N of nodes; that it has none of them twice.    *)
In(N, s) == {s[i] : i \in DOMAIN s} \cap N
Once(N, s) == \A i, j \in DOMAIN s : s[i] = s[j] /\ s[i] \in N => i = j

LEMMA InEmpty ==
  ASSUME NEW N
  PROVE  In(N, <<>>) = {} /\ Once(N, <<>>)
BY DEF In, Once

LEMMA InOther ==
  ASSUME NEW N, NEW R, NEW s \in Seq(R), N \cap R = {}
  PROVE  In(N, s) = {} /\ Once(N, s)
<1>1. \A i \in DOMAIN s : s[i] \in R
  OBVIOUS
<1> QED BY <1>1 DEF In, Once

LEMMA InJoined ==
  ASSUME NEW N, NEW S, NEW a \in Seq(S), NEW b \in Seq(S)
  PROVE  /\ a \o b \in Seq(S)
         /\ In(N, a \o b) = In(N, a) \cup In(N, b)
         /\ Once(N, a) /\ Once(N, b) /\ In(N, a) \cap In(N, b) = {} => Once(N, a \o b)
<1> DEFINE s == a \o b
<1>1. /\ DOMAIN a = 1..Len(a) /\ DOMAIN b = 1..Len(b)
  OBVIOUS
<1>2. /\ s \in Seq(S)
      /\ \A k \in 1..Len(s) :
           \/ k \in 1..Len(a) /\ s[k] = a[k]
           \/ /\ k - Len(a) \in 1..Len(b)
              /\ Len(a) + (k - Len(a)) = k /\ s[k] = b[k - Len(a)]
      /\ \A k \in 1..Len(a) : k \in 1..Len(s) /\ s[k] = a[k]
      /\ \A k \in 1..Len(b) : Len(a) + k \in 1..Len(s) /\ s[Len(a) + k] = b[k]
  BY Joined
<1> HIDE DEF s
<1>3. DOMAIN s = 1..Len(s)
  BY <1>2
<1>4. In(N, s) \subseteq In(N, a) \cup In(N, b)
  BY <1>1, <1>2, <1>3 DEF In
<1>5. In(N, a) \subseteq In(N, s)
  BY <1>1, <1>2, <1>3 DEF In
<1>6. In(N, b) \subseteq In(N, s)
  BY <1>1, <1>2, <1>3 DEF In
<1>7. ASSUME Once(N, a), Once(N, b), In(N, a) \cap In(N, b) = {}
      PROVE  Once(N, s)
  <2> SUFFICES ASSUME NEW i \in DOMAIN s, NEW j \in DOMAIN s, s[i] = s[j], s[i] \in N
               PROVE  i = j
    BY DEF Once
  <2>1. /\ \A x, y \in 1..Len(a) : a[x] = a[y] /\ a[x] \in N => x = y
        /\ \A x, y \in 1..Len(b) : b[x] = b[y] /\ b[x] \in N => x = y
        /\ \A x \in 1..Len(a), y \in 1..Len(b) : a[x] = b[y] => a[x] \notin N
    BY <1>1, <1>7 DEF Once, In
  <2>2. CASE i \in 1..Len(a) /\ s[i] = a[i]
    <3>1. CASE j \in 1..Len(a) /\ s[j] = a[j]
      BY <2>1, <2>2, <3>1
    <3>2. CASE j - Len(a) \in 1..Len(b) /\ s[j] = b[j - Len(a)]
      BY <2>1, <2>2, <3>2
    <3> QED BY <1>2, <1>3, <3>1, <3>2
  <2>3. CASE /\ i - Len(a) \in 1..Len(b) /\ s[i] = b[i - Len(a)]
             /\ Len(a) + (i - Len(a)) = i
    <3>1. CASE j \in 1..Len(a) /\ s[j] = a[j]
      BY <2>1, <2>3, <3>1
    <3>2. CASE /\ j - Len(a) \in 1..Len(b) /\ s[j] = b[j - Len(a)]
               /\ Len(a) + (j - Len(a)) = j
      <4>1. i - Len(a) = j - Len(a)
        BY <2>1, <2>3, <3>2
      <4> QED BY ONLY <2>3, <3>2, <4>1
    <3> QED BY <1>2, <1>3, <3>1, <3>2
  <2> QED BY <1>2, <1>3, <2>2, <2>3
<1> QED BY <1>2, <1>4, <1>5, <1>6, <1>7 DEF s

LEMMA InSingle ==
  ASSUME NEW N, NEW S, NEW x \in S
  PROVE  <<x>> \in Seq(S) /\ In(N, <<x>>) = {x} \cap N /\ Once(N, <<x>>)
<1>1. <<x>> \in Seq(S) /\ DOMAIN <<x>> = {1} /\ <<x>>[1] = x
  OBVIOUS
<1> QED BY <1>1 DEF In, Once

LEMMA InAppend ==
  ASSUME NEW N, NEW S, NEW s \in Seq(S), NEW x \in S
  PROVE  /\ Append(s, x) \in Seq(S)
         /\ In(N, Append(s, x)) = In(N, s) \cup ({x} \cap N)
         /\ Once(N, s) /\ x \notin In(N, s) => Once(N, Append(s, x))
<1> DEFINE t == Append(s, x)
<1>1. /\ t \in Seq(S) /\ Len(t) = Len(s) + 1 /\ Len(s) \in Nat
      /\ t[Len(s) + 1] = x
      /\ \A i \in 1..Len(s) : t[i] = s[i]
  OBVIOUS
<1>2. DOMAIN s = 1..Len(s) /\ DOMAIN t = 1..Len(t)
  OBVIOUS
<1> HIDE DEF t
<1>3. /\ DOMAIN t = DOMAIN s \cup {Len(s) + 1} /\ Len(s) + 1 \notin DOMAIN s
  BY <1>1, <1>2
<1>4. In(N, t) = In(N, s) \cup ({x} \cap N)
  <2>1. \A i \in DOMAIN s : i \in DOMAIN t /\ t[i] = s[i]
    BY <1>1, <1>2, <1>3
  <2>2. Len(s) + 1 \in DOMAIN t /\ t[Len(s) + 1] = x
    BY <1>1, <1>3
  <2>3. \A i \in DOMAIN t : i \in DOMAIN s \/ i = Len(s) + 1
    BY <1>3
  <2> HIDE DEF t
  <2>4. In(N, t) \subseteq In(N, s) \cup ({x} \cap N)
    BY <2>1, <2>2, <2>3 DEF In
  <2>5. In(N, s) \subseteq In(N, t) /\ ({x} \cap N) \subseteq In(N, t)
    BY <2>1, <2>2 DEF In
  <2> QED BY <2>4, <2>5
<1>5. Once(N, s) /\ x \notin In(N, s) => Once(N, t)
  BY <1>1, <1>2, <1>3 DEF In, Once
<1> QED BY <1>1, <1>4, <1>5 DEF t

LEMMA InTail ==
  ASSUME NEW N, NEW S, NEW s \in Seq(S), s # <<>>
  PROVE  /\ Tail(s) \in Seq(S) /\ Head(s) \in S
         /\ In(N, s) = In(N, Tail(s)) \cup ({Head(s)} \cap N)
         /\ Once(N, s) => Once(N, Tail(s)) /\ Head(s) \notin In(N, Tail(s))
<1> DEFINE t == Tail(s)
           x == Head(s)
<1>1. /\ t \in Seq(S) /\ Len(t) = Len(s) - 1 /\ Len(s) \in Nat /\ Len(s) > 0
      /\ x \in S /\ x = s[1]
      /\ \A i \in 1..Len(t) : t[i] = s[i + 1]
  OBVIOUS
<1>2. DOMAIN s = 1..Len(s) /\ DOMAIN t = 1..Len(t)
  OBVIOUS
<1> HIDE DEF t, x
<1>3. /\ \A i \in DOMAIN t : i + 1 \in DOMAIN s /\ i + 1 # 1 /\ t[i] = s[i + 1]
      /\ 1 \in DOMAIN s
      /\ \A i \in DOMAIN s : i = 1 \/ (i - 1 \in DOMAIN t /\ (i - 1) + 1 = i)
      /\ \A i, j \in DOMAIN t : i + 1 = j + 1 => i = j
  BY <1>1, <1>2
<1>4. \A i \in DOMAIN s : i = 1 \/ (i - 1 \in DOMAIN t /\ t[i - 1] = s[i])
  BY <1>3
<1>5. In(N, s) \subseteq In(N, t) \cup ({x} \cap N)
  BY <1>1, <1>4 DEF In
<1>6. In(N, t) \subseteq In(N, s) /\ ({x} \cap N) \subseteq In(N, s)
  BY <1>1, <1>3 DEF In
<1>7. Once(N, s) => Once(N, t) /\ x \notin In(N, t)
  <2> SUFFICES ASSUME Once(N, s) PROVE Once(N, t) /\ x \notin In(N, t)
    OBVIOUS
  <2>1. \A i, j \in DOMAIN s : s[i] = s[j] /\ s[i] \in N => i = j
    BY DEF Once
  <2>2. Once(N, t)
    BY <1>3, <2>1 DEF Once
  <2>3. x \notin In(N, t)
    BY <1>1, <1>3, <2>1 DEF In
  <2> QED BY <2>2, <2>3
<1> QED BY <1>1, <1>5, <1>6, <1>7 DEF t, x

Picked(s, I) == {s[i] : i \in I \cap DOMAIN s}
OnceAt(N, s, I) ==
  \A i, j \in I \cap DOMAIN s : s[i] = s[j] /\ s[i] \in N => i = j

LEMMA InKept ==
  ASSUME NEW N, NEW S, NEW s \in Seq(S), NEW I
  PROVE  /\ Kept(s, I) \in Seq(S)
         /\ In(N, Kept(s, I)) = Picked(s, I) \cap N
         /\ OnceAt(N, s, I) => Once(N, Kept(s, I))
<1> DEFINE t == Kept(s, I)
<1>1. t \in Seq(S)
  BY KeptIs
<1>2. PICK f : Places(t, s, I, f)
  BY KeptIs
<1>3. DOMAIN t = 1..Len(t) /\ DOMAIN s = 1..Len(s) /\ Len(t) \in Nat
  BY <1>1
<1> HIDE DEF t
<1>4. /\ \A k \in DOMAIN t : f[k] \in I \cap DOMAIN s /\ t[k] = s[f[k]]
      /\ \A j, k \in DOMAIN t : j < k => f[j] < f[k]
      /\ \A i \in I \cap DOMAIN s : \E k \in DOMAIN t : f[k] = i
  BY <1>2, <1>3 DEF Places
<1>5. \A j, k \in DOMAIN t : f[j] = f[k] => j = k
  <2> SUFFICES ASSUME NEW j \in DOMAIN t, NEW k \in DOMAIN t, f[j] = f[k]
               PROVE  j = k
    OBVIOUS
  <2>1. f[j] \in Int /\ f[k] \in Int /\ j \in Int /\ k \in Int
    BY <1>3, <1>4
  <2>2. ~(j < k) /\ ~(k < j)
    BY <1>4, <2>1
  <2> QED BY <2>1, <2>2
<1>6. In(N, t) \subseteq Picked(s, I) \cap N
  BY <1>4 DEF In, Picked
<1>7. Picked(s, I) \cap N \subseteq In(N, t)
  BY <1>4 DEF In, Picked
<1>8. OnceAt(N, s, I) => Once(N, t)
  BY <1>4, <1>5 DEF Once, OnceAt
<1> QED BY <1>1, <1>6, <1>7, <1>8 DEF t

LEMMA KeptOnce ==
  ASSUME NEW N, NEW S, NEW s \in Seq(S), NEW I, Once(N, s)
  PROVE  LET a == Kept(s, I)
             b == Kept(s, DOMAIN s \ I)
         IN /\ a \in Seq(S) /\ b \in Seq(S) /\ Once(N, a) /\ Once(N, b)
            /\ In(N, a) \cup In(N, b) = In(N, s) /\ In(N, a) \cap In(N, b) = {}
<1> DEFINE a == Kept(s, I)
           b == Kept(s, DOMAIN s \ I)
<1>1. \A i, j \in DOMAIN s : s[i] = s[j] /\ s[i] \in N => i = j
  BY DEF Once
<1>2. a \in Seq(S) /\ Once(N, a) /\ In(N, a) = Picked(s, I) \cap N
  <2>1. OnceAt(N, s, I)
    BY <1>1 DEF OnceAt
  <2> QED BY ONLY <2>1, InKept, s \in Seq(S)
<1>3. b \in Seq(S) /\ Once(N, b)
      /\ In(N, b) = Picked(s, DOMAIN s \ I) \cap N
  <2>1. OnceAt(N, s, DOMAIN s \ I)
    BY <1>1 DEF OnceAt
  <2> QED BY ONLY <2>1, InKept, s \in Seq(S)
<1> HIDE DEF a, b
<1>4. In(N, a) \cup In(N, b) = In(N, s)
  BY <1>2, <1>3 DEF In, Picked
<1>5. In(N, a) \cap In(N, b) = {}
  BY <1>1, <1>2, <1>3 DEF Picked
<1> QED BY <1>2, <1>3, <1>4, <1>5 DEF a, b

-----------------------------------------------------------------------------
(* What a node still waits for, and what a countdown takes from it.        *)

(* How often n is among the first i of a list.                             *)
Times(list, n, i) == Cardinality({j \in 1..i : list[j] = n})

LEMMA TimesIs ==
  ASSUME NEW list, NEW n, NEW z \in Nat
  PROVE  /\ \A i \in 0..z : Times(list, n, i) \in Nat
         /\ \A i, j \in 0..z : i <= j => Times(list, n, i) <= Times(list, n, j)
         /\ \A i \in 0..z, j \in 1..z : i < j /\ list[j] = n =>
              Times(list, n, i) < Times(list, n, j)
<1> DEFINE F(i) == {j \in 1..i : list[j] = n}
<1>1. \A i \in 0..z : IsFiniteSet(F(i)) /\ Cardinality(F(i)) \in Nat
  <2> TAKE i \in 0..z
  <2>1. IsFiniteSet(1..i)
    BY FS_Interval
  <2>2. F(i) \subseteq 1..i
    OBVIOUS
  <2> HIDE DEF F
  <2>3. IsFiniteSet(F(i))
    BY <2>1, <2>2, FS_Subset
  <2> QED BY <2>3, FS_CardinalityType
<1>2. \A i, j \in 0..z : i <= j => F(i) \subseteq F(j)
  OBVIOUS
<1>3. \A i \in 0..z, j \in 1..z : i < j /\ list[j] = n => j \in F(j) /\ j \notin F(i)
  OBVIOUS
<1>4. \A i : Times(list, n, i) = Cardinality(F(i))
  BY DEF Times
<1> HIDE DEF F
<1>5. ASSUME NEW i \in 0..z, NEW j \in 0..z, i <= j
      PROVE  Cardinality(F(i)) <= Cardinality(F(j))
  BY <1>1, <1>2, <1>5, FS_Subset
<1>6. ASSUME NEW i \in 0..z, NEW j \in 1..z, i < j, list[j] = n
      PROVE  Cardinality(F(i)) < Cardinality(F(j))
  <2>1. j \in 0..z /\ i <= j
    BY <1>6
  <2>2. F(i) \subseteq F(j) /\ F(i) # F(j)
    BY <1>2, <1>3, <1>6, <2>1
  <2>3. IsFiniteSet(F(j)) /\ Cardinality(F(i)) \in Nat /\ Cardinality(F(j)) \in Nat
    BY <1>1, <2>1
  <2>4. Cardinality(F(i)) <= Cardinality(F(j)) /\ Cardinality(F(i)) # Cardinality(F(j))
    BY <2>2, <2>3, FS_Subset
  <2> QED BY <2>3, <2>4
<1> QED BY <1>1, <1>4, <1>5, <1>6

(* The links to n that are not from nodes in C.                            *)
OpenLinks(p, n, C) == {l \in Links(p, n) : l[1] \notin C}

LEMMA OpenFinite ==
  ASSUME NEW p \in Plans, NEW n \in GraphNodes(p), NEW C
  PROVE  /\ IsFiniteSet(OpenLinks(p, n, C)) /\ Cardinality(OpenLinks(p, n, C)) \in Nat
         /\ Cardinality(OpenLinks(p, n, C)) = 0 => \A l \in Links(p, n) : l[1] \in C
<1>1. IsFiniteSet(Links(p, n)) /\ OpenLinks(p, n, C) \subseteq Links(p, n)
  BY LinkCount DEF OpenLinks
<1>2. IsFiniteSet(OpenLinks(p, n, C))
  BY <1>1, FS_Subset
<1>3. Cardinality(OpenLinks(p, n, C)) = 0 => OpenLinks(p, n, C) = {}
  BY <1>2, FS_EmptySet
<1>4. OpenLinks(p, n, C) = {} => \A l \in Links(p, n) : l[1] \in C
  BY DEF OpenLinks
<1> QED BY <1>2, <1>3, <1>4, FS_CardinalityType

(* Counting down for what waits for m closes the links from m.             *)
LEMMA LinksFrom ==
  ASSUME NEW p \in Plans, NEW n \in GraphNodes(p), NEW m \in GraphNodes(p),
         NEW C, m \notin C
  PROVE  LET list == Dependants(p, m)
             t == Times(list, n, Len(list))
         IN /\ t \in Nat /\ t <= Cardinality(OpenLinks(p, n, C))
            /\ Cardinality(OpenLinks(p, n, C \cup {m})) = Cardinality(OpenLinks(p, n, C)) - t
<1> DEFINE list == Dependants(p, m)
           S == {j \in 1..Len(list) : list[j] = n}
           T == {l \in Links(p, n) : l[1] = m}
           O == OpenLinks(p, n, C)
           f == [j \in S |-> <<m, j>>]
<1>1. Len(list) \in Nat
  BY EdgesClosed
<1>2. ASSUME NEW j \in S PROVE <<m, j>> \in T
  <2>1. j \in Nat
    BY <1>1
  <2>2. <<m, j>> \in Links(p, n)
    BY <2>1, LinkIs
  <2> QED BY <2>2
<1>3. ASSUME NEW l \in T PROVE \E j \in S : l = <<m, j>>
  <2>1. PICK q \in GraphNodes(p), k \in Nat : l = <<q, k>>
    BY DEF Links
  <2>2. q = m
    BY <2>1
  <2>3. k \in 1..Len(list) /\ list[k] = n
    BY <2>1, <2>2, LinkIs
  <2> QED BY <2>1, <2>2, <2>3
<1>4. IsFiniteSet(S)
  <2>1. IsFiniteSet(1..Len(list)) /\ S \subseteq 1..Len(list)
    BY <1>1, FS_Interval
  <2> HIDE DEF S
  <2> QED BY <2>1, FS_Subset
<1>5. Times(list, n, Len(list)) = Cardinality(S)
  BY DEF Times
<1> HIDE DEF S, T, list
<1>6. f \in [S -> T]
  BY <1>2
<1>7. \A x, y \in S : f[x] = f[y] => x = y
  OBVIOUS
<1>8. \A z \in T : \E x \in S : f[x] = z
  BY <1>3
<1> HIDE DEF f
<1>9. IsFiniteSet(T) /\ Cardinality(T) = Cardinality(S)
  BY <1>4, <1>6, <1>7, <1>8, SameSize
<1>10. T \subseteq O
  BY DEF T, OpenLinks
<1>11. OpenLinks(p, n, C \cup {m}) = O \ T
  BY DEF T, OpenLinks
<1> HIDE DEF O
<1>12. IsFiniteSet(O) /\ Cardinality(O) \in Nat
  BY OpenFinite DEF O
<1>13. Cardinality(O \ T) = Cardinality(O) - Cardinality(O \cap T)
  BY <1>12, FS_Difference
<1>14. O \cap T = T
  BY <1>10
<1>15. Cardinality(T) <= Cardinality(O) /\ Cardinality(T) \in Nat
  BY <1>9, <1>10, <1>12, FS_Subset, FS_CardinalityType
<1> QED BY <1>5, <1>9, <1>11, <1>13, <1>14, <1>15 DEF O, list

-----------------------------------------------------------------------------
(* The inductive invariant of the refinement.                              *)

Nodes == GraphNodes(plan)

Queued  == In(Nodes, queue)
Delayed == In(Nodes, delayed)
Batched == In(Nodes, batch)

(* The nodes a worker has: not begun, begun, and ended but not counted.    *)
Ready(w) == IF pc[w] = "queue" THEN In(Nodes, fresh[w])
            ELSE IF pc[w] \in {"delay", "begin"} THEN {task[w]} \cap Nodes
            ELSE {}
Busy(w) == IF pc[w] \in {"load", "alert", "loading", "running"}
           THEN {task[w]} \cap Nodes ELSE {}
Counting(w) == IF pc[w] = "countdown" THEN {task[w]} \cap Nodes ELSE {}
Held(w) == Ready(w) \cup Busy(w) \cup Counting(w)

Listed == Queued \cup Delayed \cup Batched
AllReady == Listed \cup UNION {Ready(w) : w \in Workers}

Counted == (ended \cap Nodes) \ UNION {Counting(w) : w \in Workers}

TaskPlaces == {"delay", "begin", "load", "alert", "loading", "running", "countdown"}

Types ==
  /\ plan \in Plans
  /\ begun \in [Nodes -> {0, 1}] /\ waiting \in [Nodes -> Nat]
  /\ queue \in Seq(Everything(plan)) /\ delayed \in Seq(Everything(plan))
  /\ batch \in Seq(Everything(plan))
  /\ fresh \in [Workers -> Seq(Nodes)]
  /\ pc \in [Workers -> IdlePlaces \cup BusyPlaces]
  /\ task \in [Workers -> Everything(plan) \cup {NoTask}]
  /\ \A w \in Workers : pc[w] \in TaskPlaces => task[w] \in Everything(plan)

NoneTwice ==
  /\ Once(Nodes, queue) /\ Once(Nodes, delayed) /\ Once(Nodes, batch)
  /\ \A w \in Workers : Once(Nodes, fresh[w])

(* No node is in two places.                                               *)
Apart ==
  /\ Queued \cap Delayed = {} /\ Queued \cap Batched = {}
  /\ Delayed \cap Batched = {}
  /\ \A w \in Workers : Held(w) \cap Listed = {}
  /\ \A v, w \in Workers : v # w => Held(v) \cap Held(w) = {}

Stages ==
  /\ \A n \in AllReady : waiting[n] = 0 /\ begun[n] = 0
  /\ \A w \in Workers : \A n \in Busy(w) : begun[n] = 1 /\ n \notin ended
  /\ \A w \in Workers : Counting(w) \subseteq ended
  /\ \A n \in Nodes : n \in ended => begun[n] = 1
  /\ \A n \in Nodes : begun[n] = 1 => waiting[n] = 0

(* "waiting" is the number of links from what is not counted yet.          *)
Counts == \A n \in Nodes : waiting[n] = Cardinality(OpenLinks(plan, n, Counted))

(* Before the main thread has queued anything.                             *)
Quiet ==
  main = "queue" =>
    /\ queue = <<>> /\ delayed = <<>> /\ batch = <<>>
    /\ \A w \in Workers : pc[w] \in {"top", "wait", "blocked", "woken", "clear",
                                     "test", "exited"}
    /\ \A n \in Nodes : begun[n] = 0

BatchQueued == batch # <<>> => sched = "queue"

Over == main \notin {"queue", "set", "wait"}
Ends == (doneEvent => Done \in ended) /\ (Over => doneEvent)

GraphInv == /\ Types /\ NoneTwice /\ Apart /\ Stages /\ Counts
        /\ Quiet /\ BatchQueued /\ Ends

LEMMA GraphInvInit == Init => GraphInv
<1> SUFFICES ASSUME Init PROVE GraphInv
  OBVIOUS
<1>1. /\ plan \in Plans /\ queue = <<>> /\ delayed = <<>> /\ batch = <<>>
      /\ waiting = InitialWaiting(plan)
      /\ begun = [n \in Nodes |-> 0] /\ ended = {}
      /\ doneEvent = FALSE /\ main = "queue"
      /\ pc = [w \in Workers |-> "top"] /\ task = [w \in Workers |-> NoTask]
      /\ fresh = [w \in Workers |-> <<>>]
  BY DEF Init, Nodes
<1>2. \A n \in Nodes : /\ waiting[n] = Cardinality(Links(plan, n))
                       /\ waiting[n] \in Nat
  <2>1. \A n \in Nodes : /\ IsFiniteSet(Links(plan, n))
                         /\ waiting[n] = Cardinality(Links(plan, n))
    BY <1>1, LinkCount DEF Nodes
  <2> QED BY <2>1, FS_CardinalityType
<1>3. waiting \in [Nodes -> Nat]
  <2>1. waiting = [n \in Nodes |-> waiting[n]]
    BY <1>1 DEF InitialWaiting, Nodes
  <2> QED BY <1>2, <2>1
<1>4. Types
  BY <1>1, <1>3 DEF Types, IdlePlaces, TaskPlaces
<1>5. /\ Queued = {} /\ Delayed = {} /\ Batched = {}
      /\ \A w \in Workers : Ready(w) = {} /\ Busy(w) = {} /\ Counting(w) = {}
  BY <1>1, InEmpty DEF Queued, Delayed, Batched, Ready, Busy, Counting
<1>6. NoneTwice
  BY <1>1, InEmpty DEF NoneTwice
<1>7. Apart
  BY <1>5 DEF Apart, Held, Listed
<1>8. Stages
  BY <1>1, <1>5 DEF Stages, AllReady, Listed
<1>9. Counts
  <2>1. Counted = {}
    BY <1>1 DEF Counted
  <2>2. \A n \in Nodes : OpenLinks(plan, n, {}) = Links(plan, n)
    BY DEF OpenLinks
  <2> QED BY <1>2, <2>1, <2>2 DEF Counts
<1>10. Quiet
  BY <1>1 DEF Quiet
<1>11. BatchQueued /\ Ends
  BY <1>1 DEF BatchQueued, Ends, Over
<1> QED BY <1>4, <1>6, <1>7, <1>8, <1>9, <1>10, <1>11 DEF GraphInv

(* Nodes that are ready may go from one place to another, and a worker may *)
(* lose its node.                                                          *)
LEMMA ReadyMoves ==
  ASSUME Types, Stages, Counts, UNCHANGED <<plan, waiting, begun, ended>>,
         \A v \in Workers : Busy(v)' \subseteq Busy(v) /\ Counting(v)' = Counting(v),
         AllReady' \subseteq AllReady
  PROVE  Stages' /\ Counts'
<1>1. Nodes' = Nodes
  BY DEF Nodes
<1>2. Counted' = Counted
  <2>1. {Counting(w) : w \in Workers}' = {Counting(w) : w \in Workers}
    OBVIOUS
  <2> QED BY <1>1, <2>1 DEF Counted
<1>3. Counts'
  BY <1>1, <1>2 DEF Counts
<1>4. Stages'
  <2>1. /\ \A n \in AllReady' : waiting'[n] = 0 /\ begun'[n] = 0
        /\ \A w \in Workers : \A n \in Busy(w)' : begun'[n] = 1 /\ n \notin ended'
        /\ \A w \in Workers : Counting(w)' \subseteq ended'
    BY DEF Stages
  <2>2. /\ \A n \in Nodes' : n \in ended' => begun'[n] = 1
        /\ \A n \in Nodes' : begun'[n] = 1 => waiting'[n] = 0
    BY <1>1 DEF Stages
  <2> QED BY <2>1, <2>2 DEF Stages
<1> QED BY <1>3, <1>4

(* A step at no list: every worker keeps its nodes, or loses them.         *)
LEMMA HandsKeep ==
  ASSUME GraphInv,
         UNCHANGED <<plan, queue, delayed, batch, fresh, waiting, begun, ended>>,
         \A v \in Workers : /\ Ready(v)' \subseteq Ready(v)
                            /\ Busy(v)' \subseteq Busy(v)
                            /\ Counting(v)' = Counting(v)
  PROVE  NoneTwice' /\ Apart' /\ Stages' /\ Counts'
<1>1. Nodes' = Nodes
  BY DEF Nodes
<1>2. NoneTwice'
  BY <1>1 DEF GraphInv, NoneTwice
<1>3. Queued' = Queued /\ Delayed' = Delayed /\ Batched' = Batched /\ Listed' = Listed
  BY <1>1 DEF Queued, Delayed, Batched, Listed
<1>4. \A v \in Workers : Held(v)' \subseteq Held(v)
  BY DEF Held
<1>5. Apart'
  BY <1>3, <1>4 DEF GraphInv, Apart
<1>6. AllReady' \subseteq AllReady
  BY <1>3 DEF AllReady
<1> QED BY <1>2, <1>5, <1>6, ReadyMoves DEF GraphInv

-----------------------------------------------------------------------------
(* Each step keeps it: the steps of a worker,                              *)

AnyPlace == IdlePlaces \cup BusyPlaces
QuietPlaces == {"top", "wait", "blocked", "woken", "clear", "test", "exited"}

(* What the others have when worker w goes on.                             *)
LEMMA Elsewhere ==
  ASSUME Types, NEW w \in Workers, NEW at, To(w, at), plan' = plan,
         \A v \in Workers : v # w => task'[v] = task[v] /\ fresh'[v] = fresh[v]
  PROVE  /\ pc'[w] = at
         /\ pc' \in [Workers -> AnyPlace] \/ at \notin AnyPlace
         /\ \A v \in Workers : v # w =>
              /\ pc'[v] = pc[v] /\ Ready(v)' = Ready(v) /\ Busy(v)' = Busy(v)
              /\ Counting(v)' = Counting(v)
<1>1. pc' = [pc EXCEPT ![w] = at] /\ pc \in [Workers -> AnyPlace]
  BY DEF To, Types, AnyPlace
<1>2. Nodes' = Nodes
  BY DEF Nodes
<1>3. pc'[w] = at /\ \A v \in Workers : v # w => pc'[v] = pc[v]
  BY <1>1
<1>4. pc' \in [Workers -> AnyPlace] \/ at \notin AnyPlace
  BY <1>1
<1>5. ASSUME NEW v \in Workers, v # w
      PROVE  Ready(v)' = Ready(v) /\ Busy(v)' = Busy(v) /\ Counting(v)' = Counting(v)
  <2>1. pc'[v] = pc[v] /\ task'[v] = task[v] /\ fresh'[v] = fresh[v]
    BY <1>3, <1>5
  <2> QED BY <1>2, <2>1 DEF Ready, Busy, Counting
<1> QED BY <1>3, <1>4, <1>5

(* A step that is only a worker's.                                         *)
LEMMA PcStep ==
  ASSUME GraphInv,
         UNCHANGED <<plan, queue, delayed, batch, fresh, waiting, begun, ended,
                     main, sched, doneEvent>>,
         pc' \in [Workers -> AnyPlace],
         task' \in [Workers -> Everything(plan) \cup {NoTask}],
         \A v \in Workers : pc'[v] \in TaskPlaces => task'[v] \in Everything(plan),
         \A v \in Workers : /\ Ready(v)' \subseteq Ready(v)
                            /\ Busy(v)' \subseteq Busy(v)
                            /\ Counting(v)' = Counting(v),
         main = "queue" => \A v \in Workers : pc'[v] \in QuietPlaces
  PROVE  GraphInv'
<1>1. Nodes' = Nodes
  BY DEF Nodes
<1>2. NoneTwice' /\ Apart' /\ Stages' /\ Counts'
  BY HandsKeep
<1>3. Types'
  BY <1>1 DEF GraphInv, Types, AnyPlace
<1>4. Quiet'
  BY <1>1 DEF GraphInv, Quiet, QuietPlaces
<1>5. BatchQueued' /\ Ends'
  BY DEF GraphInv, BatchQueued, Ends, Over
<1> QED BY <1>2, <1>3, <1>4, <1>5 DEF GraphInv

(* A worker goes on with its task, without touching what is shared.        *)
LEMMA PlainStep ==
  ASSUME GraphInv, NEW w \in Workers, NEW at \in AnyPlace, To(w, at),
         UNCHANGED <<plan, queue, delayed, batch, fresh, waiting, begun, ended,
                     task, main, sched, doneEvent>>,
         \/ at \notin TaskPlaces \cup {"queue"} /\ pc[w] # "countdown"
         \/ at = "begin" /\ pc[w] = "delay"
         \/ at \in {"alert", "loading", "running"}
              /\ pc[w] \in {"load", "alert", "loading"},
         main = "queue" => at \in QuietPlaces
  PROVE  GraphInv'
<1>1. Types /\ Quiet
  BY DEF GraphInv
<1>2. /\ pc'[w] = at /\ pc' \in [Workers -> AnyPlace]
      /\ \A v \in Workers : v # w =>
              /\ pc'[v] = pc[v] /\ Ready(v)' = Ready(v) /\ Busy(v)' = Busy(v)
              /\ Counting(v)' = Counting(v)
  BY <1>1, Elsewhere
<1>3. Nodes' = Nodes
  BY DEF Nodes
<1>4. /\ Ready(w)' \subseteq Ready(w) /\ Busy(w)' \subseteq Busy(w)
      /\ Counting(w)' = Counting(w)
  BY <1>2, <1>3 DEF Ready, Busy, Counting, TaskPlaces
<1>5. pc'[w] \in TaskPlaces => task'[w] \in Everything(plan)
  BY <1>1, <1>2 DEF Types, TaskPlaces
<1>6. \A v \in Workers : pc'[v] \in TaskPlaces => task'[v] \in Everything(plan)
  BY <1>1, <1>2, <1>5 DEF Types
<1>7. main = "queue" => \A v \in Workers : pc'[v] \in QuietPlaces
  BY <1>1, <1>2 DEF Quiet, QuietPlaces
<1>8. task' \in [Workers -> Everything(plan) \cup {NoTask}]
  BY <1>1 DEF Types
<1>9. \A v \in Workers : /\ Ready(v)' \subseteq Ready(v)
                         /\ Busy(v)' \subseteq Busy(v)
                         /\ Counting(v)' = Counting(v)
  BY <1>2, <1>4
<1> QED BY <1>2, <1>6, <1>7, <1>8, <1>9, PcStep

(* Waking the workers that are blocked, and one goes on.                   *)
LEMMA WakingStep ==
  ASSUME GraphInv, NEW w \in Workers, NEW at \in AnyPlace,
         SetTaskEvent([pc EXCEPT ![w] = at]),
         UNCHANGED <<plan, queue, delayed, batch, fresh, waiting, begun, ended,
                     task, main, sched, doneEvent>>,
         \/ at = "checked" /\ pc[w] = "set"
         \/ at = "loading" /\ pc[w] = "alert"
  PROVE  GraphInv'
<1>1. Types /\ Quiet
  BY DEF GraphInv
<1>2. pc \in [Workers -> AnyPlace]
  BY <1>1 DEF Types, AnyPlace
<1>3. /\ pc' \in [Workers -> AnyPlace]
      /\ pc'[w] = at
      /\ \A v \in Workers : v # w =>
           pc'[v] = pc[v] \/ (pc[v] = "blocked" /\ pc'[v] = "woken")
  BY <1>2 DEF SetTaskEvent, Woken, AnyPlace, IdlePlaces, BusyPlaces
<1>4. Nodes' = Nodes
  BY DEF Nodes
<1>5. \A v \in Workers : /\ Ready(v)' \subseteq Ready(v)
                         /\ Busy(v)' \subseteq Busy(v)
                         /\ Counting(v)' = Counting(v)
  <2> TAKE v \in Workers
  <2>1. CASE v = w
    BY <1>3, <1>4, <2>1 DEF Ready, Busy, Counting
  <2>2. CASE v # w
    BY <1>3, <1>4, <2>2 DEF Ready, Busy, Counting
  <2> QED BY <2>1, <2>2
<1>6. \A v \in Workers : pc'[v] \in TaskPlaces => task'[v] \in Everything(plan)
  BY <1>1, <1>3 DEF Types, TaskPlaces
<1>7. main = "queue" => \A v \in Workers : pc'[v] \in QuietPlaces
  BY <1>1, <1>3 DEF Quiet, QuietPlaces
<1>8. task' \in [Workers -> Everything(plan) \cup {NoTask}]
  BY <1>1 DEF Types
<1> QED BY <1>3, <1>5, <1>6, <1>7, <1>8, PcStep

(* Waking the workers, by another thread.                                  *)
LEMMA Waking ==
  ASSUME GraphInv, SetTaskEvent(pc), UNCHANGED <<plan, task, fresh>>
  PROVE  /\ pc' \in [Workers -> AnyPlace]
         /\ \A v \in Workers : /\ pc'[v] = pc[v] \/ (pc[v] = "blocked" /\ pc'[v] = "woken")
                               /\ Ready(v)' = Ready(v) /\ Busy(v)' = Busy(v)
                               /\ Counting(v)' = Counting(v)
         /\ \A v \in Workers : pc'[v] \in TaskPlaces => task'[v] \in Everything(plan)
         /\ task' \in [Workers -> Everything(plan) \cup {NoTask}]
         /\ main = "queue" => \A v \in Workers : pc'[v] \in QuietPlaces
<1>1. Types /\ Quiet
  BY DEF GraphInv
<1>2. pc \in [Workers -> AnyPlace]
  BY <1>1 DEF Types, AnyPlace
<1>3. /\ pc' \in [Workers -> AnyPlace]
      /\ \A v \in Workers : pc'[v] = pc[v] \/ (pc[v] = "blocked" /\ pc'[v] = "woken")
  BY <1>2 DEF SetTaskEvent, Woken, AnyPlace, IdlePlaces, BusyPlaces
<1>4. Nodes' = Nodes
  BY DEF Nodes
<1>5. \A v \in Workers : /\ Ready(v)' = Ready(v)
                         /\ Busy(v)' = Busy(v)
                         /\ Counting(v)' = Counting(v)
  BY <1>3, <1>4 DEF Ready, Busy, Counting
<1>6. \A v \in Workers : pc'[v] \in TaskPlaces => task'[v] \in Everything(plan)
  BY <1>1, <1>3 DEF Types, TaskPlaces
<1>7. main = "queue" => \A v \in Workers : pc'[v] \in QuietPlaces
  BY <1>1, <1>3 DEF Quiet, QuietPlaces
<1>8. task' \in [Workers -> Everything(plan) \cup {NoTask}]
  BY <1>1 DEF Types
<1> QED BY <1>3, <1>5, <1>6, <1>7, <1>8

LEMMA TopKeeps == ASSUME GraphInv, NEW w \in Workers, Top(w) PROVE GraphInv'
<1>1. PICK at \in {"exited", "wait"} : To(w, at)
  BY DEF Top
<1>2. pc[w] = "top" /\ at \in AnyPlace /\ at \in QuietPlaces
      /\ at \notin TaskPlaces \cup {"queue"}
  BY DEF Top, At, AnyPlace, IdlePlaces, QuietPlaces, TaskPlaces
<1> QED BY <1>1, <1>2, PlainStep DEF Top, At, work, events

LEMMA WaitTaskKeeps == ASSUME GraphInv, NEW w \in Workers, WaitTask(w) PROVE GraphInv'
<1>1. PICK at \in {"woken", "blocked"} : To(w, at)
  BY DEF WaitTask
<1>2. pc[w] = "wait" /\ at \in AnyPlace /\ at \in QuietPlaces
      /\ at \notin TaskPlaces \cup {"queue"}
  BY DEF WaitTask, At, AnyPlace, IdlePlaces, BusyPlaces, QuietPlaces, TaskPlaces
<1> QED BY <1>1, <1>2, PlainStep DEF WaitTask, At, work, events

LEMMA WakeKeeps == ASSUME GraphInv, NEW w \in Workers, Wake(w) PROVE GraphInv'
<1>1. PICK at \in {"exited", "clear"} : To(w, at)
  BY DEF Wake
<1>2. pc[w] = "woken" /\ at \in AnyPlace /\ at \in QuietPlaces
      /\ at \notin TaskPlaces \cup {"queue"}
  BY DEF Wake, At, AnyPlace, IdlePlaces, BusyPlaces, QuietPlaces, TaskPlaces
<1> QED BY <1>1, <1>2, PlainStep DEF Wake, At, work, events

LEMMA ClearKeeps == ASSUME GraphInv, NEW w \in Workers, Clear(w) PROVE GraphInv'
<1>1. pc[w] = "clear" /\ "test" \in AnyPlace /\ "test" \in QuietPlaces
      /\ "test" \notin TaskPlaces \cup {"queue"} /\ To(w, "test")
  BY DEF Clear, At, AnyPlace, BusyPlaces, QuietPlaces, TaskPlaces
<1> QED BY <1>1, PlainStep DEF Clear, At, work

LEMMA TellKeeps == ASSUME GraphInv, NEW w \in Workers, TellScheduler(w) PROVE GraphInv'
<1>1. pc[w] = "tell" /\ "checked" \in AnyPlace /\ To(w, "checked")
      /\ "checked" \notin TaskPlaces \cup {"queue"}
  BY DEF TellScheduler, At, AnyPlace, BusyPlaces, TaskPlaces
<1>2. main # "queue"
  BY <1>1 DEF GraphInv, Quiet
<1> QED BY <1>1, <1>2, PlainStep DEF TellScheduler, At, work

LEMMA LoadedKeeps == ASSUME GraphInv, NEW w \in Workers, Loaded(w) PROVE GraphInv'
<1>1. pc[w] = "loading" /\ "running" \in AnyPlace /\ To(w, "running")
  BY DEF Loaded, At, AnyPlace, BusyPlaces
<1>2. main # "queue"
  BY <1>1 DEF GraphInv, Quiet
<1> QED BY <1>1, <1>2, PlainStep DEF Loaded, At, work, events

LEMMA RaiseKeeps == ASSUME GraphInv, NEW w \in Workers, Raise(w) PROVE GraphInv'
<1>1. pc[w] \in {"load", "running"} /\ "dead" \in AnyPlace /\ To(w, "dead")
      /\ "dead" \notin TaskPlaces \cup {"queue"}
  BY DEF Raise, At, AnyPlace, IdlePlaces, TaskPlaces
<1>2. main # "queue"
  BY <1>1 DEF GraphInv, Quiet
<1> QED BY <1>1, <1>2, PlainStep DEF Raise, At, work, events

LEMMA AlertKeeps == ASSUME GraphInv, NEW w \in Workers, AlertLoad(w) PROVE GraphInv'
<1>1. pc[w] = "alert" /\ "loading" \in AnyPlace
  BY DEF AlertLoad, At, AnyPlace, BusyPlaces
<1> QED BY <1>1, WakingStep DEF AlertLoad, At, work

LEMMA SetFreshKeeps == ASSUME GraphInv, NEW w \in Workers, SetFresh(w) PROVE GraphInv'
<1>1. pc[w] = "set" /\ "checked" \in AnyPlace
  BY DEF SetFresh, At, AnyPlace, BusyPlaces
<1> QED BY <1>1, WakingStep DEF SetFresh, At, work

LEMMA CheckedKeeps == ASSUME GraphInv, NEW w \in Workers, Checked(w) PROVE GraphInv'
<1>1. PICK at \in {"top", "test"} : To(w, at)
  BY DEF Checked
<1>2. /\ pc[w] = "checked" /\ task' = [task EXCEPT ![w] = NoTask]
      /\ UNCHANGED <<plan, queue, delayed, batch, fresh, waiting, begun, ended,
                     main, sched, doneEvent>>
  BY DEF Checked, At, work, events
<1>3. Types /\ Quiet
  BY DEF GraphInv
<1>4. task' \in [Workers -> Everything(plan) \cup {NoTask}]
      /\ \A v \in Workers : v # w => task'[v] = task[v] /\ fresh'[v] = fresh[v]
  BY <1>2, <1>3 DEF Types
<1>5. /\ pc'[w] = at /\ pc' \in [Workers -> AnyPlace]
      /\ \A v \in Workers : v # w =>
              /\ pc'[v] = pc[v] /\ Ready(v)' = Ready(v) /\ Busy(v)' = Busy(v)
              /\ Counting(v)' = Counting(v)
  BY <1>1, <1>2, <1>3, <1>4, Elsewhere DEF AnyPlace, IdlePlaces, BusyPlaces
<1>6. /\ Ready(w)' = {} /\ Busy(w)' = {} /\ Counting(w)' = {} /\ Counting(w) = {}
  BY <1>2, <1>5 DEF Ready, Busy, Counting
<1>7. \A v \in Workers : pc'[v] \in TaskPlaces => task'[v] \in Everything(plan)
  BY <1>3, <1>4, <1>5 DEF Types, TaskPlaces
<1>8. main # "queue"
  BY <1>2, <1>3 DEF Quiet
<1>9. \A v \in Workers : /\ Ready(v)' \subseteq Ready(v)
                         /\ Busy(v)' \subseteq Busy(v)
                         /\ Counting(v)' = Counting(v)
  BY <1>5, <1>6
<1> QED BY <1>2, <1>4, <1>5, <1>7, <1>8, <1>9, PcStep

(* What holds of a worker's step away from the quiet places.               *)
LEMMA NotQuiet ==
  ASSUME GraphInv, NEW w \in Workers, pc[w] \notin QuietPlaces, main' = main
  PROVE  Quiet'
BY DEF GraphInv, Quiet, QuietPlaces

LEMMA GetKeeps == ASSUME GraphInv, NEW w \in Workers, Get(w) PROVE GraphInv'
<1>1. /\ pc[w] = "test"
      /\ UNCHANGED <<plan, sched, batch, main, delayed, waiting, begun, ended,
                     doneEvent, fresh>>
  BY DEF Get, At, events
<1>2. Types /\ Quiet
  BY DEF GraphInv
<1>3. Nodes' = Nodes
  BY <1>1 DEF Nodes
<1>4. CASE queue = <<>>
  <2>1. To(w, "top") /\ UNCHANGED <<queue, task>>
    BY <1>4 DEF Get
  <2>2. "top" \in AnyPlace /\ "top" \notin TaskPlaces \cup {"queue"} /\ "top" \in QuietPlaces
    BY DEF AnyPlace, IdlePlaces, TaskPlaces, QuietPlaces
  <2> QED BY <1>1, <2>1, <2>2, PlainStep
<1>5. CASE queue # <<>>
  <2> DEFINE n == Head(queue)
  <2>1. /\ queue' = Tail(queue) /\ task' = [task EXCEPT ![w] = n]
        /\ \E at \in {"delay", "begin"} : To(w, at)
    BY <1>5 DEF Get
  <2>2. PICK at \in {"delay", "begin"} : To(w, at)
    BY <2>1
  <2>3. /\ queue' \in Seq(Everything(plan)) /\ n \in Everything(plan)
        /\ Queued = In(Nodes, queue') \cup ({n} \cap Nodes)
        /\ Once(Nodes, queue) => Once(Nodes, queue') /\ n \notin In(Nodes, queue')
    BY <1>2, <1>5, <2>1, InTail DEF Types, Queued
  <2> HIDE DEF n
  <2>4. task' \in [Workers -> Everything(plan) \cup {NoTask}] /\ task'[w] = n
        /\ \A v \in Workers : v # w => task'[v] = task[v] /\ fresh'[v] = fresh[v]
    BY <1>1, <1>2, <2>1, <2>3 DEF Types
  <2>5. /\ pc'[w] = at /\ pc' \in [Workers -> AnyPlace]
        /\ \A v \in Workers : v # w =>
              /\ pc'[v] = pc[v] /\ Ready(v)' = Ready(v) /\ Busy(v)' = Busy(v)
              /\ Counting(v)' = Counting(v)
    BY <1>1, <1>2, <2>2, <2>4, Elsewhere DEF AnyPlace, BusyPlaces
  <2>6. /\ Ready(w)' = {n} \cap Nodes /\ Busy(w)' = {} /\ Counting(w)' = {}
        /\ Ready(w) = {} /\ Busy(w) = {} /\ Counting(w) = {}
    BY <1>1, <1>3, <2>4, <2>5 DEF Ready, Busy, Counting
  <2>7. Queued' = In(Nodes, queue') /\ Delayed' = Delayed /\ Batched' = Batched
    BY <1>1, <1>3 DEF Queued, Delayed, Batched
  <2>8. NoneTwice'
    BY <1>1, <1>3, <2>3 DEF GraphInv, NoneTwice
  <2>9. Queued = Queued' \cup ({n} \cap Nodes) /\ n \notin Queued'
    BY <2>3, <2>7 DEF GraphInv, NoneTwice
  <2>10. Listed' \subseteq Listed /\ {n} \cap Nodes \subseteq Listed
    BY <2>7, <2>9 DEF Listed
  <2>11. Apart'
    <3>1. /\ Queued' \cap Delayed' = {} /\ Queued' \cap Batched' = {}
          /\ Delayed' \cap Batched' = {} /\ n \notin Delayed \cap Nodes
          /\ n \notin Batched \cap Nodes
      BY <2>7, <2>9 DEF GraphInv, Apart
    <3>2. \A v \in Workers : Held(v)' = IF v = w THEN {n} \cap Nodes ELSE Held(v)
      BY <2>5, <2>6 DEF Held
    <3>3. ({n} \cap Nodes) \cap Listed' = {}
      BY <2>7, <2>9, <3>1 DEF Listed
    <3>4. \A v \in Workers : Held(v)' \cap Listed' = {}
      BY <2>10, <3>2, <3>3 DEF GraphInv, Apart
    <3>5. \A u, v \in Workers : u # v => Held(u)' \cap Held(v)' = {}
      BY <2>10, <3>2 DEF GraphInv, Apart
    <3> QED BY <3>1, <3>4, <3>5 DEF Apart
  <2>12. AllReady' \subseteq AllReady
    <3>1. \A v \in Workers : Ready(v)' \subseteq AllReady
      BY <2>5, <2>6, <2>10 DEF AllReady
    <3> QED BY <2>10, <3>1 DEF AllReady
  <2>13. \A v \in Workers : Busy(v)' \subseteq Busy(v) /\ Counting(v)' = Counting(v)
    BY <2>5, <2>6
  <2>14. Stages' /\ Counts'
    BY <1>1, <2>12, <2>13, ReadyMoves DEF GraphInv
  <2>15. Types'
    <3>1. \A v \in Workers : pc'[v] \in TaskPlaces => task'[v] \in Everything(plan)
      BY <1>2, <2>3, <2>4, <2>5 DEF Types
    <3> QED BY <1>1, <1>2, <1>3, <2>3, <2>4, <2>5, <3>1 DEF Types, AnyPlace
  <2>16. main # "queue"
    BY <1>2, <1>5 DEF Quiet
  <2>17. Quiet' /\ BatchQueued' /\ Ends'
    BY <1>1, <2>16 DEF GraphInv, Quiet, BatchQueued, Ends, Over
  <2> QED BY <2>8, <2>11, <2>14, <2>15, <2>17 DEF GraphInv
<1> QED BY <1>4, <1>5

LEMMA DelayKeeps == ASSUME GraphInv, NEW w \in Workers, Delay(w) PROVE GraphInv'
<1>1. /\ pc[w] = "delay"
      /\ UNCHANGED <<plan, queue, sched, batch, main, waiting, begun, ended,
                     doneEvent, fresh, task>>
  BY DEF Delay, At, events
<1>2. Types /\ main # "queue"
  BY <1>1 DEF GraphInv, Quiet
<1>3. Nodes' = Nodes
  BY <1>1 DEF Nodes
<1>4. CASE task[w] \in already
  <2>1. To(w, "begin") /\ UNCHANGED delayed
    BY <1>4 DEF Delay
  <2>2. "begin" \in AnyPlace
    BY DEF AnyPlace, BusyPlaces
  <2> QED BY <1>1, <1>2, <2>1, <2>2, PlainStep
<1>5. CASE task[w] \notin already
  <2> DEFINE n == task[w]
  <2>1. delayed' = Append(delayed, n) /\ To(w, "tell")
    BY <1>5 DEF Delay
  <2>2. n \in Everything(plan)
    BY <1>1, <1>2 DEF Types, TaskPlaces
  <2>3. Ready(w) = {n} \cap Nodes /\ Busy(w) = {} /\ Counting(w) = {}
    BY <1>1 DEF Ready, Busy, Counting
  <2> HIDE DEF n
  <2>4. n \notin Delayed
    <3>1. Held(w) \cap Listed = {}
      BY DEF GraphInv, Apart
    <3> QED BY <2>3, <3>1 DEF Held, Listed, Delayed, In
  <2>5. /\ delayed' \in Seq(Everything(plan))
        /\ In(Nodes, delayed') = Delayed \cup ({n} \cap Nodes)
        /\ Once(Nodes, delayed')
    BY <1>2, <2>1, <2>2, <2>4, InAppend DEF Types, GraphInv, NoneTwice, Delayed
  <2>6. /\ pc'[w] = "tell" /\ pc' \in [Workers -> AnyPlace]
        /\ \A v \in Workers : v # w =>
              /\ pc'[v] = pc[v] /\ Ready(v)' = Ready(v) /\ Busy(v)' = Busy(v)
              /\ Counting(v)' = Counting(v)
    BY <1>1, <1>2, <2>1, Elsewhere DEF AnyPlace, BusyPlaces
  <2>7. Ready(w)' = {} /\ Busy(w)' = {} /\ Counting(w)' = {}
    BY <2>6 DEF Ready, Busy, Counting
  <2>8. Delayed' = Delayed \cup ({n} \cap Nodes) /\ Queued' = Queued /\ Batched' = Batched
    BY <1>1, <1>3, <2>5 DEF Queued, Delayed, Batched
  <2>9. NoneTwice'
    BY <1>1, <1>3, <2>5 DEF GraphInv, NoneTwice
  <2>10. Listed' = Listed \cup ({n} \cap Nodes)
    BY <2>8 DEF Listed
  <2>11. Apart'
    <3>1. ({n} \cap Nodes) \cap Listed = {}
          /\ \A v \in Workers : v # w => ({n} \cap Nodes) \cap Held(v) = {}
      BY <2>3 DEF GraphInv, Apart, Held
    <3>2. Queued' \cap Delayed' = {} /\ Queued' \cap Batched' = {} /\ Delayed' \cap Batched' = {}
      BY <2>8, <3>1 DEF GraphInv, Apart, Listed
    <3>3. \A v \in Workers : Held(v)' = IF v = w THEN {} ELSE Held(v)
      BY <2>6, <2>7 DEF Held
    <3>4. \A v \in Workers : Held(v)' \cap Listed' = {}
      BY <2>10, <3>1, <3>3 DEF GraphInv, Apart
    <3>5. \A u, v \in Workers : u # v => Held(u)' \cap Held(v)' = {}
      BY <3>3 DEF GraphInv, Apart
    <3> QED BY <3>2, <3>4, <3>5 DEF Apart
  <2>12. AllReady' \subseteq AllReady
    <3>1. \A v \in Workers : Ready(v)' \subseteq AllReady
      BY <2>6, <2>7 DEF AllReady
    <3>2. Listed' \subseteq AllReady
      BY <2>3, <2>10 DEF AllReady
    <3> QED BY <3>1, <3>2 DEF AllReady
  <2>13. \A v \in Workers : Busy(v)' \subseteq Busy(v) /\ Counting(v)' = Counting(v)
    BY <2>3, <2>6, <2>7
  <2>14. Stages' /\ Counts'
    BY <1>1, <2>12, <2>13, ReadyMoves DEF GraphInv
  <2>15. Types'
    <3>1. \A v \in Workers : pc'[v] \in TaskPlaces => task'[v] \in Everything(plan)
      BY <1>1, <1>2, <2>6 DEF Types, TaskPlaces
    <3> QED BY <1>1, <1>2, <1>3, <2>5, <2>6, <3>1 DEF Types, AnyPlace
  <2>16. Quiet' /\ BatchQueued' /\ Ends'
    BY <1>1, <1>2 DEF GraphInv, Quiet, BatchQueued, Ends, Over
  <2> QED BY <2>9, <2>11, <2>14, <2>15, <2>16 DEF GraphInv
<1> QED BY <1>4, <1>5

LEMMA LoadKeeps == ASSUME GraphInv, NEW w \in Workers, Load(w) PROVE GraphInv'
<1>1. /\ pc[w] = "load" /\ To(w, "alert")
      /\ queue' = queue \o Resources(plan, task[w])
      /\ UNCHANGED <<plan, delayed, sched, batch, main, waiting, begun, ended,
                     doneEvent, fresh, task>>
  BY DEF Load, At, events
<1>2. Types /\ main # "queue"
  BY <1>1 DEF GraphInv, Quiet
<1>3. Nodes' = Nodes
  BY <1>1 DEF Nodes
<1> DEFINE more == Resources(plan, task[w])
<1>4. more \in Seq(ResourceNodes(plan)) /\ Nodes \cap ResourceNodes(plan) = {}
  BY <1>1, <1>2, ResourcesAre DEF Types, TaskPlaces, Nodes
<1>5. queue' = queue \o more
  BY <1>1
<1> HIDE DEF more
<1>6. more \in Seq(Everything(plan)) /\ In(Nodes, more) = {} /\ Once(Nodes, more)
  <2>1. In(Nodes, more) = {} /\ Once(Nodes, more)
    BY ONLY <1>4, InOther
  <2>2. more \in Seq(Everything(plan))
    BY <1>4 DEF Everything
  <2> QED BY <2>1, <2>2
<1>7. /\ queue' \in Seq(Everything(plan)) /\ In(Nodes, queue') = Queued
      /\ Once(Nodes, queue')
  <2>1. queue \in Seq(Everything(plan)) /\ Once(Nodes, queue) /\ Queued = In(Nodes, queue)
    BY <1>2 DEF Types, GraphInv, NoneTwice, Queued
  <2>0. more \in Seq(Everything(plan)) /\ Once(Nodes, more)
    BY <1>6
  <2>2. In(Nodes, queue) \cap In(Nodes, more) = {}
    BY <1>6
  <2>3. /\ queue \o more \in Seq(Everything(plan))
        /\ In(Nodes, queue \o more) = In(Nodes, queue) \cup In(Nodes, more)
        /\ Once(Nodes, queue \o more)
    BY ONLY <2>0, <2>1, <2>2, InJoined
  <2> QED BY <1>5, <1>6, <2>1, <2>3
<1>8. /\ pc'[w] = "alert" /\ pc' \in [Workers -> AnyPlace]
      /\ \A v \in Workers : v # w =>
              /\ pc'[v] = pc[v] /\ Ready(v)' = Ready(v) /\ Busy(v)' = Busy(v)
              /\ Counting(v)' = Counting(v)
  BY <1>1, <1>2, Elsewhere DEF AnyPlace, BusyPlaces
<1>9. Ready(w)' = Ready(w) /\ Busy(w)' = Busy(w) /\ Counting(w)' = Counting(w)
  BY <1>1, <1>3, <1>8 DEF Ready, Busy, Counting
<1>10. \A v \in Workers : /\ Ready(v)' = Ready(v) /\ Busy(v)' = Busy(v)
                          /\ Counting(v)' = Counting(v) /\ Held(v)' = Held(v)
  BY <1>8, <1>9 DEF Held
<1>11. Delayed' = Delayed /\ Queued' = Queued /\ Batched' = Batched /\ Listed' = Listed
  BY <1>1, <1>3, <1>7 DEF Queued, Delayed, Batched, Listed
<1>12. NoneTwice'
  BY <1>1, <1>3, <1>7 DEF GraphInv, NoneTwice
<1>13. Apart'
  BY <1>10, <1>11 DEF GraphInv, Apart
<1>14. AllReady' \subseteq AllReady
  BY <1>10, <1>11 DEF AllReady
<1>15. Stages' /\ Counts'
  BY <1>1, <1>10, <1>14, ReadyMoves DEF GraphInv
<1>16. Types'
  <2>1. \A v \in Workers : pc'[v] \in TaskPlaces => task'[v] \in Everything(plan)
    BY <1>1, <1>2, <1>8 DEF Types, TaskPlaces
  <2> QED BY <1>1, <1>2, <1>3, <1>7, <1>8, <2>1 DEF Types, AnyPlace
<1>17. Quiet' /\ BatchQueued' /\ Ends'
  BY <1>1, <1>2 DEF GraphInv, Quiet, BatchQueued, Ends, Over
<1> QED BY <1>12, <1>13, <1>15, <1>16, <1>17 DEF GraphInv

LEMMA QueueFreshKeeps == ASSUME GraphInv, NEW w \in Workers, QueueFresh(w) PROVE GraphInv'
<1>1. /\ pc[w] = "queue" /\ To(w, "set")
      /\ queue' = queue \o fresh[w]
      /\ fresh' = [fresh EXCEPT ![w] = <<>>]
      /\ UNCHANGED <<plan, delayed, sched, batch, main, waiting, begun, ended,
                     doneEvent, task>>
  BY DEF QueueFresh, At, events
<1>2. Types /\ main # "queue"
  BY <1>1 DEF GraphInv, Quiet
<1>3. Nodes' = Nodes
  BY <1>1 DEF Nodes
<1> DEFINE more == fresh[w]
           X == In(Nodes, more)
<1>4. more \in Seq(Nodes) /\ Once(Nodes, more)
  BY <1>2 DEF Types, GraphInv, NoneTwice
<1>5. queue' = queue \o more /\ Ready(w) = X /\ Busy(w) = {} /\ Counting(w) = {}
  BY <1>1 DEF Ready, Busy, Counting
<1> HIDE DEF more, X
<1>6. more \in Seq(Everything(plan))
  BY <1>4 DEF Everything, Nodes
<1>7. /\ X \cap Listed = {} /\ \A v \in Workers : v # w => X \cap Held(v) = {}
  BY <1>5 DEF GraphInv, Apart, Held
<1>8. /\ queue' \in Seq(Everything(plan)) /\ In(Nodes, queue') = Queued \cup X
      /\ Once(Nodes, queue')
  <2>1. queue \in Seq(Everything(plan)) /\ Once(Nodes, queue) /\ Queued = In(Nodes, queue)
    BY <1>2 DEF Types, GraphInv, NoneTwice, Queued
  <2>2. In(Nodes, queue) \cap In(Nodes, more) = {}
    BY <1>7, <2>1 DEF Listed, X
  <2>3. /\ queue \o more \in Seq(Everything(plan))
        /\ In(Nodes, queue \o more) = In(Nodes, queue) \cup In(Nodes, more)
        /\ Once(Nodes, queue \o more)
    BY ONLY <1>4, <1>6, <2>1, <2>2, InJoined
  <2> QED BY <1>5, <2>1, <2>3 DEF X
<1>9. fresh' \in [Workers -> Seq(Nodes)] /\ fresh'[w] = <<>>
      /\ \A v \in Workers : v # w => fresh'[v] = fresh[v]
  BY <1>1, <1>2 DEF Types
<1>10. /\ pc'[w] = "set" /\ pc' \in [Workers -> AnyPlace]
       /\ \A v \in Workers : v # w =>
              /\ pc'[v] = pc[v] /\ Ready(v)' = Ready(v) /\ Busy(v)' = Busy(v)
              /\ Counting(v)' = Counting(v)
  BY <1>1, <1>2, <1>9, Elsewhere DEF AnyPlace, BusyPlaces
<1>11. Ready(w)' = {} /\ Busy(w)' = {} /\ Counting(w)' = {}
  BY <1>10 DEF Ready, Busy, Counting
<1>12. \A v \in Workers : Held(v)' = IF v = w THEN {} ELSE Held(v)
  BY <1>10, <1>11 DEF Held
<1>13. Delayed' = Delayed /\ Queued' = Queued \cup X /\ Batched' = Batched
       /\ Listed' = Listed \cup X
  BY <1>1, <1>3, <1>8 DEF Queued, Delayed, Batched, Listed
<1>14. NoneTwice'
  BY <1>1, <1>3, <1>8, <1>9, InEmpty DEF GraphInv, NoneTwice
<1>15. Apart'
  <2>1. Queued' \cap Delayed' = {} /\ Queued' \cap Batched' = {} /\ Delayed' \cap Batched' = {}
    BY <1>7, <1>13 DEF GraphInv, Apart, Listed
  <2>2. \A v \in Workers : Held(v)' \cap Listed' = {}
    BY <1>7, <1>12, <1>13 DEF GraphInv, Apart
  <2>3. \A u, v \in Workers : u # v => Held(u)' \cap Held(v)' = {}
    BY <1>12 DEF GraphInv, Apart
  <2> QED BY <2>1, <2>2, <2>3 DEF Apart
<1>16. AllReady' \subseteq AllReady
  <2>1. \A v \in Workers : Ready(v)' \subseteq AllReady
    BY <1>10, <1>11 DEF AllReady
  <2>2. Listed' \subseteq AllReady
    BY <1>5, <1>13 DEF AllReady
  <2> QED BY <2>1, <2>2 DEF AllReady
<1>17. \A v \in Workers : Busy(v)' \subseteq Busy(v) /\ Counting(v)' = Counting(v)
  BY <1>5, <1>10, <1>11
<1>18. Stages' /\ Counts'
  BY <1>1, <1>16, <1>17, ReadyMoves DEF GraphInv
<1>19. Types'
  <2>1. \A v \in Workers : pc'[v] \in TaskPlaces => task'[v] \in Everything(plan)
    BY <1>1, <1>2, <1>10 DEF Types, TaskPlaces
  <2> QED BY <1>1, <1>2, <1>3, <1>8, <1>9, <1>10, <2>1 DEF Types, AnyPlace
<1>20. Quiet' /\ BatchQueued' /\ Ends'
  BY <1>1, <1>2 DEF GraphInv, Quiet, BatchQueued, Ends, Over
<1> QED BY <1>14, <1>15, <1>18, <1>19, <1>20 DEF GraphInv

LEMMA BeginKeeps == ASSUME GraphInv, NEW w \in Workers, Begin(w) PROVE GraphInv'
<1> DEFINE n == task[w]
<1>1. /\ pc[w] = "begin" /\ \E at \in {"running", "load"} : To(w, at)
      /\ begun' = [m \in DOMAIN begun |-> begun[m] + IF m = n THEN 1 ELSE 0]
      /\ UNCHANGED <<plan, queue, delayed, sched, batch, main, waiting, ended,
                     doneEvent, fresh, task>>
  BY DEF Begin, At, events
<1>2. Types /\ main # "queue"
  BY <1>1 DEF GraphInv, Quiet
<1>3. Nodes' = Nodes
  BY <1>1 DEF Nodes
<1>4. PICK at \in {"running", "load"} : To(w, at)
  BY <1>1
<1>5. /\ pc'[w] = at /\ pc' \in [Workers -> AnyPlace]
      /\ \A v \in Workers : v # w =>
              /\ pc'[v] = pc[v] /\ Ready(v)' = Ready(v) /\ Busy(v)' = Busy(v)
              /\ Counting(v)' = Counting(v)
  BY <1>1, <1>2, <1>4, Elsewhere DEF AnyPlace, BusyPlaces
<1>6. /\ Ready(w) = {n} \cap Nodes /\ Busy(w) = {} /\ Counting(w) = {}
      /\ Ready(w)' = {} /\ Busy(w)' = {n} \cap Nodes /\ Counting(w)' = {}
  BY <1>1, <1>3, <1>5 DEF Ready, Busy, Counting
<1>7. n \in Nodes => begun[n] = 0 /\ waiting[n] = 0 /\ n \notin ended
  BY <1>6 DEF GraphInv, Stages, AllReady
<1>8. /\ begun' \in [Nodes -> {0, 1}]
      /\ \A m \in Nodes : begun'[m] = IF m = n THEN 1 ELSE begun[m]
  <2>1. DOMAIN begun = Nodes /\ \A m \in Nodes : begun[m] \in {0, 1}
    BY <1>2 DEF Types
  <2> HIDE DEF n
  <2>2. \A m \in Nodes : begun'[m] = begun[m] + IF m = n THEN 1 ELSE 0
    BY <1>1, <2>1
  <2>3. \A m \in Nodes : begun'[m] = IF m = n THEN 1 ELSE begun[m]
    BY <1>7, <2>1, <2>2
  <2>4. DOMAIN begun' = Nodes /\ begun' = [m \in DOMAIN begun' |-> begun'[m]]
    BY <1>1, <2>1
  <2> QED BY <2>1, <2>3, <2>4
<1>9. \A v \in Workers : Held(v)' = Held(v)
  BY <1>5, <1>6 DEF Held
<1>10. Delayed' = Delayed /\ Queued' = Queued /\ Batched' = Batched /\ Listed' = Listed
  BY <1>1, <1>3 DEF Queued, Delayed, Batched, Listed
<1> HIDE DEF n
<1>11. NoneTwice'
  BY <1>1, <1>3 DEF GraphInv, NoneTwice
<1>12. Apart'
  BY <1>9, <1>10 DEF GraphInv, Apart
<1>13. AllReady' \subseteq AllReady \ ({n} \cap Nodes)
  <2>1. ({n} \cap Nodes) \cap Listed = {}
        /\ \A v \in Workers : v # w => ({n} \cap Nodes) \cap Ready(v) = {}
    BY <1>6 DEF GraphInv, Apart, Held
  <2>2. \A v \in Workers : Ready(v)' \subseteq AllReady \ ({n} \cap Nodes)
    BY <1>5, <1>6, <2>1 DEF AllReady
  <2>3. Listed' \subseteq AllReady \ ({n} \cap Nodes)
    BY <1>10, <2>1 DEF AllReady
  <2> QED BY <2>2, <2>3 DEF AllReady
<1>14. AllReady \subseteq Nodes /\ \A v \in Workers : Busy(v) \subseteq Nodes
  BY DEF AllReady, Listed, Queued, Delayed, Batched, Ready, Busy, In
<1>15. Stages'
  <2>1. \A m \in AllReady' : waiting'[m] = 0 /\ begun'[m] = 0
    BY <1>1, <1>8, <1>13, <1>14 DEF GraphInv, Stages
  <2>2. \A v \in Workers : \A m \in Busy(v)' : begun'[m] = 1 /\ m \notin ended'
    <3> TAKE v \in Workers
    <3>1. CASE v = w
      BY <1>1, <1>6, <1>7, <1>8, <3>1
    <3>2. CASE v # w
      BY <1>1, <1>5, <1>8, <1>14, <3>2 DEF GraphInv, Stages
    <3> QED BY <3>1, <3>2
  <2>3. \A v \in Workers : Counting(v)' \subseteq ended'
    BY <1>1, <1>5, <1>6 DEF GraphInv, Stages
  <2>4. \A m \in Nodes' : m \in ended' => begun'[m] = 1
    BY <1>1, <1>3, <1>8 DEF GraphInv, Stages
  <2>5. \A m \in Nodes' : begun'[m] = 1 => waiting'[m] = 0
    BY <1>1, <1>3, <1>7, <1>8 DEF GraphInv, Stages
  <2> QED BY <2>1, <2>2, <2>3, <2>4, <2>5 DEF Stages
<1>16. Counts'
  <2>1. \A v \in Workers : Counting(v)' = Counting(v)
    BY <1>5, <1>6
  <2>2. {Counting(v) : v \in Workers}' = {Counting(v) : v \in Workers}
    BY <2>1
  <2>3. Counted' = Counted
    BY <1>1, <1>3, <2>2 DEF Counted
  <2> QED BY <1>1, <1>3, <2>3 DEF GraphInv, Counts
<1>17. Types'
  <2>1. \A v \in Workers : pc'[v] \in TaskPlaces => task'[v] \in Everything(plan)
    BY <1>1, <1>2, <1>5 DEF Types, TaskPlaces
  <2> QED BY <1>1, <1>2, <1>3, <1>5, <1>8, <2>1 DEF Types, AnyPlace
<1>18. Quiet' /\ BatchQueued' /\ Ends'
  BY <1>1, <1>2 DEF GraphInv, Quiet, BatchQueued, Ends, Over
<1> QED BY <1>11, <1>12, <1>15, <1>16, <1>17, <1>18 DEF GraphInv

LEMMA FinishKeeps == ASSUME GraphInv, NEW w \in Workers, Finish(w) PROVE GraphInv'
<1> DEFINE n == task[w]
           last == Dependants(plan, n) = <<>>
<1>1. /\ pc[w] = "running"
      /\ To(w, IF last THEN "checked" ELSE "countdown")
      /\ ended' = ended \cup {n}
      /\ doneEvent' = (doneEvent \/ n = Done)
      /\ UNCHANGED <<plan, queue, delayed, sched, batch, main, waiting, begun,
                     fresh, task>>
  BY DEF Finish, At
<1>2. Types /\ main # "queue"
  BY <1>1 DEF GraphInv, Quiet
<1>3. Nodes' = Nodes
  BY <1>1 DEF Nodes
<1>4. PICK at \in {"checked", "countdown"} :
        To(w, at) /\ (at = "checked" <=> last)
  BY <1>1
<1>5. /\ pc'[w] = at /\ pc' \in [Workers -> AnyPlace]
      /\ \A v \in Workers : v # w =>
              /\ pc'[v] = pc[v] /\ Ready(v)' = Ready(v) /\ Busy(v)' = Busy(v)
              /\ Counting(v)' = Counting(v)
  BY <1>1, <1>2, <1>4, Elsewhere DEF AnyPlace, BusyPlaces
<1>6. /\ Ready(w) = {} /\ Busy(w) = {n} \cap Nodes /\ Counting(w) = {}
      /\ Ready(w)' = {} /\ Busy(w)' = {}
      /\ Counting(w)' = IF last THEN {} ELSE {n} \cap Nodes
  BY <1>1, <1>3, <1>4, <1>5 DEF Ready, Busy, Counting
<1>7. n \in Nodes => begun[n] = 1 /\ n \notin ended
  BY <1>6 DEF GraphInv, Stages
<1>8. n \in Everything(plan)
  BY <1>1, <1>2 DEF Types, TaskPlaces
<1>9. Delayed' = Delayed /\ Queued' = Queued /\ Batched' = Batched /\ Listed' = Listed
  BY <1>1, <1>3 DEF Queued, Delayed, Batched, Listed
<1>10. \A v \in Workers : Held(v)' \subseteq Held(v)
  BY <1>5, <1>6 DEF Held
<1>11. NoneTwice'
  BY <1>1, <1>3 DEF GraphInv, NoneTwice
<1>12. Apart'
  BY <1>9, <1>10 DEF GraphInv, Apart
<1>13. AllReady' \subseteq AllReady
  <2>1. \A v \in Workers : Ready(v)' \subseteq Ready(v)
    BY <1>5, <1>6
  <2> QED BY <1>9, <2>1 DEF AllReady
<1>14. Stages'
  <2>1. \A m \in AllReady' : waiting'[m] = 0 /\ begun'[m] = 0
    BY <1>1, <1>13 DEF GraphInv, Stages
  <2>2. \A v \in Workers : \A m \in Busy(v)' : begun'[m] = 1 /\ m \notin ended'
    <3> TAKE v \in Workers
    <3>1. CASE v = w
      BY <1>6, <3>1
    <3>2. CASE v # w
      <4>1. Busy(v) \cap Busy(w) = {} /\ Busy(v) \subseteq Nodes
        BY <3>2 DEF GraphInv, Apart, Held, Busy
      <4>2. \A m \in Busy(v) : m # n
        BY <1>6, <4>1
      <4> QED BY <1>1, <1>5, <3>2, <4>2 DEF GraphInv, Stages
    <3> QED BY <3>1, <3>2
  <2>3. \A v \in Workers : Counting(v)' \subseteq ended'
    <3> TAKE v \in Workers
    <3>1. CASE v = w
      BY <1>1, <1>6, <3>1
    <3>2. CASE v # w
      BY <1>1, <1>5, <3>2 DEF GraphInv, Stages
    <3> QED BY <3>1, <3>2
  <2>4. \A m \in Nodes' : m \in ended' => begun'[m] = 1
    BY <1>1, <1>3, <1>7 DEF GraphInv, Stages
  <2>5. \A m \in Nodes' : begun'[m] = 1 => waiting'[m] = 0
    BY <1>1, <1>3 DEF GraphInv, Stages
  <2> QED BY <2>1, <2>2, <2>3, <2>4, <2>5 DEF Stages
<1>15. Counts'
  <2> DEFINE X == IF last THEN {} ELSE {n} \cap Nodes
  <2>1. PICK U : U = UNION {Counting(v) : v \in Workers}
    OBVIOUS
  <2>2. PICK V : V = (UNION {Counting(v) : v \in Workers})'
    OBVIOUS
  <2>3. /\ \A m : m \in U <=> \E v \in Workers : m \in Counting(v)
        /\ \A m : m \in V <=> \E v \in Workers : m \in Counting(v)'
    BY <2>1, <2>2
  <2>4. /\ Counting(w)' = X /\ Counting(w) = {}
        /\ \A v \in Workers : v # w => Counting(v)' = Counting(v)
    BY <1>5, <1>6
  <2>5. Counted = (ended \cap Nodes) \ U
    BY <2>1 DEF Counted
  <2>7. Counted' = ((ended \cup {n}) \cap Nodes) \ V
    BY <1>1, <1>3, <2>2 DEF Counted
  <2>8. n \in Nodes => n \notin U /\ n \notin ended
    BY <1>7, <2>3 DEF GraphInv, Stages
  <2>9. Counted' = Counted \cup (IF last THEN {n} \cap Nodes ELSE {})
    <3>1. X = IF last THEN {} ELSE {n} \cap Nodes
      OBVIOUS
    <3> HIDE DEF n, X, last
    <3>2. \A m : m \in V <=> m \in U \/ m \in X
      BY ONLY <2>3, <2>4, w \in Workers
    <3>3. V = U \cup X
      BY ONLY <3>2
    <3>4. CASE last
      BY ONLY <2>5, <2>7, <2>8, <3>1, <3>3, <3>4
    <3>5. CASE ~last
      BY ONLY <2>5, <2>7, <2>8, <3>1, <3>3, <3>5
    <3> QED BY <3>4, <3>5
  <2>6. ASSUME NEW m \in Nodes PROVE OpenLinks(plan, m, Counted') = OpenLinks(plan, m, Counted)
    <3>1. CASE last /\ n \in Nodes
      <4>1. ASSUME NEW l \in Links(plan, m) PROVE l[1] # n
        <5>1. PICK q \in Nodes, k \in Nat : l = <<q, k>>
          BY DEF Links, Nodes
        <5>2. k \in 1..Len(Dependants(plan, q))
          BY <1>2, <5>1, LinkIs DEF Types, Nodes
        <5>3. Len(<<>>) = 0 /\ 1..0 = {}
          OBVIOUS
        <5>4. q # n
          BY <3>1, <5>2, <5>3
        <5> QED BY <5>1, <5>4
      <4> HIDE DEF last
      <4>2. Counted' = Counted \cup {n}
        BY <2>9, <3>1
      <4> QED BY <4>1, <4>2 DEF OpenLinks
    <3>2. CASE ~(last /\ n \in Nodes)
      <4> HIDE DEF last
      <4>1. Counted' = Counted
        BY <2>9, <3>2
      <4> QED BY <4>1
    <3> QED BY <3>1, <3>2
  <2> QED BY <1>1, <1>3, <2>6 DEF GraphInv, Counts
<1>16. Types'
  <2>1. \A v \in Workers : pc'[v] \in TaskPlaces => task'[v] \in Everything(plan)
    BY <1>1, <1>2, <1>5, <1>8 DEF Types, TaskPlaces
  <2> QED BY <1>1, <1>2, <1>3, <1>5, <2>1 DEF Types, AnyPlace
<1>17. Quiet' /\ BatchQueued' /\ Ends'
  BY <1>1, <1>2 DEF GraphInv, Quiet, BatchQueued, Ends, Over
<1> QED BY <1>11, <1>12, <1>14, <1>15, <1>16, <1>17 DEF GraphInv

LastOf(list, w) == {i \in DOMAIN list : w[list[i]] = Times(list, list[i], i)}

(* Who is counted down to nothing: it waited before, it does not any more, *)
(* and it is found at one position only.                                   *)
LEMMA LastIs ==
  ASSUME NEW N, NEW list \in Seq(N), NEW x,
         \A m \in N : x[m] \in Nat /\ Times(list, m, Len(list)) <= x[m]
  PROVE  /\ OnceAt(N, list, LastOf(list, x))
         /\ \A m \in Picked(list, LastOf(list, x)) :
              m \in N /\ x[m] > 0 /\ x[m] = Times(list, m, Len(list))
<1> DEFINE I == LastOf(list, x)
<1>1. /\ DOMAIN list = 1..Len(list) /\ Len(list) \in Nat
      /\ \A i \in DOMAIN list : list[i] \in N
  OBVIOUS
<1>2. \A i \in I : i \in DOMAIN list /\ x[list[i]] = Times(list, list[i], i)
  BY DEF LastOf
<1>3. OnceAt(N, list, I)
  <2>1. ASSUME NEW i \in I, NEW j \in I, list[i] = list[j], i < j
        PROVE  FALSE
    <3>1. i \in 0..Len(list) /\ j \in 1..Len(list)
      BY <1>1, <1>2
    <3>2. Times(list, list[j], i) < Times(list, list[j], j)
      BY <1>1, <2>1, <3>1, TimesIs
    <3>3. Times(list, list[j], i) = Times(list, list[j], j)
      BY <1>2, <2>1
    <3>4. Times(list, list[j], i) \in Nat /\ Times(list, list[j], j) \in Nat
      <4>1. 1..Len(list) \subseteq 0..Len(list)
        BY <1>1
      <4> QED BY <1>1, <3>1, <4>1, TimesIs
    <3> QED BY <3>2, <3>3, <3>4
  <2>2. \A i, j \in I : i \in Nat /\ j \in Nat
    BY <1>1, <1>2
  <2> HIDE DEF I
  <2>3. \A i, j \in I : list[i] = list[j] => i = j
    BY <2>1, <2>2
  <2> QED BY <2>3 DEF OnceAt
<1>4. ASSUME NEW m \in Picked(list, I)
      PROVE  m \in N /\ x[m] > 0 /\ x[m] = Times(list, m, Len(list))
  <2>1. PICK i \in I \cap DOMAIN list : m = list[i]
    BY DEF Picked
  <2> HIDE DEF I
  <2>2. m \in N /\ x[m] = Times(list, m, i) /\ i \in 1..Len(list)
    BY <1>1, <1>2, <2>1
  <2>3. i \in 0..Len(list) /\ 0 \in 0..Len(list) /\ Len(list) \in 0..Len(list) /\ 0 < i /\ i <= Len(list)
    BY <1>1, <2>2
  <2>4. /\ Times(list, m, 0) \in Nat /\ Times(list, m, i) \in Nat
        /\ Times(list, m, Len(list)) \in Nat
        /\ Times(list, m, i) <= Times(list, m, Len(list))
        /\ Times(list, m, 0) < Times(list, m, i)
    BY <1>1, <2>1, <2>2, <2>3, TimesIs
  <2> QED BY <2>2, <2>4
<1> QED BY <1>3, <1>4

LEMMA CountdownKeeps ==
  ASSUME GraphInv, NEW w \in Workers, Countdown(w) PROVE GraphInv'
<1> DEFINE n == task[w]
           list == Dependants(plan, n)
           L == LastOf(list, waiting)
           t(m) == Times(list, m, Len(list))
           X == In(Nodes, Kept(list, L))
<1>1. /\ pc[w] = "countdown" /\ To(w, "queue")
      /\ waiting' = [m \in DOMAIN waiting |-> waiting[m] - t(m)]
      /\ fresh' = [fresh EXCEPT ![w] = Kept(list, L)]
      /\ UNCHANGED <<plan, queue, delayed, sched, batch, main, begun, ended,
                     doneEvent, task>>
  BY DEF Countdown, At, events, LastOf, Times
<1>2. Types /\ main # "queue" /\ plan \in Plans
  BY <1>1 DEF GraphInv, Quiet, Types
<1>3. Nodes' = Nodes
  BY <1>1 DEF Nodes
<1>4. n \in Everything(plan)
  BY <1>1, <1>2 DEF Types, TaskPlaces
<1>5. list \in Seq(Nodes)
  <2>1. CASE n \in Nodes
    BY <1>2, <2>1, EdgesClosed DEF Nodes
  <2>2. CASE n \notin Nodes
    <3>1. list = <<>>
      BY <1>2, <1>4, <2>2, ResourcesAre DEF Everything, Nodes
    <3> QED BY <3>1
  <2> QED BY <2>1, <2>2
<1>6. /\ pc'[w] = "queue" /\ pc' \in [Workers -> AnyPlace]
      /\ \A v \in Workers : v # w =>
              /\ pc'[v] = pc[v] /\ Ready(v)' = Ready(v) /\ Busy(v)' = Busy(v)
              /\ Counting(v)' = Counting(v) /\ fresh'[v] = fresh[v]
  <2>1. \A v \in Workers : v # w => task'[v] = task[v] /\ fresh'[v] = fresh[v]
    BY <1>1
  <2>2. plan' = plan /\ To(w, "queue") /\ "queue" \in AnyPlace
    BY <1>1 DEF AnyPlace, BusyPlaces
  <2> QED BY <1>2, <2>1, <2>2, Elsewhere
<1>7. fresh'[w] = Kept(list, L)
  BY <1>1, <1>2 DEF Types
<1>8. /\ Ready(w) = {} /\ Busy(w) = {} /\ Counting(w) = {n} \cap Nodes
      /\ Ready(w)' = X /\ Busy(w)' = {} /\ Counting(w)' = {}
  BY <1>1, <1>3, <1>6, <1>7 DEF Ready, Busy, Counting
<1>9. Counted' = Counted \cup ({n} \cap Nodes)
      /\ (n \in Nodes => n \notin Counted)
  <2>1. PICK U : U = UNION {Counting(v) : v \in Workers}
    OBVIOUS
  <2>2. PICK V : V = (UNION {Counting(v) : v \in Workers})'
    OBVIOUS
  <2>3. /\ \A m : m \in U <=> \E v \in Workers : m \in Counting(v)
        /\ \A m : m \in V <=> \E v \in Workers : m \in Counting(v)'
    BY <2>1, <2>2
  <2>4. /\ Counting(w)' = {} /\ Counting(w) = {n} \cap Nodes
        /\ \A v \in Workers : v # w => Counting(v)' = Counting(v)
    BY <1>6, <1>8
  <2>5. Counted = (ended \cap Nodes) \ U
    BY <2>1 DEF Counted
  <2>6. Counted' = (ended \cap Nodes) \ V
    BY <1>1, <1>3, <2>2 DEF Counted
  <2>7. \A v \in Workers : v # w => Counting(v) \cap Counting(w) = {}
    BY DEF GraphInv, Apart, Held
  <2>8. Counting(w) \subseteq ended
    BY DEF GraphInv, Stages
  <2> HIDE DEF n
  <2>9. \A m : m \in U <=> m \in V \/ m \in {n} \cap Nodes
    BY ONLY <2>3, <2>4, w \in Workers
  <2>10. \A m : m \in V => m \notin {n} \cap Nodes
    BY ONLY <2>3, <2>4, <2>7, w \in Workers
  <2>11. {n} \cap Nodes \subseteq ended
    BY ONLY <2>4, <2>8
  <2> QED BY ONLY <2>5, <2>6, <2>9, <2>10, <2>11
<1> HIDE DEF X, L
<1>10. \A m \in Nodes : t(m) \in Nat
  <2>1. Len(list) \in Nat /\ Len(list) \in 0..Len(list)
    BY <1>5
  <2> QED BY <2>1, TimesIs
<1>11. ASSUME NEW m \in Nodes
       PROVE  /\ waiting[m] \in Nat /\ t(m) <= waiting[m]
              /\ waiting[m] - t(m) = Cardinality(OpenLinks(plan, m, Counted'))
  <2>1. waiting[m] = Cardinality(OpenLinks(plan, m, Counted)) /\ waiting[m] \in Nat
    BY <1>2 DEF GraphInv, Counts, Types
  <2>2. CASE n \in Nodes
    <3>1. Counted' = Counted \cup {n} /\ n \notin Counted
      BY <1>9, <2>2
    <3>2. plan \in Plans /\ m \in GraphNodes(plan) /\ n \in GraphNodes(plan)
      BY <1>2, <2>2 DEF Nodes
    <3>3. /\ t(m) \in Nat /\ t(m) <= Cardinality(OpenLinks(plan, m, Counted))
          /\ Cardinality(OpenLinks(plan, m, Counted \cup {n}))
               = Cardinality(OpenLinks(plan, m, Counted)) - t(m)
      BY <3>1, <3>2, LinksFrom
    <3> QED BY <2>1, <3>1, <3>3
  <2>3. CASE n \notin Nodes
    <3>1. list = <<>>
      BY <1>2, <1>4, <2>3, ResourcesAre DEF Everything, Nodes
    <3>2. t(m) = 0
      <4>1. Len(list) = 0
        BY <3>1
      <4>2. {j \in 1..0 : list[j] = m} = {}
        OBVIOUS
      <4> QED BY <4>1, <4>2, FS_EmptySet DEF Times
    <3>3. Counted' = Counted
      BY <1>9, <2>3
    <3> QED BY <2>1, <3>2, <3>3
  <2> QED BY <2>2, <2>3
<1>12. /\ DOMAIN waiting = Nodes /\ \A m \in Nodes : waiting'[m] = waiting[m] - t(m)
       /\ waiting' \in [Nodes -> Nat]
       /\ \A m \in Nodes : waiting[m] = 0 => waiting'[m] = 0
  <2>1. DOMAIN waiting = Nodes
    BY <1>2 DEF Types
  <2> HIDE DEF t
  <2>2. \A m \in Nodes : waiting'[m] = waiting[m] - t(m)
    BY <1>1, <2>1
  <2>3. \A m \in Nodes : waiting'[m] \in Nat /\ (waiting[m] = 0 => waiting'[m] = 0)
    BY <1>10, <1>11, <2>2
  <2>4. DOMAIN waiting' = Nodes /\ waiting' = [m \in DOMAIN waiting' |-> waiting'[m]]
    BY <1>1, <2>1
  <2> QED BY <2>1, <2>2, <2>3, <2>4
<1>13. /\ Kept(list, L) \in Seq(Nodes) /\ Once(Nodes, Kept(list, L))
       /\ \A m \in X : m \in Nodes /\ waiting[m] > 0 /\ waiting'[m] = 0
  <2>1. \A m \in Nodes : waiting[m] \in Nat /\ Times(list, m, Len(list)) <= waiting[m]
    BY <1>11
  <2>2. /\ OnceAt(Nodes, list, L)
        /\ \A m \in Picked(list, L) :
              m \in Nodes /\ waiting[m] > 0 /\ waiting[m] = t(m)
    BY <1>5, <2>1, LastIs DEF L
  <2>3. /\ Kept(list, L) \in Seq(Nodes) /\ X = Picked(list, L) \cap Nodes
        /\ Once(Nodes, Kept(list, L))
    BY <1>5, <2>2, InKept DEF X
  <2> HIDE DEF t
  <2>4. \A m \in X : m \in Nodes /\ waiting[m] > 0 /\ waiting'[m] = 0
    BY <1>10, <1>12, <2>2, <2>3
  <2> QED BY <2>3, <2>4
<1> HIDE DEF t, list, n
<1>14. X \subseteq Nodes /\ \A m \in X : begun[m] = 0
  <2>1. \A m \in X : begun[m] # 1 /\ begun[m] \in {0, 1}
    BY <1>2, <1>11, <1>13 DEF GraphInv, Stages, Types
  <2> QED BY <1>13, <2>1
<1>15. \A v \in Workers : X \cap Held(v) = {}
  <2>1. ASSUME NEW v \in Workers, NEW m \in X, m \in Held(v) PROVE FALSE
    <3>1. waiting[m] > 0 /\ waiting[m] \in Nat /\ begun[m] = 0 /\ m \in Nodes
      BY <1>11, <1>13, <1>14
    <3>2. m \notin AllReady /\ m \notin Busy(v)
      BY <3>1 DEF GraphInv, Stages
    <3>3. m \notin ended
      BY <3>1 DEF GraphInv, Stages
    <3>4. m \notin Counting(v)
      BY <3>3 DEF GraphInv, Stages
    <3>5. m \notin Ready(v)
      BY <3>2 DEF AllReady
    <3> QED BY <2>1, <3>2, <3>4, <3>5 DEF Held
  <2> QED BY <2>1
<1>16. X \cap Listed = {}
  <2>1. \A m \in X : waiting[m] # 0
    BY <1>11, <1>13
  <2>2. \A m \in Listed : waiting[m] = 0
    BY DEF GraphInv, Stages, AllReady
  <2> QED BY <2>1, <2>2
<1>17. Queued' = Queued /\ Delayed' = Delayed /\ Batched' = Batched /\ Listed' = Listed
  BY <1>1, <1>3 DEF Queued, Delayed, Batched, Listed
<1>18. Held(w)' = X /\ \A v \in Workers : v # w => Held(v)' = Held(v)
  BY <1>6, <1>8 DEF Held
<1>19. NoneTwice'
  BY <1>1, <1>3, <1>6, <1>7, <1>13 DEF GraphInv, NoneTwice
<1>20. Apart'
  <2>1. Queued' \cap Delayed' = {} /\ Queued' \cap Batched' = {} /\ Delayed' \cap Batched' = {}
    BY <1>17 DEF GraphInv, Apart
  <2>2. \A v \in Workers : Held(v)' \cap Listed' = {}
    BY <1>16, <1>17, <1>18 DEF GraphInv, Apart
  <2>3. \A u, v \in Workers : u # v => Held(u)' \cap Held(v)' = {}
    <3>1. \A u, v \in Workers : u # v => Held(u) \cap Held(v) = {}
      BY DEF GraphInv, Apart
    <3> QED BY ONLY <1>15, <1>18, <3>1
  <2> QED BY <2>1, <2>2, <2>3 DEF Apart
<1>21. \A m \in AllReady' : m \in AllReady \/ m \in X
  <2>1. \A v \in Workers : Ready(v)' \subseteq AllReady \cup X
    BY <1>6, <1>8 DEF AllReady
  <2>2. Listed' \subseteq AllReady
    BY <1>17 DEF AllReady
  <2> QED BY <2>1, <2>2 DEF AllReady
<1>22. AllReady \subseteq Nodes
  BY DEF AllReady, Listed, Queued, Delayed, Batched, Ready, In
<1>23. Stages'
  <2>1. \A m \in AllReady' : waiting'[m] = 0 /\ begun'[m] = 0
    BY <1>1, <1>12, <1>13, <1>14, <1>21, <1>22 DEF GraphInv, Stages
  <2>2. \A v \in Workers : \A m \in Busy(v)' : begun'[m] = 1 /\ m \notin ended'
    BY <1>1, <1>6, <1>8 DEF GraphInv, Stages
  <2>3. \A v \in Workers : Counting(v)' \subseteq ended'
    BY <1>1, <1>6, <1>8 DEF GraphInv, Stages
  <2>4. \A m \in Nodes' : m \in ended' => begun'[m] = 1
    BY <1>1, <1>3 DEF GraphInv, Stages
  <2>5. \A m \in Nodes' : begun'[m] = 1 => waiting'[m] = 0
    BY <1>1, <1>3, <1>12 DEF GraphInv, Stages
  <2> QED BY <2>1, <2>2, <2>3, <2>4, <2>5 DEF Stages
<1>24. Counts'
  BY <1>1, <1>3, <1>11, <1>12 DEF Counts
<1>25. Types'
  <2>1. \A v \in Workers : pc'[v] \in TaskPlaces => task'[v] \in Everything(plan)
    BY <1>1, <1>2, <1>6 DEF Types, TaskPlaces
  <2>2. fresh' \in [Workers -> Seq(Nodes)]
    BY <1>1, <1>2, <1>13 DEF Types
  <2> QED BY <1>1, <1>2, <1>3, <1>6, <1>12, <2>1, <2>2 DEF Types, AnyPlace
<1>26. Quiet' /\ BatchQueued' /\ Ends'
  BY <1>1, <1>2 DEF GraphInv, Quiet, BatchQueued, Ends, Over
<1> QED BY <1>19, <1>20, <1>23, <1>24, <1>25, <1>26 DEF GraphInv

-----------------------------------------------------------------------------
(* of the scheduler and of the main thread.                                *)

(* A step of another thread that wakes the workers or leaves them alone,   *)
(* and touches no list.                                                    *)
LEMMA OtherStep ==
  ASSUME GraphInv, SetTaskEvent(pc) \/ pc' = pc,
         UNCHANGED <<plan, queue, delayed, batch, fresh, waiting, begun, ended,
                     task, doneEvent>>,
         sched = "queue" => sched' = "queue",
         main = "queue" \/ main' # "queue", Over' => doneEvent
  PROVE  GraphInv'
<1>1. Types
  BY DEF GraphInv
<1>2. Nodes' = Nodes
  BY DEF Nodes
<1>3. /\ pc' \in [Workers -> AnyPlace]
      /\ \A v \in Workers : /\ Ready(v)' = Ready(v) /\ Busy(v)' = Busy(v)
                            /\ Counting(v)' = Counting(v)
      /\ \A v \in Workers : pc'[v] \in TaskPlaces => task'[v] \in Everything(plan)
      /\ main = "queue" => \A v \in Workers : pc'[v] \in QuietPlaces
  <2>1. CASE SetTaskEvent(pc)
    BY <2>1, Waking
  <2>2. CASE pc' = pc
    BY <1>1, <1>2, <2>2 DEF GraphInv, Quiet, QuietPlaces, Types, AnyPlace, Ready, Busy, Counting
  <2> QED BY <2>1, <2>2
<1>4. NoneTwice' /\ Apart' /\ Stages' /\ Counts'
  BY <1>3, HandsKeep
<1>5. Types'
  BY <1>1, <1>2, <1>3 DEF Types, AnyPlace
<1>6. Quiet'
  BY <1>2, <1>3 DEF GraphInv, Quiet, QuietPlaces
<1>7. BatchQueued' /\ Ends'
  BY DEF GraphInv, BatchQueued, Ends
<1> QED BY <1>4, <1>5, <1>6, <1>7 DEF GraphInv

LEMMA SchedTopKeeps == ASSUME GraphInv, SchedTop PROVE GraphInv'
  BY OtherStep DEF SchedTop, Sched, work, events, Over, GraphInv, Ends

LEMMA SchedWaitKeeps == ASSUME GraphInv, SchedWait PROVE GraphInv'
  BY OtherStep DEF SchedWait, Sched, work, events, Over, GraphInv, Ends

LEMMA SchedTimeoutKeeps == ASSUME GraphInv, SchedTimeout PROVE GraphInv'
  BY OtherStep DEF SchedTimeout, Sched, work, events, Over, GraphInv, Ends

LEMMA SchedClearKeeps == ASSUME GraphInv, SchedClear PROVE GraphInv'
  BY OtherStep DEF SchedClear, Sched, work, Over, GraphInv, Ends

LEMMA SchedSetKeeps == ASSUME GraphInv, SchedSet PROVE GraphInv'
  BY OtherStep DEF SchedSet, Sched, work, Over, GraphInv, Ends

LEMMA ElapseKeeps == ASSUME GraphInv, NEW n, Elapse(n) PROVE GraphInv'
  BY OtherStep DEF Elapse, events, Over, GraphInv, Ends

LEMMA PlaySetKeeps == ASSUME GraphInv, PlaySet PROVE GraphInv'
  BY OtherStep DEF PlaySet, Main, work, Over, GraphInv, Ends

LEMMA PlayDoneKeeps == ASSUME GraphInv, PlayDone PROVE GraphInv'
  BY OtherStep DEF PlayDone, Main, work, events, Over, GraphInv, Ends

LEMMA DeleteKeeps == ASSUME GraphInv, Delete PROVE GraphInv'
  BY OtherStep DEF Delete, Main, work, Over, GraphInv, Ends

LEMMA DeleteWakesWorkersKeeps == ASSUME GraphInv, DeleteWakesWorkers PROVE GraphInv'
  BY OtherStep DEF DeleteWakesWorkers, Main, work, Over, GraphInv, Ends

LEMMA DeleteWakesSchedulerKeeps == ASSUME GraphInv, DeleteWakesScheduler PROVE GraphInv'
  BY OtherStep DEF DeleteWakesScheduler, Main, work, Over, GraphInv, Ends

LEMMA StutterKeeps == ASSUME GraphInv, UNCHANGED vars PROVE GraphInv'
  BY OtherStep DEF vars, Over, GraphInv, Ends

(* What is over goes from one list to another.                             *)
LEMMA SchedScanKeeps == ASSUME GraphInv, SchedScan PROVE GraphInv'
<1> DEFINE over == {i \in DOMAIN delayed : delayed[i] \in due}
<1>1. /\ sched = "scan"
      /\ batch' = Kept(delayed, over)
      /\ delayed' = Kept(delayed, DOMAIN delayed \ over)
      /\ sched' = IF batch' = <<>> THEN "top" ELSE "queue"
      /\ UNCHANGED <<plan, queue, main, waiting, begun, ended, doneEvent, fresh,
                     task, pc>>
  BY DEF SchedScan, Sched, events
<1> HIDE DEF over
<1>2. Types /\ batch = <<>>
  BY <1>1 DEF GraphInv, BatchQueued
<1>3. Nodes' = Nodes
  BY <1>1 DEF Nodes
<1>4. /\ batch' \in Seq(Everything(plan)) /\ delayed' \in Seq(Everything(plan))
      /\ Once(Nodes, batch') /\ Once(Nodes, delayed')
      /\ In(Nodes, batch') \cup In(Nodes, delayed') = In(Nodes, delayed)
      /\ In(Nodes, batch') \cap In(Nodes, delayed') = {}
  <2>1. delayed \in Seq(Everything(plan)) /\ Once(Nodes, delayed)
    BY <1>2 DEF Types, GraphInv, NoneTwice
  <2> QED BY <1>1, <2>1, KeptOnce
<1>5. Batched = {}
  BY <1>2, InEmpty DEF Batched
<1>6. /\ Queued' = Queued /\ Delayed' \cup Batched' = Delayed
      /\ Delayed' \cap Batched' = {}
  BY <1>1, <1>3, <1>4 DEF Queued, Delayed, Batched
<1>7. Listed' = Listed
  BY <1>5, <1>6 DEF Listed
<1>8. \A v \in Workers : /\ Ready(v)' = Ready(v) /\ Busy(v)' = Busy(v)
                         /\ Counting(v)' = Counting(v) /\ Held(v)' = Held(v)
  BY <1>1, <1>3 DEF Ready, Busy, Counting, Held
<1>9. NoneTwice'
  BY <1>1, <1>3, <1>4 DEF GraphInv, NoneTwice
<1>10. Apart'
  <2>1. Queued' \cap Delayed' = {} /\ Queued' \cap Batched' = {}
    BY <1>6 DEF GraphInv, Apart
  <2> QED BY <1>6, <1>7, <1>8, <2>1 DEF GraphInv, Apart
<1>11. AllReady' \subseteq AllReady
  BY <1>7, <1>8 DEF AllReady
<1>12. Stages' /\ Counts'
  BY <1>1, <1>8, <1>11, ReadyMoves DEF GraphInv
<1>13. Types'
  BY <1>1, <1>2, <1>3, <1>4 DEF Types
<1>14. Quiet'
  <2> SUFFICES ASSUME main' = "queue" PROVE Quiet'
    BY DEF Quiet
  <2>1. /\ queue = <<>> /\ delayed = <<>>
        /\ \A v \in Workers : pc[v] \in {"top", "wait", "blocked", "woken", "clear",
                                     "test", "exited"}
        /\ \A m \in Nodes : begun[m] = 0
    BY <1>1 DEF GraphInv, Quiet
  <2>2. ASSUME NEW I PROVE Kept(<<>>, I) = <<>>
    <3>1. <<>> \in Seq({})
      OBVIOUS
    <3>2. Kept(<<>>, I) \in Seq({})
      BY ONLY <3>1, KeptIs
    <3> QED BY <3>2
  <2>3. batch' = <<>> /\ delayed' = <<>>
    BY <1>1, <2>1, <2>2
  <2> QED BY <1>1, <1>3, <2>1, <2>3 DEF Quiet
<1>15. BatchQueued'
  BY <1>1 DEF BatchQueued
<1>16. Ends'
  BY <1>1 DEF GraphInv, Ends, Over
<1> QED BY <1>9, <1>10, <1>12, <1>13, <1>14, <1>15, <1>16 DEF GraphInv

LEMMA SchedQueueKeeps == ASSUME GraphInv, SchedQueue PROVE GraphInv'
<1>1. /\ sched = "queue" /\ sched' = "set"
      /\ queue' = queue \o batch /\ batch' = <<>>
      /\ UNCHANGED <<plan, delayed, main, waiting, begun, ended, doneEvent, fresh,
                     task, pc>>
  BY DEF SchedQueue, Sched, events
<1>2. Types
  BY DEF GraphInv
<1>3. Nodes' = Nodes
  BY <1>1 DEF Nodes
<1>4. /\ queue' \in Seq(Everything(plan)) /\ Once(Nodes, queue')
      /\ In(Nodes, queue') = Queued \cup Batched
  <2>1. /\ queue \in Seq(Everything(plan)) /\ batch \in Seq(Everything(plan))
        /\ Once(Nodes, queue) /\ Once(Nodes, batch)
        /\ In(Nodes, queue) \cap In(Nodes, batch) = {}
    BY <1>2 DEF Types, GraphInv, NoneTwice, Apart, Queued, Batched
  <2> QED BY <1>1, <2>1, InJoined DEF Queued, Batched
<1>5. In(Nodes, batch') = {} /\ Once(Nodes, batch')
  BY <1>1, InEmpty
<1>6. /\ Queued' = Queued \cup Batched /\ Delayed' = Delayed /\ Batched' = {}
  BY <1>1, <1>3, <1>4, <1>5 DEF Queued, Delayed, Batched
<1>7. Listed' = Listed
  BY <1>6 DEF Listed
<1>8. \A v \in Workers : /\ Ready(v)' = Ready(v) /\ Busy(v)' = Busy(v)
                         /\ Counting(v)' = Counting(v) /\ Held(v)' = Held(v)
  BY <1>1, <1>3 DEF Ready, Busy, Counting, Held
<1>9. NoneTwice'
  BY <1>1, <1>3, <1>4, <1>5 DEF GraphInv, NoneTwice
<1>10. Apart'
  <2>1. Queued' \cap Delayed' = {}
    BY <1>6 DEF GraphInv, Apart
  <2> QED BY <1>6, <1>7, <1>8, <2>1 DEF GraphInv, Apart
<1>11. AllReady' \subseteq AllReady
  BY <1>7, <1>8 DEF AllReady
<1>12. Stages' /\ Counts'
  BY <1>1, <1>8, <1>11, ReadyMoves DEF GraphInv
<1>13. Types'
  BY <1>1, <1>2, <1>3, <1>4 DEF Types
<1>14. Quiet'
  <2> SUFFICES ASSUME main' = "queue" PROVE Quiet'
    BY DEF Quiet
  <2>1. /\ queue = <<>> /\ delayed = <<>> /\ batch = <<>>
        /\ \A v \in Workers : pc[v] \in {"top", "wait", "blocked", "woken", "clear",
                                     "test", "exited"}
        /\ \A m \in Nodes : begun[m] = 0
    BY <1>1 DEF GraphInv, Quiet
  <2>2. queue' = <<>>
    BY <1>1, <2>1
  <2> QED BY <1>1, <1>3, <2>1, <2>2 DEF Quiet
<1>15. BatchQueued'
  BY <1>1 DEF BatchQueued
<1>16. Ends'
  BY <1>1 DEF GraphInv, Ends, Over
<1> QED BY <1>9, <1>10, <1>12, <1>13, <1>14, <1>15, <1>16 DEF GraphInv

(* The first tasks are queued: nothing is under way yet.                   *)
LEMMA PlayQueueKeeps == ASSUME GraphInv, PlayQueue PROVE GraphInv'
<1> DEFINE I == {i \in DOMAIN plan.tasks : waiting[Start(plan.tasks[i])] = 0}
           s == Starts(plan.tasks)
           X == In(Nodes, Kept(s, I))
<1>1. /\ main = "queue" /\ main' = "set"
      /\ queue' = queue \o Kept(s, I)
      /\ UNCHANGED <<plan, delayed, sched, batch, waiting, begun, ended, doneEvent,
                     fresh, task, pc>>
  BY DEF PlayQueue, Main, events
<1>2. Types /\ plan \in Plans
  BY DEF GraphInv, Types
<1>3. Nodes' = Nodes
  BY <1>1 DEF Nodes
<1>4. /\ queue = <<>> /\ delayed = <<>> /\ batch = <<>>
      /\ \A v \in Workers : pc[v] \in QuietPlaces
      /\ \A m \in Nodes : begun[m] = 0
  BY <1>1 DEF GraphInv, Quiet, QuietPlaces
<1>5. /\ s \in Seq(Nodes) /\ DOMAIN s = DOMAIN plan.tasks
      /\ \A i \in DOMAIN s : s[i] = Start(plan.tasks[i])
      /\ \A i, j \in DOMAIN s : s[i] = s[j] => i = j
  <2>1. /\ plan.tasks \in Seq(Tasks(plan))
        /\ \A i, j \in DOMAIN plan.tasks : plan.tasks[i] = plan.tasks[j] => i = j
    BY <1>2, PlanFacts
  <2>2. DOMAIN s = DOMAIN plan.tasks /\ \A i \in DOMAIN s : s[i] = Start(plan.tasks[i])
    BY DEF Starts
  <2>3. \A i \in DOMAIN plan.tasks : Start(plan.tasks[i]) \in Nodes
    BY NodeCases DEF Nodes, Tasks
  <2>4. s \in Seq(Nodes)
    BY <2>1, <2>3 DEF Starts
  <2>5. \A i, j \in DOMAIN s : s[i] = s[j] => i = j
    BY <2>1, <2>2, Same
  <2> QED BY <2>2, <2>4, <2>5
<1>6. OnceAt(Nodes, s, I)
  BY <1>5 DEF OnceAt
<1>7. \A i \in I : i \in DOMAIN s /\ waiting[s[i]] = 0
  BY <1>5
<1> HIDE DEF s, I
<1>8. /\ Kept(s, I) \in Seq(Nodes) /\ Once(Nodes, Kept(s, I))
      /\ \A m \in X : m \in Nodes /\ waiting[m] = 0
  <2>1. /\ Kept(s, I) \in Seq(Nodes) /\ X = Picked(s, I) \cap Nodes
        /\ Once(Nodes, Kept(s, I))
    BY <1>5, <1>6, InKept
  <2>2. \A m \in Picked(s, I) : waiting[m] = 0
    BY <1>7 DEF Picked
  <2> QED BY <2>1, <2>2
<1>9. queue' = Kept(s, I)
  BY <1>1, <1>4, <1>8
<1>10. queue' \in Seq(Everything(plan))
  BY <1>8, <1>9 DEF Everything, Nodes
<1>11. /\ Queued = {} /\ Delayed = {} /\ Batched = {}
       /\ Queued' = X /\ Delayed' = {} /\ Batched' = {}
  BY <1>1, <1>3, <1>4, <1>9, InEmpty DEF Queued, Delayed, Batched
<1> HIDE DEF X
<1>12. \A v \in Workers : Ready(v) = {} /\ Busy(v) = {} /\ Counting(v) = {} /\ Held(v) = {}
  BY <1>4 DEF Ready, Busy, Counting, Held, QuietPlaces
<1>13. \A v \in Workers : /\ Ready(v)' = Ready(v) /\ Busy(v)' = Busy(v)
                          /\ Counting(v)' = Counting(v) /\ Held(v)' = Held(v)
  BY <1>1, <1>3 DEF Ready, Busy, Counting, Held
<1>14. NoneTwice'
  BY <1>1, <1>3, <1>8, <1>9 DEF GraphInv, NoneTwice
<1>15. Apart'
  BY <1>11, <1>12, <1>13 DEF Apart, Listed
<1>16. \A m \in AllReady' : m \in X
  BY <1>11, <1>12, <1>13 DEF AllReady, Listed
<1>17. Stages'
  <2>1. \A m \in AllReady' : waiting'[m] = 0 /\ begun'[m] = 0
    BY <1>1, <1>4, <1>8, <1>16
  <2>2. \A v \in Workers : \A m \in Busy(v)' : begun'[m] = 1 /\ m \notin ended'
    BY <1>12, <1>13
  <2>3. \A v \in Workers : Counting(v)' \subseteq ended'
    BY <1>12, <1>13
  <2>4. \A m \in Nodes' : m \in ended' => begun'[m] = 1
    BY <1>1, <1>3 DEF GraphInv, Stages
  <2>5. \A m \in Nodes' : begun'[m] = 1 => waiting'[m] = 0
    BY <1>1, <1>3 DEF GraphInv, Stages
  <2> QED BY <2>1, <2>2, <2>3, <2>4, <2>5 DEF Stages
<1>18. Counts'
  <2>1. {Counting(v) : v \in Workers}' = {Counting(v) : v \in Workers}
    BY <1>13
  <2>2. Counted' = Counted
    BY <1>1, <1>3, <2>1 DEF Counted
  <2> QED BY <1>1, <1>3, <2>2 DEF GraphInv, Counts
<1>19. Types'
  BY <1>1, <1>2, <1>3, <1>10 DEF Types
<1>20. Quiet' /\ BatchQueued' /\ Ends'
  BY <1>1 DEF GraphInv, Quiet, BatchQueued, Ends, Over
<1> QED BY <1>14, <1>15, <1>17, <1>18, <1>19, <1>20 DEF GraphInv

LEMMA GraphInvNext == ASSUME GraphInv, [Next]_vars PROVE GraphInv'
<1>1. CASE UNCHANGED vars
  BY <1>1, StutterKeeps
<1>2. ASSUME NEW w \in Workers, Worker(w) PROVE GraphInv'
  BY <1>2, TopKeeps, WaitTaskKeeps, WakeKeeps, ClearKeeps, GetKeeps, DelayKeeps,
     TellKeeps, BeginKeeps, LoadKeeps, AlertKeeps, LoadedKeeps, FinishKeeps,
     CountdownKeeps, QueueFreshKeeps, SetFreshKeeps, CheckedKeeps DEF Worker
<1>3. ASSUME NEW w \in Workers, Raise(w) PROVE GraphInv'
  BY <1>3, RaiseKeeps
<1>4. CASE Scheduler \/ SchedTimeout
  BY <1>4, SchedTopKeeps, SchedWaitKeeps, SchedClearKeeps, SchedScanKeeps,
     SchedQueueKeeps, SchedSetKeeps, SchedTimeoutKeeps DEF Scheduler
<1>5. ASSUME NEW i \in DOMAIN delayed, Elapse(delayed[i]) PROVE GraphInv'
  BY <1>5, ElapseKeeps
<1>6. CASE MainThread
  BY <1>6, PlayQueueKeeps, PlaySetKeeps, PlayDoneKeeps, DeleteKeeps,
     DeleteWakesWorkersKeeps, DeleteWakesSchedulerKeeps DEF MainThread
<1> QED BY <1>1, <1>2, <1>3, <1>4, <1>5, <1>6 DEF Next

LEMMA GraphInvHolds == Spec => []GraphInv
<1>1. GraphInv /\ [Next]_vars => GraphInv'
  BY GraphInvNext
<1> QED BY GraphInvInit, <1>1, PTL DEF Spec

-----------------------------------------------------------------------------
(* The refinement of TaskGraph.                                            *)

LEMMA GraphIs ==
  ASSUME GraphInv
  PROVE  Graph!Nodes = Nodes
<1>1. plan \in Plans
  BY DEF GraphInv, Types
<1> QED BY <1>1, NodesOfEdges DEF Graph!Nodes, Edges, Nodes

LEMMA GraphInit == ASSUME Init PROVE Graph!Init
<1>1. GraphInv
  BY GraphInvInit
<1>2. Graph!Nodes = GraphNodes(plan)
  BY <1>1, GraphIs DEF Nodes
<1>3. /\ begun = [n \in GraphNodes(plan) |-> 0] /\ ended = {} /\ main = "queue"
  BY DEF Init
<1> QED BY <1>2, <1>3 DEF Graph!Init

(* What a node waits for has ended when its "waiting" is nothing.          *)
LEMMA SourcesEnded ==
  ASSUME GraphInv, NEW n \in Nodes, waiting[n] = 0
  PROVE  \A l \in Links(plan, n) : l[1] \in ended
<1>1. plan \in Plans /\ Cardinality(OpenLinks(plan, n, Counted)) = 0
  BY DEF GraphInv, Types, Counts
<1>2. \A l \in Links(plan, n) : l[1] \in Counted
  BY <1>1, OpenFinite DEF Nodes
<1> QED BY <1>2 DEF Counted

LEMMA BeginMaps ==
  ASSUME GraphInv, NEW w \in Workers, Begin(w), task[w] \in Nodes
  PROVE  Graph!Begin(task[w])
<1> DEFINE n == task[w]
<1>1. /\ pc[w] = "begin"
      /\ begun' = [m \in DOMAIN begun |-> begun[m] + IF m = n THEN 1 ELSE 0]
      /\ UNCHANGED <<plan, main, ended>>
  BY DEF Begin, At
<1>2. plan \in Plans /\ begun \in [Nodes -> {0, 1}]
  BY DEF GraphInv, Types
<1>3. n \in AllReady
  BY <1>1 DEF AllReady, Ready
<1>4. begun[n] = 0 /\ waiting[n] = 0
  BY <1>3 DEF GraphInv, Stages
<1>5. \A e \in Edges(plan) : e[2] = n => e[1] \in ended \cap Nodes
  BY <1>2, <1>4, EdgeIs, SourcesEnded DEF Nodes
<1>6. begun' = [begun EXCEPT ![n] = 1]
  <2> HIDE DEF n
  <2>1. \A m \in Nodes : begun[m] + (IF m = n THEN 1 ELSE 0)
                          = IF m = n THEN 1 ELSE begun[m]
    BY <1>2, <1>4
  <2> QED BY <1>1, <1>2, <2>1
<1> HIDE DEF n
<1>7. Graph!Begin(n)
  BY <1>1, <1>4, <1>5, <1>6 DEF Graph!Begin, Edges, Nodes
<1> QED BY <1>7 DEF n

LEMMA EndMaps ==
  ASSUME GraphInv, NEW w \in Workers, Finish(w), task[w] \in Nodes
  PROVE  Graph!End(task[w])
<1> DEFINE n == task[w]
<1>1. /\ pc[w] = "running" /\ ended' = ended \cup {n}
      /\ UNCHANGED <<plan, main, begun>>
  BY DEF Finish, At
<1>2. n \in Busy(w)
  BY <1>1 DEF Busy
<1>3. begun[n] = 1 /\ n \notin ended
  BY <1>2 DEF GraphInv, Stages
<1>4. ended' \cap Nodes = (ended \cap Nodes) \cup {n}
  BY <1>1
<1> HIDE DEF n
<1>5. Graph!End(n)
  BY <1>1, <1>3, <1>4 DEF Graph!End, Nodes
<1> QED BY <1>5 DEF n

(* When the event says that the last task is done, all of them are.        *)
LEMMA AllEnded ==
  ASSUME GraphInv, doneEvent
  PROVE  Nodes \subseteq ended
<1>1. plan \in Plans /\ Done \in ended
  BY DEF GraphInv, Types, Ends
<1>2. \A n \in GraphNodes(plan) \cap ended : \A l \in Links(plan, n) : l[1] \in ended
  BY SourcesEnded DEF GraphInv, Stages, Nodes
<1> QED BY <1>1, <1>2, AllBeforeDone DEF Nodes

LEMMA DoneMaps == ASSUME GraphInv, PlayDone PROVE Graph!GoOn
<1>1. /\ doneEvent /\ main' = "delete" /\ UNCHANGED <<plan, begun, ended>>
  BY DEF PlayDone, Main, work
<1>2. ended \cap GraphNodes(plan) = Graph!Nodes
  BY <1>1, AllEnded, GraphIs DEF Nodes
<1> QED BY <1>1, <1>2 DEF Graph!GoOn

(* All other steps leave what the graph says as it is.                     *)
LEMMA StepMaps ==
  ASSUME GraphInv, [Next]_vars
  PROVE  [Graph!Next]_(Graph!vars)
<1> DEFINE Still == UNCHANGED Graph!vars
<1>0. ASSUME UNCHANGED <<plan, begun>>, Over' = Over,
             ended' \cap GraphNodes(plan) = ended \cap GraphNodes(plan)
      PROVE  Still
  BY <1>0 DEF Graph!vars, Over
<1>1. CASE UNCHANGED vars
  BY <1>0, <1>1 DEF vars, Over
<1>2. ASSUME NEW w \in Workers, Worker(w) \/ Raise(w) PROVE [Graph!Next]_(Graph!vars)
  <2>1. CASE Begin(w) /\ task[w] \in Nodes
    BY <2>1, BeginMaps, GraphIs DEF Graph!Next
  <2>2. CASE Finish(w) /\ task[w] \in Nodes
    BY <2>2, EndMaps, GraphIs DEF Graph!Next
  <2>3. CASE Begin(w) /\ task[w] \notin Nodes
    <3>1. /\ DOMAIN begun = Nodes /\ \A m \in Nodes : begun[m] \in {0, 1}
          /\ begun = [m \in DOMAIN begun |-> begun[m]]
      BY DEF GraphInv, Types
    <3>2. /\ begun' = [m \in DOMAIN begun |-> begun[m] + IF m = task[w] THEN 1 ELSE 0]
          /\ UNCHANGED <<plan, main, ended>>
      BY <2>3 DEF Begin, At
    <3>3. \A m \in Nodes : begun[m] + (IF m = task[w] THEN 1 ELSE 0) = begun[m]
      BY <2>3, <3>1
    <3>4. begun' = begun
      BY <3>1, <3>2, <3>3
    <3> QED BY <1>0, <3>2, <3>4 DEF Over
  <2>4. CASE Finish(w) /\ task[w] \notin Nodes
    BY <1>0, <2>4 DEF Finish, At, Over, Nodes
  <2>5. CASE ~Begin(w) /\ ~Finish(w)
    BY <1>0, <1>2, <2>5 DEF Worker, Top, WaitTask, Wake, Clear, Get, Delay, TellScheduler,
       Load, AlertLoad, Loaded, Countdown, QueueFresh, SetFresh, Checked,
       Raise, At, work, Over
  <2> QED BY <2>1, <2>2, <2>3, <2>4, <2>5
<1>3. CASE Scheduler \/ SchedTimeout
  BY <1>0, <1>3 DEF Scheduler, SchedTop, SchedWait, SchedClear, SchedScan,
     SchedQueue, SchedSet, SchedTimeout, Sched, work, Over
<1>4. ASSUME NEW i \in DOMAIN delayed, Elapse(delayed[i]) PROVE Still
  BY <1>0, <1>4 DEF Elapse, Over
<1>5. CASE PlayDone
  BY <1>5, DoneMaps DEF Graph!Next
<1>6. CASE MainThread /\ ~PlayDone
  BY <1>0, <1>6 DEF MainThread, PlayQueue, PlaySet, Delete, DeleteWakesWorkers,
     DeleteWakesScheduler, Main, work, Over
<1> QED BY <1>1, <1>2, <1>3, <1>4, <1>5, <1>6 DEF Next

(* ImplementsTaskGraph: for every plan whose names are distinct and any     *)
(* number of workers, a node is begun once and after everything it waits    *)
(* for has ended, and play_in_action goes on after the last one: the        *)
(* threads' steps are TaskGraph's steps or change nothing of it.            *)
THEOREM RunsTheGraph == Spec => ImplementsTaskGraph
<1>1. Init => Graph!Init
  BY GraphInit
<1>2. GraphInv /\ [Next]_vars => [Graph!Next]_(Graph!vars)
  BY StepMaps
<1> QED BY GraphInvHolds, <1>1, <1>2, PTL DEF Spec, ImplementsTaskGraph, Graph!Spec
=============================================================================
