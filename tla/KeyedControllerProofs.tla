------------------------ MODULE KeyedControllerProofs ------------------------
(***************************************************************************)
(* For any sets of keys, payloads, producers and workers, and any mergeFn:  *)
(* the keyed controller serializes each key, never strands a payload, and   *)
(* implements the mailboxes of module Mailbox.                              *)
(***************************************************************************)
EXTENDS KeyedController, TLAPS

USE DEF WorkerState

-----------------------------------------------------------------------------
(* Sequences.                                                               *)

\* Adding a key at the end of the queue moves no other key.
LEMMA QueueAppend ==
    ASSUME NEW q \in Seq(Keys), NEW k \in Keys
    PROVE  /\ Len(q) \in Nat
           /\ DOMAIN q = 1 .. Len(q)
           /\ DOMAIN Append(q, k) = 1 .. Len(q) + 1
           /\ \A i \in DOMAIN q : Append(q, k)[i] = q[i]
           /\ Append(q, k)[Len(q) + 1] = k
OBVIOUS

\* Taking the first key of the queue shifts the others by one.
LEMMA QueueTail ==
    ASSUME NEW q \in Seq(Keys), q # <<>>
    PROVE  /\ Len(q) \in Nat \ {0}
           /\ DOMAIN q = 1 .. Len(q)
           /\ DOMAIN Tail(q) = 1 .. Len(q) - 1
           /\ \A i \in DOMAIN Tail(q) : Tail(q)[i] = q[i + 1]
           /\ Head(q) = q[1]
           /\ Head(q) \in Keys
OBVIOUS

\* A key that becomes dirty and unheld is appended: the queue gains just that
\* key, and only once.
LEMMA AppendStep ==
    ASSUME TypeOK, QueueInv, NEW k \in Keys,
           queue' = Append(queue, k),
           k \notin dirty \ processing,
           dirty' \ processing' = (dirty \ processing) \cup {k}
    PROVE  QueueInv'
<1>1. /\ Len(queue) \in Nat
      /\ DOMAIN queue = 1 .. Len(queue)
      /\ DOMAIN queue' = 1 .. Len(queue) + 1
      /\ \A i \in DOMAIN queue : queue'[i] = queue[i]
      /\ queue'[Len(queue) + 1] = k
  BY QueueAppend DEF TypeOK
<1>2. \A i \in DOMAIN queue : queue[i] \in dirty \ processing /\ queue[i] # k
  BY DEF QueueInv
<1>3. \A i \in DOMAIN queue' : i \in DOMAIN queue \/ i = Len(queue) + 1
  BY <1>1
<1>4. \A i, j \in DOMAIN queue' : queue'[i] = queue'[j] => i = j
  BY <1>1, <1>2, <1>3 DEF QueueInv
<1>5. \A i \in DOMAIN queue' : queue'[i] \in dirty' \ processing'
  BY <1>1, <1>2, <1>3
<1>6. \A x \in dirty' \ processing' : \E i \in DOMAIN queue' : queue'[i] = x
  <2> SUFFICES ASSUME NEW x \in dirty' \ processing'
               PROVE  \E i \in DOMAIN queue' : queue'[i] = x
    OBVIOUS
  <2>1. CASE x = k
    <3>1. Len(queue) + 1 \in DOMAIN queue'
      BY <1>1
    <3> QED BY <1>1, <2>1, <3>1
  <2>2. CASE x \in dirty \ processing
    <3>1. PICK i \in DOMAIN queue : queue[i] = x
      BY <2>2 DEF QueueInv
    <3>2. i \in DOMAIN queue' /\ queue'[i] = x
      BY <1>1, <3>1
    <3> QED BY <3>2
  <2> QED BY <2>1, <2>2
<1> QED
  BY <1>4, <1>5, <1>6 DEF QueueInv

-----------------------------------------------------------------------------
(* One lemma per group of conjuncts of IInv, one step per action.           *)

\* Types and the workers' control state depend on nothing else: a worker past
\* queue.Get has a key, and only a worker inside handler.Do has a message.
LEMMA TypeStep ==
    ASSUME TypeOK, ControlInv, [Next]_vars
    PROVE  TypeOK' /\ ControlInv'
<1> USE KeyedControllerAssumption DEF TypeOK, ControlInv
<1>1. ASSUME NEW k \in Keys, TimerFires(k)
      PROVE  TypeOK' /\ ControlInv'
  BY <1>1 DEF TimerFires, QueueAdd
<1>2. ASSUME NEW p \in Producers, NEW k \in Keys, NEW m \in Payloads, Stage(p, k, m)
      PROVE  TypeOK' /\ ControlInv'
  <2>1. Post(pending[k], m) \in Payloads
    BY DEF Post
  <2> QED BY <1>2, <2>1 DEF Stage
<1>3. ASSUME NEW p \in Producers, Enqueue(p)
      PROVE  TypeOK' /\ ControlInv'
  BY <1>3 DEF Enqueue, QueueAdd
<1>4. ASSUME NEW p \in Producers, EnqueueAfter(p)
      PROVE  TypeOK' /\ ControlInv'
  BY <1>4 DEF EnqueueAfter
<1>5. ASSUME NEW w \in Workers, Get(w)
      PROVE  TypeOK' /\ ControlInv'
  BY <1>5 DEF Get
<1>6. ASSUME NEW w \in Workers, Take(w)
      PROVE  TypeOK' /\ ControlInv'
  BY <1>6 DEF Take
<1>7. ASSUME NEW w \in Workers, DoSucceeds(w)
      PROVE  TypeOK' /\ ControlInv'
  BY <1>7 DEF DoSucceeds
<1>8. ASSUME NEW w \in Workers, Restage(w)
      PROVE  TypeOK' /\ ControlInv'
  BY <1>8 DEF Restage
<1>9. ASSUME NEW w \in Workers, Requeue(w)
      PROVE  TypeOK' /\ ControlInv'
  BY <1>9 DEF Requeue
<1>10. ASSUME NEW w \in Workers, Done(w)
      PROVE  TypeOK' /\ ControlInv'
  BY <1>10 DEF Done, QueueDone
<1>11. CASE UNCHANGED vars
  BY <1>11 DEF vars
<1> QED
  BY <1>1, <1>2, <1>3, <1>4, <1>5, <1>6, <1>7, <1>8, <1>9, <1>10, <1>11 DEF Next, Produce, Work

\* queue.Get only hands out a key that nobody holds, because queued keys are
\* never marked as processing and no key is queued twice.
LEMMA HoldStep ==
    ASSUME TypeOK, ControlInv, QueueInv, HoldInv, OneWorkerPerKey, [Next]_vars
    PROVE  HoldInv' /\ OneWorkerPerKey'
<1> USE KeyedControllerAssumption DEF TypeOK, ControlInv, HoldInv, OneWorkerPerKey
<1>1. ASSUME NEW k \in Keys, TimerFires(k)
      PROVE  HoldInv' /\ OneWorkerPerKey'
  BY <1>1 DEF TimerFires, QueueAdd
<1>2. ASSUME NEW p \in Producers, NEW k \in Keys, NEW m \in Payloads, Stage(p, k, m)
      PROVE  HoldInv' /\ OneWorkerPerKey'
  BY <1>2 DEF Stage
<1>3. ASSUME NEW p \in Producers, Enqueue(p)
      PROVE  HoldInv' /\ OneWorkerPerKey'
  BY <1>3 DEF Enqueue, QueueAdd
<1>4. ASSUME NEW p \in Producers, EnqueueAfter(p)
      PROVE  HoldInv' /\ OneWorkerPerKey'
  BY <1>4 DEF EnqueueAfter
<1>5. ASSUME NEW w \in Workers, Get(w)
      PROVE  HoldInv' /\ OneWorkerPerKey'
  <2>1. Head(queue) \in Keys /\ Head(queue) \notin processing
    BY <1>5, QueueTail DEF Get, QueueInv
  <2> QED BY <1>5, <2>1 DEF Get
<1>6. ASSUME NEW w \in Workers, Take(w)
      PROVE  HoldInv' /\ OneWorkerPerKey'
  BY <1>6 DEF Take
<1>7. ASSUME NEW w \in Workers, DoSucceeds(w)
      PROVE  HoldInv' /\ OneWorkerPerKey'
  BY <1>7 DEF DoSucceeds
<1>8. ASSUME NEW w \in Workers, Restage(w)
      PROVE  HoldInv' /\ OneWorkerPerKey'
  BY <1>8 DEF Restage
<1>9. ASSUME NEW w \in Workers, Requeue(w)
      PROVE  HoldInv' /\ OneWorkerPerKey'
  BY <1>9 DEF Requeue
<1>10. ASSUME NEW w \in Workers, Done(w)
      PROVE  HoldInv' /\ OneWorkerPerKey'
  BY <1>10 DEF Done, QueueDone
<1>11. CASE UNCHANGED vars
  BY <1>11 DEF vars
<1> QED
  BY <1>1, <1>2, <1>3, <1>4, <1>5, <1>6, <1>7, <1>8, <1>9, <1>10, <1>11 DEF Next, Produce, Work

\* The queue keeps exactly the dirty keys that no worker holds, once each.
LEMMA QueueStep ==
    ASSUME TypeOK, ControlInv, QueueInv, HoldInv, OneWorkerPerKey, [Next]_vars
    PROVE  QueueInv'
<1> USE KeyedControllerAssumption DEF TypeOK, ControlInv, QueueInv, HoldInv
<1>1. ASSUME NEW k \in Keys, TimerFires(k)
      PROVE  QueueInv'
  <2>1. CASE queue' = queue
    BY <1>1, <2>1 DEF TimerFires, QueueAdd
  <2>2. CASE queue' = Append(queue, k) /\ k \notin dirty \cup processing
    BY <1>1, <2>2, AppendStep DEF TimerFires, QueueAdd
  <2> QED BY <1>1, <2>1, <2>2 DEF TimerFires, QueueAdd
<1>2. ASSUME NEW p \in Producers, NEW k \in Keys, NEW m \in Payloads, Stage(p, k, m)
      PROVE  QueueInv'
  BY <1>2 DEF Stage
<1>3. ASSUME NEW p \in Producers, Enqueue(p)
      PROVE  QueueInv'
  <2>1. CASE queue' = queue
    BY <1>3, <2>1 DEF Enqueue, QueueAdd
  <2>2. CASE queue' = Append(queue, staged[p]) /\ staged[p] \notin dirty \cup processing
    BY <1>3, <2>2, AppendStep DEF Enqueue, QueueAdd
  <2> QED BY <1>3, <2>1, <2>2 DEF Enqueue, QueueAdd
<1>4. ASSUME NEW p \in Producers, EnqueueAfter(p)
      PROVE  QueueInv'
  BY <1>4 DEF EnqueueAfter
<1>5. ASSUME NEW w \in Workers, Get(w)
      PROVE  QueueInv'
  <2>1. /\ DOMAIN queue' = 1 .. Len(queue) - 1
        /\ \A i \in DOMAIN queue' : queue'[i] = queue[i + 1]
        /\ DOMAIN queue = 1 .. Len(queue) /\ Len(queue) \in Nat \ {0}
        /\ Head(queue) = queue[1]
    BY <1>5, QueueTail DEF Get
  <2>2. dirty' = dirty \ {queue[1]} /\ processing' = processing \cup {queue[1]}
    BY <1>5, <2>1 DEF Get
  <2>3. \A i, j \in DOMAIN queue' : queue'[i] = queue'[j] => i = j
    BY <2>1
  <2>4. \A i \in DOMAIN queue' : queue'[i] \in dirty' /\ queue'[i] \notin processing'
    BY <2>1, <2>2
  <2>5. ASSUME NEW k \in dirty' \ processing'
        PROVE  \E i \in DOMAIN queue' : queue'[i] = k
    <3>1. PICK i \in DOMAIN queue : queue[i] = k
      BY <2>2
    <3>2. i # 1 /\ i - 1 \in DOMAIN queue' /\ queue'[i - 1] = k
      BY <2>1, <2>2, <3>1
    <3> QED BY <3>2
  <2> QED BY <2>3, <2>4, <2>5
<1>6. ASSUME NEW w \in Workers, Take(w)
      PROVE  QueueInv'
  BY <1>6 DEF Take
<1>7. ASSUME NEW w \in Workers, DoSucceeds(w)
      PROVE  QueueInv'
  BY <1>7 DEF DoSucceeds
<1>8. ASSUME NEW w \in Workers, Restage(w)
      PROVE  QueueInv'
  BY <1>8 DEF Restage
<1>9. ASSUME NEW w \in Workers, Requeue(w)
      PROVE  QueueInv'
  BY <1>9 DEF Requeue
<1>10. ASSUME NEW w \in Workers, Done(w)
      PROVE  QueueInv'
  <2>1. CASE queue' = queue
    BY <1>10, <2>1 DEF Done, QueueDone
  <2>2. CASE queue' = Append(queue, wkey[w]) /\ wkey[w] \in dirty
    BY <1>10, <2>2, AppendStep DEF Done, QueueDone
  <2> QED BY <1>10, <2>1, <2>2 DEF Done, QueueDone
<1>11. CASE UNCHANGED vars
  BY <1>11 DEF vars
<1> QED
  BY <1>1, <1>2, <1>3, <1>4, <1>5, <1>6, <1>7, <1>8, <1>9, <1>10, <1>11 DEF Next, Produce, Work

\* A payload stays covered: what removes a key from one stage of the queue puts
\* it into the next one, and only take empties pending.
LEMMA StrandedStep ==
    ASSUME TypeOK, ControlInv, NoStrandedPayload, OneWorkerPerKey, [Next]_vars
    PROVE  NoStrandedPayload'
<1> USE KeyedControllerAssumption DEF TypeOK, ControlInv, NoStrandedPayload
<1>1. ASSUME NEW k \in Keys, TimerFires(k)
      PROVE  NoStrandedPayload'
  BY <1>1 DEF TimerFires, QueueAdd
<1>2. ASSUME NEW p \in Producers, NEW k \in Keys, NEW m \in Payloads, Stage(p, k, m)
      PROVE  NoStrandedPayload'
  BY <1>2 DEF Stage
<1>3. ASSUME NEW p \in Producers, Enqueue(p)
      PROVE  NoStrandedPayload'
  BY <1>3 DEF Enqueue, QueueAdd
<1>4. ASSUME NEW p \in Producers, EnqueueAfter(p)
      PROVE  NoStrandedPayload'
  BY <1>4 DEF EnqueueAfter
<1>5. ASSUME NEW w \in Workers, Get(w)
      PROVE  NoStrandedPayload'
  BY <1>5 DEF Get
<1>6. ASSUME NEW w \in Workers, Take(w)
      PROVE  NoStrandedPayload'
  BY <1>6 DEF Take
<1>7. ASSUME NEW w \in Workers, DoSucceeds(w)
      PROVE  NoStrandedPayload'
  BY <1>7 DEF DoSucceeds
<1>8. ASSUME NEW w \in Workers, Restage(w)
      PROVE  NoStrandedPayload'
  BY <1>8 DEF Restage
<1>9. ASSUME NEW w \in Workers, Requeue(w)
      PROVE  NoStrandedPayload'
  BY <1>9 DEF Requeue
<1>10. ASSUME NEW w \in Workers, Done(w)
      PROVE  NoStrandedPayload'
  BY <1>10 DEF Done, QueueDone
<1>11. CASE UNCHANGED vars
  BY <1>11 DEF vars
<1> QED
  BY <1>1, <1>2, <1>3, <1>4, <1>5, <1>6, <1>7, <1>8, <1>9, <1>10, <1>11 DEF Next, Produce, Work

-----------------------------------------------------------------------------
(* The invariants.                                                          *)

\* The strengthened invariant is inductive.
LEMMA Inductive == Spec => []IInv
<1>1. Init => IInv
  BY KeyedControllerAssumption
  DEF Init, IInv, TypeOK, ControlInv, QueueInv, HoldInv, OneWorkerPerKey, NoStrandedPayload
<1>2. IInv /\ [Next]_vars => IInv'
  BY TypeStep, HoldStep, QueueStep, StrandedStep DEF IInv
<1> QED
  BY <1>1, <1>2, PTL DEF Spec

\* Every variable keeps its type, whatever mergeFn and the handlers do.
THEOREM TypeCorrect == Spec => []TypeOK
<1>1. IInv => TypeOK
  BY DEF IInv
<1> QED
  BY <1>1, Inductive, PTL

\* Per-object serialization of processNext: no two workers ever hold one key.
THEOREM Serialization == Spec => []OneWorkerPerKey
<1>1. IInv => OneWorkerPerKey
  BY DEF IInv
<1> QED
  BY <1>1, Inductive, PTL

\* The two-step Add (stage, then queue.Add) and the two-step retry (restage,
\* then AddRateLimited) never leave a payload that no key in the work queue
\* will bring a worker to.
THEOREM NoPayloadStranded == Spec => []NoStrandedPayload
<1>1. IInv => NoStrandedPayload
  BY DEF IInv
<1> QED
  BY <1>1, Inductive, PTL

-----------------------------------------------------------------------------
(* Refinement.                                                              *)

\* The message in the handler for a key is the one its only worker took.
LEMMA HandledByWorker ==
    ASSUME NEW key, NEW msg, NEW w \in Workers, msg[w] # None,
           \A v \in Workers : v # w => key[v] # key[w]
    PROVE  HandledIn(key, msg, key[w]) = msg[w]
BY DEF HandledIn

\* Nothing is in the handler for a key of which no worker took a message.
LEMMA HandledByNobody ==
    ASSUME NEW key, NEW msg, NEW k, \A w \in Workers : key[w] = k => msg[w] = None
    PROVE  HandledIn(key, msg, k) = None
BY DEF HandledIn

\* A worker that has no message before and after a step can change its key
\* without anybody noticing.
LEMMA HandledFrame ==
    ASSUME IInv, IInv', wmsg' = wmsg,
           \A w \in Workers : wmsg[w] # None => wkey'[w] = wkey[w]
    PROVE  [k \in Keys |-> Handled(k)'] = [k \in Keys |-> Handled(k)]
<1> SUFFICES ASSUME NEW k \in Keys
             PROVE  HandledIn(wkey', wmsg', k) = HandledIn(wkey, wmsg, k)
  BY DEF Handled
<1>1. CASE \E w \in Workers : wkey[w] = k /\ wmsg[w] # None
  <2>1. PICK w \in Workers : wkey[w] = k /\ wmsg[w] # None
    BY <1>1
  <2>2. wkey'[w] = k /\ wmsg'[w] = wmsg[w]
    BY <2>1
  <2>3. k # None
    BY KeyedControllerAssumption
  <2>4. HandledIn(wkey, wmsg, k) = wmsg[w]
    BY <2>1, <2>3, HandledByWorker DEF IInv, OneWorkerPerKey
  <2>5. HandledIn(wkey', wmsg', k) = wmsg[w]
    BY <2>1, <2>2, <2>3, HandledByWorker DEF IInv, OneWorkerPerKey
  <2> QED BY <2>4, <2>5
<1>2. CASE \A w \in Workers : wkey[w] = k => wmsg[w] = None
  <2>1. \A w \in Workers : wkey'[w] = k => wmsg'[w] = None
    BY <1>2
  <2> QED BY <1>2, <2>1, HandledByNobody
<1> QED
  BY <1>1, <1>2

\* A step that changes the message of one worker w, and no key, changes what is
\* in the handler for w's key only.
LEMMA HandledUpdate ==
    ASSUME IInv, wkey' = wkey, NEW w \in Workers, wkey[w] # None,
           NEW m \in Payloads \cup {None},
           wmsg' = [wmsg EXCEPT ![w] = m]
    PROVE  /\ Handled(wkey[w]) = wmsg[w]
           /\ [k \in Keys |-> Handled(k)'] =
                 [[k \in Keys |-> Handled(k)] EXCEPT ![wkey[w]] = m]
<1>0. /\ wmsg \in [Workers -> Payloads \cup {None}]
      /\ wkey[w] \in Keys
      /\ \A u, v \in Workers : u # v /\ wkey[u] # None => wkey[u] # wkey[v]
  BY DEF IInv, TypeOK, OneWorkerPerKey
<1>1. ASSUME NEW msg
      PROVE  HandledIn(wkey, msg, wkey[w]) = msg[w]
  <2>1. CASE msg[w] # None
    BY <1>0, <2>1, HandledByWorker
  <2>2. CASE msg[w] = None
    <3>1. \A v \in Workers : wkey[v] = wkey[w] => msg[v] = None
      BY <1>0, <2>2
    <3> QED BY <2>2, <3>1, HandledByNobody
  <2> QED BY <2>1, <2>2
<1>2. HandledIn(wkey, wmsg, wkey[w]) = wmsg[w]
  BY <1>1
<1>3. HandledIn(wkey', wmsg', wkey[w]) = m
  <2>1. HandledIn(wkey, wmsg', wkey[w]) = wmsg'[w]
    BY <1>1
  <2>2. wmsg'[w] = m
    BY <1>0
  <2> QED BY <2>1, <2>2
<1>4. ASSUME NEW k \in Keys, k # wkey[w]
      PROVE  HandledIn(wkey', wmsg', k) = HandledIn(wkey, wmsg, k)
  <2>1. CASE \E v \in Workers : wkey[v] = k /\ wmsg[v] # None
    <3>1. PICK v \in Workers : wkey[v] = k /\ wmsg[v] # None
      BY <2>1
    <3>2. v # w /\ wmsg'[v] = wmsg[v] /\ k # None
      BY <1>0, <1>4, <3>1, KeyedControllerAssumption
    <3>3. \A u \in Workers : u # v => wkey[u] # wkey[v]
      BY <1>0, <3>1, <3>2
    <3>4. HandledIn(wkey, wmsg, wkey[v]) = wmsg[v]
      BY <3>1, <3>3, HandledByWorker
    <3>5. HandledIn(wkey, wmsg', wkey[v]) = wmsg'[v]
      <4>1. wmsg'[v] # None
        BY <3>1, <3>2
      <4> HIDE <3>1, <3>2
      <4> QED BY <4>1, <3>3, HandledByWorker, ZenonT(30)
    <3> QED BY <3>1, <3>2, <3>4, <3>5
  <2>2. CASE \A v \in Workers : wkey[v] = k => wmsg[v] = None
    <3>1. \A v \in Workers : wkey'[v] = k => wmsg'[v] = None
      BY <1>0, <1>4, <2>2
    <3>2. HandledIn(wkey, wmsg, k) = None
      BY <2>2, HandledByNobody
    <3>3. HandledIn(wkey', wmsg', k) = None
      BY <3>1, HandledByNobody
    <3> QED BY <3>2, <3>3
  <2> QED BY <2>1, <2>2
<1> QED
  BY <1>0, <1>2, <1>3, <1>4 DEF Handled

\* Steps that neither stage, take, finish nor restage are invisible.
LEMMA Invisible ==
    ASSUME IInv, IInv', pending' = pending, wmsg' = wmsg,
           \A w \in Workers : wmsg[w] # None => wkey'[w] = wkey[w]
    PROVE  UNCHANGED M!vars
BY HandledFrame DEF M!vars

\* Each step of the controller is a step of the mailboxes or invisible.
LEMMA RefinementStep ==
    ASSUME IInv, IInv', [Next]_vars
    PROVE  [M!Next]_(M!vars)
<1> USE DEF IInv, TypeOK, ControlInv
<1>1. ASSUME NEW k \in Keys, TimerFires(k)
      PROVE  UNCHANGED M!vars
  BY <1>1, Invisible DEF TimerFires
<1>2. ASSUME NEW p \in Producers, NEW k \in Keys, NEW m \in Payloads, Stage(p, k, m)
      PROVE  M!Submit(k, m)
  <2>1. [x \in Keys |-> Handled(x)'] = [x \in Keys |-> Handled(x)]
    BY <1>2, HandledFrame DEF Stage
  <2> QED BY <1>2, <2>1 DEF Stage, Post, M!Submit, M!Post
<1>3. ASSUME NEW p \in Producers, Enqueue(p) \/ EnqueueAfter(p)
      PROVE  UNCHANGED M!vars
  BY <1>3, Invisible DEF Enqueue, EnqueueAfter
<1>4. ASSUME NEW w \in Workers, Get(w)
      PROVE  UNCHANGED M!vars
  BY <1>4, Invisible DEF Get
<1>5. ASSUME NEW w \in Workers, Take(w)
      PROVE  M!Deliver(wkey[w]) \/ UNCHANGED M!vars
  <2>1. wkey[w] \in Keys /\ wkey[w] # None /\ wmsg[w] = None
    BY <1>5 DEF Take
  <2>2. CASE pending[wkey[w]] = None
    <3>1. wmsg' = wmsg /\ pending' = pending /\ wkey' = wkey
      BY <1>5, <2>1, <2>2 DEF Take
    <3> QED BY <3>1, Invisible
  <2>3. CASE pending[wkey[w]] # None
    <3>1. /\ Handled(wkey[w]) = None
          /\ [k \in Keys |-> Handled(k)'] =
               [[k \in Keys |-> Handled(k)] EXCEPT ![wkey[w]] = pending[wkey[w]]]
      BY <1>5, <2>1, HandledUpdate DEF Take
    <3> QED BY <1>5, <2>1, <2>3, <3>1 DEF Take, M!Deliver
  <2> QED BY <2>2, <2>3
<1>6. ASSUME NEW w \in Workers, DoSucceeds(w)
      PROVE  M!Finish(wkey[w])
  <2>1. wkey[w] \in Keys /\ wkey[w] # None /\ wmsg[w] # None
    BY <1>6 DEF DoSucceeds
  <2>2. /\ Handled(wkey[w]) = wmsg[w]
        /\ [k \in Keys |-> Handled(k)'] =
               [[k \in Keys |-> Handled(k)] EXCEPT ![wkey[w]] = None]
    BY <1>6, <2>1, HandledUpdate DEF DoSucceeds
  <2> QED BY <1>6, <2>1, <2>2 DEF DoSucceeds, M!Finish
<1>7. ASSUME NEW w \in Workers, Restage(w)
      PROVE  M!Retry(wkey[w])
  <2>1. wkey[w] \in Keys /\ wkey[w] # None /\ wmsg[w] # None
    BY <1>7 DEF Restage
  <2>2. /\ Handled(wkey[w]) = wmsg[w]
        /\ [k \in Keys |-> Handled(k)'] =
               [[k \in Keys |-> Handled(k)] EXCEPT ![wkey[w]] = None]
    BY <1>7, <2>1, HandledUpdate DEF Restage
  <2> QED BY <1>7, <2>1, <2>2 DEF Restage, M!Retry
<1>8. ASSUME NEW w \in Workers, Requeue(w) \/ Done(w)
      PROVE  UNCHANGED M!vars
  BY <1>8, Invisible DEF Requeue, Done
<1>9. CASE UNCHANGED vars
  BY <1>9, Invisible DEF vars
<1>10. ASSUME NEW w \in Workers, wkey[w] # None
       PROVE  wkey[w] \in Keys
  BY <1>10
<1> QED
  BY <1>1, <1>2, <1>3, <1>4, <1>5, <1>6, <1>7, <1>8, <1>9, <1>10
  DEF Next, Produce, Work, M!Next, Take, DoSucceeds, Restage

\* Users of the keyed controller may think of it as module Mailbox: the
\* payload map, the work queue and the worker loops together behave as one
\* coalescing mailbox per key with a serialized handler.
THEOREM Refinement == Spec => ImplementsMailbox
<1>1. Init => M!Init
  <2>1. ASSUME Init, NEW k \in Keys PROVE HandledIn(wkey, wmsg, k) = None
    BY <2>1, HandledByNobody DEF Init
  <2> QED BY <2>1 DEF Init, M!Init, Handled
<1>2. IInv /\ IInv' /\ [Next]_vars => [M!Next]_(M!vars)
  BY RefinementStep
<1> QED
  BY <1>1, <1>2, Inductive, PTL DEF Spec, ImplementsMailbox, M!Spec

=============================================================================
