--------------------------- MODULE KeyedController ---------------------------
(***************************************************************************)
(* common/pkg/controller/keyed_controller.go: a work queue of keys next to  *)
(* a side map `pending` with the latest payload of each key.  Every step    *)
(* below is one critical section of the code: `mu` protects the map, the    *)
(* work queue has its own lock, and nothing protects the two together.      *)
(*                                                                         *)
(* The work queue itself (k8s.io/client-go/util/workqueue) is external: its *)
(* sets `dirty` and `processing`, its FIFO `queue`, and the heap of delayed *)
(* keys, of which only membership matters (`waiting`), are modelled from    *)
(* how the controller relies on them.                                       *)
(***************************************************************************)
EXTENDS Naturals, Sequences, FiniteSets

CONSTANTS
    Keys,            \* results of keyFn
    Payloads,        \* message contents, apart from the key
    None,            \* absence of a message or of a key
    Merge(_, _),     \* mergeFn(existing, true, incoming)
    Rewrites(_),     \* what handler.Do may turn the message it got into
    Producers,       \* goroutines that call Add or AddAfter
    Workers          \* the MaxConcurrent loops of Run

ASSUME KeyedControllerAssumption ==
    /\ None \notin Keys
    /\ None \notin Payloads
    /\ \A old, new \in Payloads : Merge(old, new) \in Payloads
    /\ \A m \in Payloads : Rewrites(m) \subseteq Payloads

VARIABLES
    pending,         \* pending[k]: staged payload, or None
    queue,           \* FIFO of keys ready to be taken
    dirty,           \* keys that need processing
    processing,      \* keys some worker holds
    waiting,         \* keys to be added after a delay
    staged,          \* staged[p]: key p staged but did not enqueue yet, or None
    wpc,             \* control state of each worker
    wkey,            \* wkey[w]: the key w got from the queue, or None
    wmsg             \* wmsg[w]: the message w took, or None

vars == <<pending, queue, dirty, processing, waiting, staged, wpc, wkey, wmsg>>

WorkerState == {"get", "take", "do", "requeue", "done"}

Init ==
    /\ pending = [k \in Keys |-> None]
    /\ queue = <<>>
    /\ dirty = {}
    /\ processing = {}
    /\ waiting = {}
    /\ staged = [p \in Producers |-> None]
    /\ wpc = [w \in Workers |-> "get"]
    /\ wkey = [w \in Workers |-> None]
    /\ wmsg = [w \in Workers |-> None]

-----------------------------------------------------------------------------
(* The work queue.                                                          *)

QueueAdd(k) ==
    /\ dirty' = dirty \cup {k}
    /\ queue' = IF k \in dirty \/ k \in processing THEN queue ELSE Append(queue, k)

QueueDone(k) ==
    /\ processing' = processing \ {k}
    /\ queue' = IF k \in dirty THEN Append(queue, k) ELSE queue

\* The timer of a delayed key expires: AddAfter and AddRateLimited end in Add.
TimerFires(k) ==
    /\ k \in waiting
    /\ waiting' = waiting \ {k}
    /\ QueueAdd(k)
    /\ UNCHANGED <<pending, processing, staged, wpc, wkey, wmsg>>

-----------------------------------------------------------------------------
(* Producers.                                                               *)

Post(old, new) == IF old = None THEN new ELSE Merge(old, new)

\* stage, the first half of Add and AddAfter.
Stage(p, k, m) ==
    /\ staged[p] = None
    /\ pending' = [pending EXCEPT ![k] = Post(@, m)]
    /\ staged' = [staged EXCEPT ![p] = k]
    /\ UNCHANGED <<queue, dirty, processing, waiting, wpc, wkey, wmsg>>

\* The second half of Add: queue.Add with the key stage returned.
Enqueue(p) ==
    /\ staged[p] # None
    /\ QueueAdd(staged[p])
    /\ staged' = [staged EXCEPT ![p] = None]
    /\ UNCHANGED <<pending, processing, waiting, wpc, wkey, wmsg>>

\* The second half of AddAfter: queue.AddAfter.
EnqueueAfter(p) ==
    /\ staged[p] # None
    /\ waiting' = waiting \cup {staged[p]}
    /\ staged' = [staged EXCEPT ![p] = None]
    /\ UNCHANGED <<pending, queue, dirty, processing, wpc, wkey, wmsg>>

-----------------------------------------------------------------------------
(* Workers: the steps of processNext.                                       *)

\* Mutant of Get: the key is marked as processing before it is read.
GetMarksEarly(w) ==
    /\ wpc[w] = "get"
    /\ queue # <<>>
    /\ wkey' = [wkey EXCEPT ![w] = Head(queue)]
    /\ processing' = processing \cup {wkey[w]}
    /\ dirty' = dirty \ {Head(queue)}
    /\ queue' = Tail(queue)
    /\ wpc' = [wpc EXCEPT ![w] = "take"]
    /\ UNCHANGED <<pending, waiting, staged, wmsg>>

\* queue.Get
Get(w) ==
    /\ wpc[w] = "get"
    /\ queue # <<>>
    /\ LET k == Head(queue) IN
         /\ wkey' = [wkey EXCEPT ![w] = k]
         /\ processing' = processing \cup {k}
         /\ dirty' = dirty \ {k}
    /\ queue' = Tail(queue)
    /\ wpc' = [wpc EXCEPT ![w] = "take"]
    /\ UNCHANGED <<pending, waiting, staged, wmsg>>

\* Mutant of Take: queue.Done is called there instead of being deferred.
TakeReleasesKey(w) ==
    /\ wpc[w] = "take"
    /\ wmsg' = [wmsg EXCEPT ![w] = pending[wkey[w]]]
    /\ pending' = [pending EXCEPT ![wkey[w]] = None]
    /\ wpc' = [wpc EXCEPT ![w] = IF pending[wkey[w]] = None THEN "done" ELSE "do"]
    /\ QueueDone(wkey[w])
    /\ UNCHANGED <<dirty, waiting, staged, wkey>>

\* Mutant of Take: the payload is read and not deleted from the map.
TakeLeavesPayload(w) ==
    /\ wpc[w] = "take"
    /\ wmsg' = [wmsg EXCEPT ![w] = pending[wkey[w]]]
    /\ wpc' = [wpc EXCEPT ![w] = IF pending[wkey[w]] = None THEN "done" ELSE "do"]
    /\ UNCHANGED <<pending, queue, dirty, processing, waiting, staged, wkey>>

\* take; a key whose payload is already gone is just given back.
Take(w) ==
    /\ wpc[w] = "take"
    /\ wmsg' = [wmsg EXCEPT ![w] = pending[wkey[w]]]
    /\ pending' = [pending EXCEPT ![wkey[w]] = None]
    /\ wpc' = [wpc EXCEPT ![w] = IF pending[wkey[w]] = None THEN "done" ELSE "do"]
    /\ UNCHANGED <<queue, dirty, processing, waiting, staged, wkey>>

\* handler.Do returned neither an error nor a request to requeue.
DoSucceeds(w) ==
    /\ wpc[w] = "do"
    /\ wmsg' = [wmsg EXCEPT ![w] = None]
    /\ wpc' = [wpc EXCEPT ![w] = "done"]
    /\ UNCHANGED <<pending, queue, dirty, processing, waiting, staged, wkey>>

\* Mutant of Restage: the old message replaces what was staged meanwhile.
RestageOverwrites(w) ==
    /\ wpc[w] = "do"
    /\ \E m \in Rewrites(wmsg[w]) : pending' = [pending EXCEPT ![wkey[w]] = m]
    /\ wmsg' = [wmsg EXCEPT ![w] = None]
    /\ wpc' = [wpc EXCEPT ![w] = "requeue"]
    /\ UNCHANGED <<queue, dirty, processing, waiting, staged, wkey>>

\* handler.Do failed or asked to be called again: restage.  The messages are
\* pointers, so what the handler changed in its message is what is restaged.
Restage(w) ==
    /\ wpc[w] = "do"
    /\ \E m \in Rewrites(wmsg[w]) :
         pending' = [pending EXCEPT ![wkey[w]] = IF @ = None THEN m ELSE Merge(m, @)]
    /\ wmsg' = [wmsg EXCEPT ![w] = None]
    /\ wpc' = [wpc EXCEPT ![w] = "requeue"]
    /\ UNCHANGED <<queue, dirty, processing, waiting, staged, wkey>>

\* Mutant of Requeue: the message is back in the map, its key not in the queue.
RequeueForgets(w) ==
    /\ wpc[w] = "requeue"
    /\ wpc' = [wpc EXCEPT ![w] = "done"]
    /\ UNCHANGED <<pending, queue, dirty, processing, waiting, staged, wkey, wmsg>>

\* AddRateLimited, AddAfter or both: the key waits for its timer.
Requeue(w) ==
    /\ wpc[w] = "requeue"
    /\ waiting' = waiting \cup {wkey[w]}
    /\ wpc' = [wpc EXCEPT ![w] = "done"]
    /\ UNCHANGED <<pending, queue, dirty, processing, staged, wkey, wmsg>>

\* The deferred queue.Done.
Done(w) ==
    /\ wpc[w] = "done"
    /\ QueueDone(wkey[w])
    /\ wkey' = [wkey EXCEPT ![w] = None]
    /\ wpc' = [wpc EXCEPT ![w] = "get"]
    /\ UNCHANGED <<pending, dirty, waiting, staged, wmsg>>

-----------------------------------------------------------------------------
Produce(p) ==
    \/ \E k \in Keys, m \in Payloads : Stage(p, k, m)
    \/ Enqueue(p)
    \/ EnqueueAfter(p)

Work(w) ==
    \/ Get(w) \/ Take(w) \/ DoSucceeds(w) \/ Restage(w) \/ Requeue(w) \/ Done(w)

Next ==
    \/ \E k \in Keys : TimerFires(k)
    \/ \E p \in Producers : Produce(p)
    \/ \E w \in Workers : Work(w)

Spec == Init /\ [][Next]_vars

(***************************************************************************)
(* Timers fire, a producer that staged a key goes on to enqueue it, and the *)
(* worker loops keep running; handlers return.  Nothing makes a producer    *)
(* call Add, and nothing says whether a handler succeeds.                   *)
(***************************************************************************)
Fairness ==
    /\ \A k \in Keys : WF_vars(TimerFires(k))
    /\ \A p \in Producers : WF_vars(Enqueue(p) \/ EnqueueAfter(p))
    /\ \A w \in Workers : WF_vars(Work(w))

FairSpec == Spec /\ Fairness

-----------------------------------------------------------------------------
(* Properties.                                                              *)

TypeOK ==
    /\ pending \in [Keys -> Payloads \cup {None}]
    /\ queue \in Seq(Keys)
    /\ dirty \subseteq Keys
    /\ processing \subseteq Keys
    /\ waiting \subseteq Keys
    /\ staged \in [Producers -> Keys \cup {None}]
    /\ wpc \in [Workers -> WorkerState]
    /\ wkey \in [Workers -> Keys \cup {None}]
    /\ wmsg \in [Workers -> Payloads \cup {None}]

\* "Messages that resolve to the same key are never processed by two workers
\* at once" (the comment on KeyedController): no key is held by two workers,
\* from queue.Get to queue.Done.
OneWorkerPerKey ==
    \A v, w \in Workers : v # w /\ wkey[v] # None => wkey[v] # wkey[w]

\* A staged payload is never stranded: as long as pending holds something for
\* k, either k is on its way through the work queue, or some goroutine is
\* between the critical section that wrote pending and the one that adds k to
\* the queue, or a worker that already holds k is about to take the payload.
NoStrandedPayload ==
    \A k \in Keys : pending[k] # None =>
        \/ k \in dirty
        \/ k \in waiting
        \/ \E p \in Producers : staged[p] = k
        \/ \E w \in Workers : wkey[w] = k /\ wpc[w] \in {"take", "requeue"}

\* The work queue holds exactly the dirty keys nobody processes, once each.
QueueInv ==
    /\ \A i, j \in DOMAIN queue : queue[i] = queue[j] => i = j
    /\ \A i \in DOMAIN queue : queue[i] \in dirty /\ queue[i] \notin processing
    /\ \A k \in dirty \ processing : \E i \in DOMAIN queue : queue[i] = k

\* What a worker's control state says about the key and the message it has.
ControlInv ==
    /\ \A w \in Workers : (wkey[w] = None) <=> (wpc[w] = "get")
    /\ \A w \in Workers : (wmsg[w] = None) <=> (wpc[w] # "do")

\* The keys marked as processing are the keys workers hold.
HoldInv ==
    /\ \A w \in Workers : wkey[w] # None => wkey[w] \in processing
    /\ \A k \in processing : \E w \in Workers : wkey[w] = k

\* The inductive invariant behind OneWorkerPerKey and NoStrandedPayload.
IInv ==
    /\ TypeOK
    /\ ControlInv
    /\ QueueInv
    /\ HoldInv
    /\ OneWorkerPerKey
    /\ NoStrandedPayload

(***************************************************************************)
(* Refinement: seen from outside, the controller is a set of mailboxes.     *)
(***************************************************************************)
HandledIn(key, msg, k) ==
    IF \E w \in Workers : key[w] = k /\ msg[w] # None
      THEN msg[CHOOSE w \in Workers : key[w] = k /\ msg[w] # None]
      ELSE None

Handled(k) == HandledIn(wkey, wmsg, k)

M == INSTANCE Mailbox WITH box <- pending, active <- [k \in Keys |-> Handled(k)]

\* Every step of the controller is a step of the mailboxes or invisible to
\* them: messages are merged in arrival order, at most one per key is in the
\* handler, and a retried message counts as older than what arrived meanwhile.
ImplementsMailbox == M!Spec

\* A staged message is eventually taken by a worker for its handler, however
\* often other keys are added, retried or delayed ("the payload was already
\* consumed by a coalesced run" is the only way a key is given back unhandled).
EventuallyTaken == \A k \in Keys : pending[k] # None ~> pending[k] = None
=============================================================================
