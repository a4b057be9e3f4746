------------------------- MODULE MicroBatcher_proofs -------------------------
(***************************************************************************)
(* No job is lost or held twice between the queue and the worker's batch,  *)
(* and callers can not tell the batcher from a server that answers each of *)
(* them alone, for every number of callers and closers and every batch size.*)
(***************************************************************************)
EXTENDS MicroBatcher, SequenceTheorems, TLAPS

Held(q, c) == \E i \in DOMAIN q : q[i] = c
OnceEach(q, C) == \A i, j \in DOMAIN q : q[i] = q[j] /\ q[i] \in C => i = j

(* Putting a job or a sentinel at the end of a queue. *)
LEMMA HeldByAppend ==
  ASSUME NEW S, NEW C, NEW q \in Seq(S), NEW x \in S
  PROVE  /\ Append(q, x) \in Seq(S)
         /\ Len(Append(q, x)) = Len(q) + 1
         /\ \A c : Held(Append(q, x), c) <=> Held(q, c) \/ c = x
         /\ OnceEach(q, C) /\ (x \in C => ~Held(q, x)) => OnceEach(Append(q, x), C)
<1> DEFINE r == Append(q, x)
<1>1. /\ r \in Seq(S) /\ Len(r) = Len(q) + 1
      /\ r[Len(q) + 1] = x
      /\ \A i \in 1..Len(q) : r[i] = q[i]
  BY AppendProperties
<1>2. Len(q) \in Nat /\ DOMAIN q = 1..Len(q) /\ DOMAIN r = 1..(Len(q) + 1)
  BY <1>1, LenProperties
<1> HIDE DEF r
<1>3. \A c : Held(r, c) <=> Held(q, c) \/ c = x
  BY <1>1, <1>2 DEF Held
<1>4. OnceEach(q, C) /\ (x \in C => ~Held(q, x)) => OnceEach(r, C)
  BY <1>1, <1>2 DEF Held, OnceEach
<1> QED BY <1>1, <1>3, <1>4 DEF r

(* Taking the job or the sentinel at the head of a queue. *)
LEMMA HeldByTail ==
  ASSUME NEW S, NEW C, NEW q \in Seq(S), q # <<>>
  PROVE  /\ Head(q) \in S /\ Tail(q) \in Seq(S)
         /\ Len(Tail(q)) = Len(q) - 1
         /\ \A c : Held(q, c) <=> c = Head(q) \/ Held(Tail(q), c)
         /\ OnceEach(q, C) => OnceEach(Tail(q), C)
         /\ OnceEach(q, C) /\ Head(q) \in C => ~Held(Tail(q), Head(q))
<1> DEFINE h == Head(q)  t == Tail(q)
<1>1. /\ h \in S /\ t \in Seq(S) /\ Len(t) = Len(q) - 1
      /\ h = q[1]
      /\ \A i \in 1..Len(t) : t[i] = q[i + 1]
  BY HeadTailProperties
<1>2. Len(q) \in Nat /\ Len(q) > 0 /\ DOMAIN q = 1..Len(q) /\ DOMAIN t = 1..(Len(q) - 1)
  BY <1>1, LenProperties, EmptySeq
<1> HIDE DEF h, t
<1>3. \A c : Held(q, c) <=> c = h \/ Held(t, c)
  <2> TAKE c
  <2>1. Held(t, c) => Held(q, c)
    <3>1. \A i \in DOMAIN t : i + 1 \in DOMAIN q /\ q[i + 1] = t[i]
      BY <1>1, <1>2
    <3> QED BY <3>1 DEF Held
  <2>2. c = h => Held(q, c)
    BY <1>1, <1>2 DEF Held
  <2>3. ASSUME NEW i \in DOMAIN q, q[i] = c, c # h  PROVE Held(t, c)
    <3>1. i - 1 \in DOMAIN t /\ t[i - 1] = c
      BY <1>1, <1>2, <2>3
    <3> QED BY <3>1 DEF Held
  <2> QED BY <2>1, <2>2, <2>3 DEF Held
<1>4. \A i \in DOMAIN t : i \in Int /\ i + 1 \in DOMAIN q /\ q[i + 1] = t[i] /\ i + 1 # 1
  BY <1>1, <1>2
<1>5. OnceEach(q, C) => OnceEach(t, C)
  <2> SUFFICES ASSUME OnceEach(q, C), NEW i \in DOMAIN t, NEW j \in DOMAIN t,
                      t[i] = t[j], t[i] \in C
               PROVE  i = j
    BY DEF OnceEach
  <2>1. i + 1 = j + 1
    BY <1>4 DEF OnceEach
  <2> QED BY <1>4, <2>1
<1>6. OnceEach(q, C) /\ h \in C => ~Held(t, h)
  <2>1. 1 \in DOMAIN q
    BY <1>2
  <2> QED BY <1>1, <1>4, <2>1 DEF OnceEach, Held
<1> QED BY <1>1, <1>3, <1>5, <1>6 DEF h, t

-----------------------------------------------------------------------------
(* A caller has a job exactly while it is in submit. *)
JobWhileSubmitting == \A c \in Callers : submitting[c] = "idle" <=> item[c] = NoItem

(* An answer is for a caller that waits, and is one to its own item.        *)
AnswerIsOwn ==
    \A c \in Callers :
        answer[c] # Pending =>
            submitting[c] = "waiting" /\ answer[c] \in {Result(item[c]), Raised}

(* The worker has jobs in its hands exactly while it works on a batch.      *)
WorkerHasBatch == worker \in {"collect", "stopped"} <=> batch = <<>>

(* A job is held once by whom it should be, and by nobody else.            *)
HeldOnce ==
    /\ OnceEach(queue, Callers)
    /\ OnceEach(batch, Callers)
    /\ \A c \in Callers :
          /\ ~(Held(batch, c) /\ Held(queue, c))
          /\ Unanswered(c) <=> Held(batch, c) \/ Held(queue, c)

IInv ==
    /\ TypeOK
    /\ HeldOnce
    /\ JobWhileSubmitting
    /\ AnswerIsOwn
    /\ WorkerHasBatch

(* The five answers a submit can have are told apart by their kind.         *)
LEMMA AnswersDiffer ==
  /\ \A i : Result(i) # Pending
  /\ Raised # Pending
  /\ Refused # Pending
<1>1. \A i : Result(i).kind = "result"
  BY DEF Result
<1>2. Raised.kind = "error" /\ Pending.kind = "none" /\ Refused.kind = "closed"
  BY DEF Raised, Pending, Refused
<1> QED BY <1>1, <1>2

(* What the invariant says of the jobs, in terms of the lemmas above, is    *)
(* EachJobHeldOnce.                                                        *)
LEMMA HeldOnceIsEachJobHeldOnce ==
  ASSUME TypeOK, HeldOnce
  PROVE  EachJobHeldOnce
<1>1. \A i \in DOMAIN queue : queue[i] # Shutdown => queue[i] \in Callers
  BY DEF TypeOK
<1>2. \A i \in DOMAIN batch : batch[i] \in Callers
  BY DEF TypeOK
<1>3. \A i, j \in DOMAIN queue : queue[i] = queue[j] /\ queue[i] # Shutdown => i = j
  BY <1>1 DEF OnceEach, HeldOnce
<1>4. IsInjective(batch)
  BY <1>2 DEF OnceEach, IsInjective, HeldOnce
<1> QED BY <1>3, <1>4 DEF EachJobHeldOnce, Unanswered, InHand, InQueue, Held, HeldOnce

(* Before anybody calls, nothing is held. *)
LEMMA InitIInv == Init => IInv
<1> SUFFICES ASSUME Init PROVE IInv
  OBVIOUS
<1>1. TypeOK
  <2>1. queue \in Seq(Callers \cup {Shutdown}) /\ batch \in Seq(Callers)
    BY EmptySeq DEF Init
  <2>2. Len(batch) <= BatchMax
    BY EmptySeq, BatcherAssumption DEF Init
  <2>3. /\ answer \in [Callers -> {Result(i) : i \in Items} \cup {Raised, Pending}]
        /\ outcome \in [Callers -> {Result(i) : i \in Items} \cup {Raised, Refused, Pending}]
    BY DEF Init
  <2>4. closed \in BOOLEAN /\ submitting \in [Callers -> Phases]
    BY DEF Init, Phases
  <2>5. /\ item \in [Callers -> Items \cup {NoItem}]
        /\ closing \in [Closers -> {"idle", "checked", "set", "done"}]
        /\ worker \in {"collect", "drain", "repost", "run", "scatter", "fail", "stopped"}
    BY DEF Init
  <2> QED BY <2>1, <2>2, <2>3, <2>4, <2>5 DEF TypeOK
<1>2. HeldOnce
  <2>1. DOMAIN queue = {} /\ DOMAIN batch = {}
    BY DEF Init
  <2>2. \A c \in Callers : ~Unanswered(c)
    BY DEF Init, Unanswered
  <2> QED BY <2>1, <2>2 DEF OnceEach, Held, HeldOnce
<1>3. JobWhileSubmitting /\ AnswerIsOwn /\ WorkerHasBatch
  BY DEF Init, JobWhileSubmitting, AnswerIsOwn, WorkerHasBatch
<1> QED BY <1>1, <1>2, <1>3 DEF IInv

(* submit, refused. *)
LEMMA SubmitRefusedIInv ==
  ASSUME IInv, NEW c \in Callers, SubmitRefused(c)  PROVE IInv'
<1>1. outcome' \in [Callers -> {Result(i) : i \in Items} \cup {Raised, Refused, Pending}]
  BY DEF IInv, TypeOK, SubmitRefused
<1>2. UNCHANGED <<closed, queue, submitting, item, answer, closing, worker, batch>>
  BY DEF SubmitRefused
<1> QED BY <1>1, <1>2
        DEF IInv, TypeOK, HeldOnce, Unanswered, JobWhileSubmitting, AnswerIsOwn, WorkerHasBatch

(* submit, past the check of _closed: the job is the caller's own still.    *)
LEMMA SubmitCheckedIInv ==
  ASSUME IInv, NEW c \in Callers, NEW i \in Items, SubmitChecked(c, i)  PROVE IInv'
<1>1. /\ submitting' = [submitting EXCEPT ![c] = "checked"]
      /\ item' = [item EXCEPT ![c] = i]
      /\ outcome' = [outcome EXCEPT ![c] = Pending]
      /\ UNCHANGED <<closed, queue, answer, closing, worker, batch>>
      /\ submitting[c] = "idle"
  BY DEF SubmitChecked
<1>2. TypeOK'
  BY <1>1 DEF IInv, TypeOK, Phases
<1>3. HeldOnce'
  <2>1. \A d \in Callers : Unanswered(d)' <=> Unanswered(d)
    BY <1>1 DEF IInv, TypeOK, Unanswered
  <2> QED BY <1>1, <2>1 DEF IInv, HeldOnce
<1>4. JobWhileSubmitting'
  BY <1>1, BatcherAssumption DEF IInv, TypeOK, JobWhileSubmitting
<1>5. AnswerIsOwn'
  BY <1>1 DEF IInv, TypeOK, AnswerIsOwn
<1>6. WorkerHasBatch'
  BY <1>1 DEF IInv, WorkerHasBatch
<1> QED BY <1>2, <1>3, <1>4, <1>5, <1>6 DEF IInv

(* submit, the put: the caller was not blocked, so its job was nowhere.     *)
LEMMA SubmitPutIInv ==
  ASSUME IInv, NEW c \in Callers, SubmitPut(c)  PROVE IInv'
<1>1. /\ submitting' = [submitting EXCEPT ![c] = "waiting"]
      /\ queue' = Append(queue, c)
      /\ UNCHANGED <<closed, item, answer, outcome, closing, worker, batch>>
      /\ submitting[c] = "checked"
  BY DEF SubmitPut
<1>2. ~Held(queue, c) /\ ~Held(batch, c) /\ answer[c] = Pending
  BY <1>1 DEF IInv, HeldOnce, Unanswered, AnswerIsOwn
<1>3. queue \in Seq(Callers \cup {Shutdown}) /\ c \in Callers \cup {Shutdown}
  BY DEF IInv, TypeOK
<1>4. /\ queue' \in Seq(Callers \cup {Shutdown})
      /\ \A d : Held(queue', d) <=> Held(queue, d) \/ d = c
      /\ OnceEach(queue', Callers)
  BY <1>1, <1>2, <1>3, HeldByAppend DEF IInv, HeldOnce
<1>5. TypeOK'
  BY <1>1, <1>4 DEF IInv, TypeOK, Phases
<1>6. HeldOnce'
  <2>1. \A d \in Callers : Unanswered(d)' <=> Unanswered(d) \/ d = c
    BY <1>1, <1>2 DEF IInv, TypeOK, Unanswered
  <2> QED BY <1>1, <1>2, <1>4, <2>1 DEF IInv, HeldOnce
<1>7. JobWhileSubmitting' /\ AnswerIsOwn' /\ WorkerHasBatch'
  BY <1>1 DEF IInv, TypeOK, JobWhileSubmitting, AnswerIsOwn, WorkerHasBatch
<1> QED BY <1>5, <1>6, <1>7 DEF IInv

(* submit, the return: the job was answered, so it was held no more.        *)
LEMMA SubmitReturnIInv ==
  ASSUME IInv, NEW c \in Callers, SubmitReturn(c)  PROVE IInv'
<1>1. /\ submitting' = [submitting EXCEPT ![c] = "idle"]
      /\ outcome' = [outcome EXCEPT ![c] = answer[c]]
      /\ item' = [item EXCEPT ![c] = NoItem]
      /\ answer' = [answer EXCEPT ![c] = Pending]
      /\ UNCHANGED <<closed, queue, closing, worker, batch>>
      /\ submitting[c] = "waiting" /\ answer[c] # Pending
  BY DEF SubmitReturn
<1>2. TypeOK'
  <2>1. outcome' \in [Callers -> {Result(i) : i \in Items} \cup {Raised, Refused, Pending}]
    BY <1>1 DEF IInv, TypeOK
  <2>2. answer' \in [Callers -> {Result(i) : i \in Items} \cup {Raised, Pending}]
    BY <1>1 DEF IInv, TypeOK
  <2>3. /\ submitting' \in [Callers -> Phases]
        /\ item' \in [Callers -> Items \cup {NoItem}]
    BY <1>1 DEF IInv, TypeOK, Phases
  <2> QED BY <1>1, <2>1, <2>2, <2>3 DEF IInv, TypeOK
<1>3. HeldOnce'
  <2>1. \A d \in Callers : Unanswered(d)' <=> Unanswered(d)
    BY <1>1 DEF IInv, TypeOK, Unanswered
  <2> QED BY <1>1, <2>1 DEF IInv, HeldOnce
<1>4. JobWhileSubmitting' /\ WorkerHasBatch'
  BY <1>1 DEF IInv, TypeOK, JobWhileSubmitting, WorkerHasBatch
<1>5. AnswerIsOwn'
  BY <1>1 DEF IInv, TypeOK, AnswerIsOwn
<1> QED BY <1>2, <1>3, <1>4, <1>5 DEF IInv

(* close: checking and setting _closed touches no job. *)
LEMMA CloseCheckedIInv ==
  ASSUME IInv, NEW k \in Closers, CloseChecked(k) \/ CloseSet(k)  PROVE IInv'
<1>1. /\ closing' \in [Closers -> {"idle", "checked", "set", "done"}]
      /\ closed' \in BOOLEAN
      /\ UNCHANGED <<queue, submitting, item, answer, outcome, worker, batch>>
  BY DEF IInv, TypeOK, CloseChecked, CloseSet
<1> QED BY <1>1
        DEF IInv, TypeOK, HeldOnce, Unanswered, JobWhileSubmitting, AnswerIsOwn, WorkerHasBatch

(* A sentinel at the end of the queue, put there by close or put back by    *)
(* the worker, is nobody's job.                                            *)
LEMMA SentinelHoldsNothing ==
  ASSUME IInv, queue' = Append(queue, Shutdown),
         UNCHANGED <<submitting, answer, batch>>
  PROVE  queue' \in Seq(Callers \cup {Shutdown}) /\ HeldOnce'
<1>1. queue \in Seq(Callers \cup {Shutdown}) /\ Shutdown \in Callers \cup {Shutdown}
  BY DEF IInv, TypeOK
<1>2. /\ queue' \in Seq(Callers \cup {Shutdown})
      /\ \A d : Held(queue', d) <=> Held(queue, d) \/ d = Shutdown
      /\ OnceEach(queue', Callers)
  BY <1>1, HeldByAppend, BatcherAssumption DEF IInv, HeldOnce
<1>3. \A d \in Callers : Held(queue', d) <=> Held(queue, d)
  BY <1>2, BatcherAssumption
<1> QED BY <1>2, <1>3 DEF IInv, HeldOnce, Unanswered

(* close: the sentinel is enqueued.                                        *)
LEMMA ClosePutIInv ==
  ASSUME IInv, NEW k \in Closers, ClosePut(k)  PROVE IInv'
<1>1. /\ queue' = Append(queue, Shutdown)
      /\ closing' = [closing EXCEPT ![k] = "done"]
      /\ UNCHANGED <<closed, submitting, item, answer, outcome, worker, batch>>
  BY DEF ClosePut
<1>2. queue' \in Seq(Callers \cup {Shutdown}) /\ HeldOnce'
  BY <1>1, SentinelHoldsNothing
<1>3. closing' \in [Closers -> {"idle", "checked", "set", "done"}]
  BY <1>1 DEF IInv, TypeOK
<1> QED BY <1>1, <1>2, <1>3 DEF IInv, TypeOK, JobWhileSubmitting, AnswerIsOwn, WorkerHasBatch

(* A sentinel drawn in the middle of a batch is put back.                  *)
LEMMA RepostIInv ==
  ASSUME IInv, Repost  PROVE IInv'
<1>1. /\ queue' = Append(queue, Shutdown)
      /\ worker = "repost" /\ worker' = "run"
      /\ UNCHANGED <<closed, submitting, item, answer, outcome, closing, batch>>
  BY DEF Repost
<1>2. queue' \in Seq(Callers \cup {Shutdown}) /\ HeldOnce'
  BY <1>1, SentinelHoldsNothing
<1> QED BY <1>1, <1>2 DEF IInv, TypeOK, JobWhileSubmitting, AnswerIsOwn, WorkerHasBatch

(* The worker drew a sentinel: no job moved. *)
LEMMA DrawnSentinel ==
  ASSUME IInv, queue # <<>>, queue' = Tail(queue), Head(queue) = Shutdown,
         UNCHANGED <<submitting, answer, batch>>
  PROVE  queue' \in Seq(Callers \cup {Shutdown}) /\ HeldOnce'
<1>1. queue \in Seq(Callers \cup {Shutdown})
  BY DEF IInv, TypeOK
<1>2. /\ queue' \in Seq(Callers \cup {Shutdown})
      /\ \A d : Held(queue, d) <=> d = Shutdown \/ Held(queue', d)
      /\ OnceEach(queue', Callers)
  BY <1>1, HeldByTail DEF IInv, HeldOnce
<1>3. \A d \in Callers : Held(queue', d) <=> Held(queue, d)
  BY <1>2, BatcherAssumption
<1> QED BY <1>2, <1>3 DEF IInv, HeldOnce, Unanswered

(* The worker drew a job: it moved from the queue to the batch. *)
LEMMA DrawnJob ==
  ASSUME IInv, queue # <<>>, queue' = Tail(queue), Head(queue) # Shutdown,
         batch' = Append(batch, Head(queue)), UNCHANGED <<submitting, answer>>
  PROVE  /\ queue' \in Seq(Callers \cup {Shutdown})
         /\ batch' \in Seq(Callers) /\ Len(batch') = Len(batch) + 1
         /\ HeldOnce'
<1> DEFINE h == Head(queue)
<1>1. queue \in Seq(Callers \cup {Shutdown}) /\ batch \in Seq(Callers)
  BY DEF IInv, TypeOK
<1>2. /\ h \in Callers \cup {Shutdown}
      /\ queue' \in Seq(Callers \cup {Shutdown})
      /\ \A d : Held(queue, d) <=> d = h \/ Held(queue', d)
      /\ OnceEach(queue', Callers)
      /\ h \in Callers => ~Held(queue', h)
  BY <1>1, HeldByTail DEF IInv, HeldOnce
<1>3. h \in Callers /\ ~Held(queue', h)
  BY <1>2
<1>4. ~Held(batch, h)
  BY <1>2, <1>3 DEF IInv, HeldOnce
<1>5. /\ batch' \in Seq(Callers) /\ Len(batch') = Len(batch) + 1
      /\ \A d : Held(batch', d) <=> Held(batch, d) \/ d = h
      /\ OnceEach(batch', Callers)
  BY <1>1, <1>3, <1>4, HeldByAppend DEF IInv, HeldOnce
<1>6. \A d \in Callers : Unanswered(d)' <=> Unanswered(d)
  BY DEF Unanswered
<1> HIDE DEF h
<1>7. ASSUME NEW d \in Callers
      PROVE  /\ ~(Held(batch', d) /\ Held(queue', d))
             /\ Unanswered(d)' <=> Held(batch', d) \/ Held(queue', d)
  BY <1>2, <1>3, <1>4, <1>5, <1>6 DEF IInv, HeldOnce
<1> QED BY <1>2, <1>5, <1>7 DEF HeldOnce

(* The first job of a batch. *)
LEMMA CollectFirstIInv ==
  ASSUME IInv, CollectFirst  PROVE IInv'
<1>1. /\ worker = "collect" /\ queue # <<>> /\ queue' = Tail(queue)
      /\ UNCHANGED <<closed, submitting, item, answer, outcome, closing>>
  BY DEF CollectFirst
<1>2. batch = <<>>
  BY <1>1 DEF IInv, WorkerHasBatch
<1>3. CASE Head(queue) = Shutdown
  <2>1. worker' = "stopped" /\ UNCHANGED batch
    BY <1>3 DEF CollectFirst
  <2>2. queue' \in Seq(Callers \cup {Shutdown}) /\ HeldOnce'
    BY <1>1, <1>3, <2>1, DrawnSentinel
  <2> QED BY <1>1, <1>2, <2>1, <2>2
          DEF IInv, TypeOK, JobWhileSubmitting, AnswerIsOwn, WorkerHasBatch
<1>4. CASE Head(queue) # Shutdown
  <2>1. worker' = "drain" /\ batch' = <<Head(queue)>>
    BY <1>4 DEF CollectFirst
  <2>2. batch' = Append(batch, Head(queue)) /\ Len(batch) = 0 /\ batch' # <<>>
    BY <1>2, <2>1
  <2>3. /\ queue' \in Seq(Callers \cup {Shutdown})
        /\ batch' \in Seq(Callers) /\ Len(batch') = Len(batch) + 1
        /\ HeldOnce'
    BY <1>1, <1>4, <2>2, DrawnJob
  <2>4. Len(batch') <= BatchMax
    BY <2>2, <2>3, BatcherAssumption
  <2> QED BY <1>1, <2>1, <2>2, <2>3, <2>4
          DEF IInv, TypeOK, JobWhileSubmitting, AnswerIsOwn, WorkerHasBatch
<1> QED BY <1>3, <1>4

(* The next job of a batch, or the sentinel that ends it. *)
LEMMA CollectNextIInv ==
  ASSUME IInv, CollectNext  PROVE IInv'
<1>1. /\ worker = "drain" /\ queue # <<>> /\ queue' = Tail(queue)
      /\ Len(batch) < BatchMax
      /\ UNCHANGED <<closed, submitting, item, answer, outcome, closing>>
  BY DEF CollectNext
<1>2. batch # <<>>
  BY <1>1 DEF IInv, WorkerHasBatch
<1>3. CASE Head(queue) = Shutdown
  <2>1. worker' = "repost" /\ UNCHANGED batch
    BY <1>3 DEF CollectNext
  <2>2. queue' \in Seq(Callers \cup {Shutdown}) /\ HeldOnce'
    BY <1>1, <1>3, <2>1, DrawnSentinel
  <2> QED BY <1>1, <1>2, <2>1, <2>2
          DEF IInv, TypeOK, JobWhileSubmitting, AnswerIsOwn, WorkerHasBatch
<1>4. CASE Head(queue) # Shutdown
  <2>1. batch' = Append(batch, Head(queue)) /\ UNCHANGED worker
    BY <1>4 DEF CollectNext
  <2>2. /\ queue' \in Seq(Callers \cup {Shutdown})
        /\ batch' \in Seq(Callers) /\ Len(batch') = Len(batch) + 1
        /\ HeldOnce'
    BY <1>1, <1>4, <2>1, DrawnJob
  <2>3. Len(batch) \in Nat
    BY LenProperties DEF IInv, TypeOK
  <2>4. Len(batch') <= BatchMax /\ batch' # <<>>
    BY <1>1, <2>2, <2>3, BatcherAssumption
  <2> QED BY <1>1, <2>1, <2>2, <2>4
          DEF IInv, TypeOK, JobWhileSubmitting, AnswerIsOwn, WorkerHasBatch
<1> QED BY <1>3, <1>4

(* The batch is complete, or the model ran: the jobs stay where they are.   *)
LEMMA CollectDoneIInv ==
  ASSUME IInv, CollectDone \/ RunBatch  PROVE IInv'
<1>1. /\ worker \in {"drain", "run"} /\ worker' \in {"run", "scatter", "fail"}
      /\ UNCHANGED <<closed, queue, submitting, item, answer, outcome, closing, batch>>
  BY DEF CollectDone, RunBatch
<1> QED BY <1>1
        DEF IInv, TypeOK, HeldOnce, Unanswered, JobWhileSubmitting, AnswerIsOwn, WorkerHasBatch

(* One job of the batch is answered: its caller is not blocked any more and *)
(* the worker lets go of it.                                               *)
LEMMA ScatterIInv ==
  ASSUME IInv, NEW a, a \in {Result(item[Head(batch)]), Raised},
         worker \in {"scatter", "fail"},
         answer' = [answer EXCEPT ![Head(batch)] = a],
         batch' = Tail(batch),
         worker' = Done(Tail(batch)),
         UNCHANGED <<closed, queue, submitting, item, outcome, closing>>
  PROVE  IInv'
<1> DEFINE h == Head(batch)
<1>1. batch # <<>> /\ batch \in Seq(Callers)
  BY DEF IInv, TypeOK, WorkerHasBatch
<1>2. /\ h \in Callers /\ batch' \in Seq(Callers) /\ Len(batch') = Len(batch) - 1
      /\ \A d : Held(batch, d) <=> d = h \/ Held(batch', d)
      /\ OnceEach(batch', Callers)
      /\ ~Held(batch', h)
  BY <1>1, HeldByTail DEF IInv, HeldOnce
<1>3. submitting[h] = "waiting" /\ answer[h] = Pending /\ ~Held(queue, h)
  BY <1>2 DEF IInv, HeldOnce, Unanswered
<1>4. item[h] \in Items
  BY <1>2, <1>3 DEF IInv, TypeOK, JobWhileSubmitting
<1>5. a # Pending
  BY AnswersDiffer
<1> HIDE DEF h
<1>6. /\ answer' = [answer EXCEPT ![h] = a]
      /\ a \in {Result(item[h]), Raised}
  BY DEF h
<1>7. TypeOK'
  <2>1. answer' \in [Callers -> {Result(i) : i \in Items} \cup {Raised, Pending}]
    <3>1. a \in {Result(i) : i \in Items} \cup {Raised, Pending}
      BY <1>4, <1>6
    <3> QED BY <1>6, <3>1 DEF IInv, TypeOK
  <2>2. Len(batch') <= BatchMax
    <3>1. Len(batch) \in Nat /\ Len(batch) <= BatchMax
      BY <1>1, LenProperties DEF IInv, TypeOK
    <3> QED BY <1>2, <3>1, BatcherAssumption
  <2>3. worker' \in {"collect", "drain", "repost", "run", "scatter", "fail", "stopped"}
    BY DEF Done
  <2> QED BY <1>2, <2>1, <2>2, <2>3 DEF IInv, TypeOK
<1>8. HeldOnce'
  <2>1. \A d \in Callers : Unanswered(d)' <=> Unanswered(d) /\ d # h
    BY <1>3, <1>5, <1>6 DEF IInv, TypeOK, Unanswered
  <2>2. ASSUME NEW d \in Callers
        PROVE  /\ ~(Held(batch', d) /\ Held(queue', d))
               /\ Unanswered(d)' <=> Held(batch', d) \/ Held(queue', d)
    BY <1>2, <1>3, <2>1 DEF IInv, HeldOnce
  <2> QED BY <1>2, <2>2 DEF IInv, HeldOnce
<1>9. AnswerIsOwn'
  BY <1>3, <1>6 DEF IInv, TypeOK, AnswerIsOwn
<1>10. JobWhileSubmitting' /\ WorkerHasBatch'
  BY DEF IInv, TypeOK, JobWhileSubmitting, WorkerHasBatch, Done
<1> QED BY <1>7, <1>8, <1>9, <1>10 DEF IInv

(* Every step of every thread keeps the invariant. *)
LEMMA NextIInv == IInv /\ [Next]_vars => IInv'
<1> SUFFICES ASSUME IInv, [Next]_vars PROVE IInv'
  OBVIOUS
<1>1. ASSUME NEW c \in Callers, Submit(c)  PROVE IInv'
  BY <1>1, SubmitRefusedIInv, SubmitCheckedIInv, SubmitPutIInv, SubmitReturnIInv DEF Submit
<1>2. ASSUME NEW k \in Closers, Close(k)  PROVE IInv'
  BY <1>2, CloseCheckedIInv, ClosePutIInv DEF Close
<1>3. CASE Collect
  BY <1>3, CollectFirstIInv, CollectNextIInv, RepostIInv, CollectDoneIInv DEF Collect
<1>4. CASE Dispatch
  BY <1>4, CollectDoneIInv, ScatterIInv DEF Dispatch, ScatterResult, ScatterError
<1>5. CASE UNCHANGED vars
  BY <1>5 DEF vars, IInv, TypeOK, HeldOnce, Unanswered, JobWhileSubmitting,
              AnswerIsOwn, WorkerHasBatch
<1> QED BY <1>1, <1>2, <1>3, <1>4, <1>5 DEF Next, Loop

(* The invariant holds in every state of every behaviour.                  *)
LEMMA InvariantHolds == Spec => []IInv
<1> QED BY InitIInv, NextIInv, PTL DEF Spec

-----------------------------------------------------------------------------
(* The batcher's state is well typed, and a batch never has more than       *)
(* batch_max jobs.                                                         *)
THEOREM BatcherTypes == Spec => []TypeOK
<1>1. IInv => TypeOK
  BY DEF IInv
<1> QED BY <1>1, InvariantHolds, PTL

(* A blocked caller's job is in the queue or in the worker's hands, once,   *)
(* until it is answered, whatever close() and failing batches do.          *)
THEOREM NoJobLost == Spec => []EachJobHeldOnce
<1>1. IInv => EachJobHeldOnce
  BY HeldOnceIsEachJobHeldOnce DEF IInv
<1> QED BY <1>1, InvariantHolds, PTL

(* Submitting, being refused and returning are steps of the abstract        *)
(* server, everything else is invisible to the callers.                    *)
LEMMA StepIsCallOrStutter ==
  ASSUME IInv, [Next]_vars
  PROVE  [Alone!Next]_(Alone!calls)
<1>1. ASSUME NEW c \in Callers, SubmitRefused(c)  PROVE Alone!Next
  <2>1. Alone!Refuse(c)
    BY <1>1 DEF SubmitRefused, Alone!Refuse, Refused, Alone!Refused, IInv, JobWhileSubmitting
  <2> QED BY <2>1 DEF Alone!Next
<1>2. ASSUME NEW c \in Callers, NEW i \in Items, SubmitChecked(c, i)  PROVE Alone!Next
  <2>1. Alone!Ask(c, i)
    BY <1>2 DEF SubmitChecked, Alone!Ask, Pending, Alone!Pending, IInv, JobWhileSubmitting
  <2> QED BY <2>1 DEF Alone!Next
<1>3. ASSUME NEW c \in Callers, SubmitReturn(c)  PROVE Alone!Next
  <2>1. /\ item[c] # NoItem /\ answer[c] \in {Result(item[c]), Raised}
        /\ outcome' = [outcome EXCEPT ![c] = answer[c]]
        /\ item' = [item EXCEPT ![c] = NoItem]
    BY <1>3 DEF SubmitReturn, IInv, JobWhileSubmitting, AnswerIsOwn
  <2>2. Alone!Result(item[c]) = Result(item[c]) /\ Alone!Raised = Raised
    BY DEF Result, Raised, Alone!Result, Alone!Raised
  <2>3. Alone!Answer(c)
    BY <2>1, <2>2 DEF Alone!Answer
  <2> QED BY <2>3 DEF Alone!Next
<1>4. ASSUME NEW c \in Callers, SubmitPut(c)  PROVE UNCHANGED <<item, outcome>>
  BY <1>4 DEF SubmitPut
<1>5. ASSUME NEW k \in Closers, Close(k)  PROVE UNCHANGED <<item, outcome>>
  BY <1>5 DEF Close, CloseChecked, CloseSet, ClosePut
<1>6. ASSUME Loop  PROVE UNCHANGED <<item, outcome>>
  BY <1>6 DEF Loop, Collect, Dispatch, CollectFirst, CollectNext, Repost, CollectDone,
              RunBatch, ScatterResult, ScatterError
<1>7. ASSUME UNCHANGED vars  PROVE UNCHANGED <<item, outcome>>
  BY <1>7 DEF vars
<1> QED BY <1>1, <1>2, <1>3, <1>4, <1>5, <1>6, <1>7 DEF Next, Submit, Alone!calls

(* Batching, failing batches and shutdown can not be told from a server     *)
(* that answers each caller alone, with the result of its own item.        *)
THEOREM BatchingIsInvisible == Spec => ImplementsBlockingCalls
<1>1. Init => Alone!Init
  BY DEF Init, Alone!Init, Pending, Alone!Pending
<1>2. IInv /\ [Next]_vars => [Alone!Next]_(Alone!calls)
  BY StepIsCallOrStutter
<1> QED BY <1>1, <1>2, InvariantHolds, PTL DEF Spec, Alone!Spec, ImplementsBlockingCalls
=============================================================================
