------------------------- MODULE AuthWorkerPool_proofs -------------------------
(***************************************************************************)
(* Proofs about AuthWorkerPool, for any requests, workers and queue size.  *)
(***************************************************************************)
EXTENDS AuthWorkerPool, TLAPS

Busy(w) == work[w] \in Handling

\* A request is in one place at a time, and its status says where.
QueueStatus == \A i \in 1..Len(queue) : status[queue[i]] = "queued"

QueueOnce == \A i, j \in 1..Len(queue) : queue[i] = queue[j] => i = j

WorkStatus == \A w \in Worker : Busy(w) => status[work[w].msg] = "taken"

WorkOnce == \A w, x \in Worker : Busy(w) /\ Busy(x) /\ work[w].msg = work[x].msg => w = x

CallbackStatus == cb # Nothing => status[cb.msg] = "offered"

Unanswered == \A m \in Request : status[m] # "ended" => answers[m] = <<>>

Places == QueueStatus /\ QueueOnce /\ WorkStatus /\ WorkOnce /\ CallbackStatus

\* What p.mu protects.
Locked ==
  /\ mu = "submit" <=> cb.pc \in {"check", "send"}
  /\ mu = "stop" <=> main = "close"
  /\ cb.pc = "send" => ~stopped
  /\ main = "close" => stopped
  /\ closed => stopped

IInv == Places /\ Unanswered /\ OneAnswer /\ NoneForgotten

-------------------------------------------------------------------------------
\* What is in the record of a callback that is not idle.
LEMMA CallbackFields ==
  ASSUME TypeOK, cb.pc # "idle"
  PROVE  /\ cb \in Callback
         /\ cb.msg \in Request
         /\ \A pc \in {"lock", "check", "send", "refuse"} : [cb EXCEPT !.pc = pc] \in Callback
<1>1. cb \in Callback
  BY DEF TypeOK, Nothing
<1> QED BY <1>1 DEF Callback

\* What is in the record of a worker that is not idle.
LEMMA WorkerFields ==
  ASSUME TypeOK, NEW w \in Worker, work[w].pc \notin {"idle", "exit"}
  PROVE  /\ work[w] \in Handling
         /\ work[w].msg \in Request
         /\ \A pc \in {"read", "judge", "validate", "sign", "respond", "reject"} :
              [work[w] EXCEPT !.pc = pc] \in Handling
<1>1. work[w] \in Handling \cup {Nothing, Exited}
  BY DEF TypeOK
<1>2. work[w] \in Handling
  BY <1>1 DEF Nothing, Exited
<1> QED BY <1>2 DEF Handling

\* Ending a request keeps the types.
LEMMA EndTypes ==
  ASSUME TypeOK, NEW w \in Worker, work[w].pc \notin {"idle", "exit"}, End(w),
         answers' \in [Request -> Seq({"grant", "error"})]
  PROVE  TypeOK'
BY WorkerFields DEF TypeOK, End, Status, pool

\* Going on to another step keeps the types.
LEMMA GotoTypes ==
  ASSUME TypeOK, NEW w \in Worker, work[w].pc \notin {"idle", "exit"},
         NEW pc \in {"read", "judge", "validate", "sign", "respond", "reject"}, Goto(w, pc)
  PROVE  TypeOK'
<1>1. work' \in [Worker -> Handling \cup {Nothing, Exited}]
  BY WorkerFields DEF TypeOK, Goto
<1> QED BY <1>1 DEF TypeOK, Goto, pool

\* An answer keeps the type of the answers.
LEMMA AnswerTypes ==
  ASSUME TypeOK, NEW m \in Request, RespondAuthError(m) \/ Grant(m)
  PROVE  answers' \in [Request -> Seq({"grant", "error"})]
<1>1. \A a \in {"grant", "error"} : Append(answers[m], a) \in Seq({"grant", "error"})
  BY DEF TypeOK
<1>2. CASE answers' = answers
  BY <1>2 DEF TypeOK
<1>3. CASE \E a \in {"grant", "error"} : answers' = [answers EXCEPT ![m] = Append(@, a)]
  BY <1>1, <1>3 DEF TypeOK
<1> QED BY <1>2, <1>3 DEF RespondAuthError, Grant

\* Every variable keeps its type.
THEOREM TypeCorrect == Spec => []TypeOK
<1>1. Init => TypeOK
  <2> SUFFICES ASSUME Init
               PROVE  TypeOK
    OBVIOUS
  <2>1. answers \in [Request -> Seq({"grant", "error"})] /\ queue \in Seq(Request)
    BY DEF Init
  <2>2. work \in [Worker -> Handling \cup {Nothing, Exited}] /\ cb \in Callback \cup {Nothing}
    BY DEF Init
  <2>3. status \in [Request -> Status]
    BY DEF Init, Status
  <2> QED BY <2>1, <2>2, <2>3 DEF Init, TypeOK, Main
<1>2. TypeOK /\ [Next]_vars => TypeOK'
  <2> SUFFICES ASSUME TypeOK, [Next]_vars
               PROVE  TypeOK'
    OBVIOUS
  <2> USE DEF pool
  <2>1. ASSUME NEW m \in Request, Receive(m)
        PROVE  TypeOK'
    <3>1. cb' \in Callback
      BY <2>1 DEF Receive, Callback
    <3> QED BY <2>1, <3>1 DEF Receive, TypeOK, Status
  <2>2. CASE Lock
    BY <2>2, CallbackFields DEF Lock, TypeOK
  <2>3. CASE CheckStopped
    BY <2>3, CallbackFields DEF CheckStopped, TypeOK
  <2>4. CASE Enqueue
    BY <2>4, CallbackFields DEF Enqueue, TypeOK, Status, Main
  <2>5. CASE QueueFull
    BY <2>5, CallbackFields DEF QueueFull, TypeOK
  <2>6. CASE Refuse
    <3>1. answers' \in [Request -> Seq({"grant", "error"})]
      BY <2>6, CallbackFields, AnswerTypes DEF Refuse
    <3> QED BY <2>6, <3>1, CallbackFields DEF Refuse, TypeOK, Status
  <2>7. ASSUME NEW w \in Worker, HandleMessage(w) \/ Deadline(w)
        PROVE  TypeOK'
    <3>1. CASE Deadline(w)
      <4>1. work[w].msg \in Request
        BY <3>1 DEF Deadline, TypeOK, Handling
      <4> QED BY <3>1, <4>1 DEF Deadline, TypeOK
    <3>2. CASE Take(w)
      <4>1. Head(queue) \in Request /\ Tail(queue) \in Seq(Request)
        BY <3>2 DEF Take, TypeOK
      <4>2. [pc |-> "read", msg |-> Head(queue)] \in Handling
        BY <4>1 DEF Handling
      <4> QED BY <3>2, <4>1, <4>2 DEF Take, TypeOK, Status
    <3>3. CASE Expire(w)
      BY <3>3, GotoTypes DEF Expire
    <3>4. CASE Read(w)
      BY <3>4, GotoTypes, EndTypes DEF Read, Doing, EndSilently, TypeOK
    <3>5. CASE Judge(w)
      BY <3>5, GotoTypes DEF Judge, Doing
    <3>6. CASE Validate(w)
      BY <3>6, GotoTypes, EndTypes DEF Validate, Doing, EndSilently, TypeOK
    <3>7. CASE Sign(w)
      BY <3>7, GotoTypes, EndTypes DEF Sign, Doing, EndSilently, TypeOK
    <3>8. CASE Respond(w)
      BY <3>8, WorkerFields, AnswerTypes, EndTypes DEF Respond, Doing
    <3>9. CASE Reject(w)
      BY <3>9, WorkerFields, AnswerTypes, EndTypes DEF Reject, Doing
    <3>10. CASE Leave(w)
      BY <3>10 DEF Leave, TypeOK
    <3> QED BY <2>7, <3>1, <3>2, <3>3, <3>4, <3>5, <3>6, <3>7, <3>8, <3>9, <3>10 DEF HandleMessage
  <2>8. CASE Signal
    BY <2>8 DEF Signal, TypeOK, Main
  <2>9. CASE Shutdown
    BY <2>9 DEF Shutdown, CloseConn, Stop, CloseQueue, Exit, TypeOK, Main
  <2>10. CASE UNCHANGED vars
    BY <2>10 DEF vars, TypeOK
  <2> QED BY <2>1, <2>2, <2>3, <2>4, <2>5, <2>6, <2>7, <2>8, <2>9, <2>10 DEF Next, Submit
<1> QED BY <1>1, <1>2, PTL DEF Spec

-------------------------------------------------------------------------------
\* p.mu keeps Submit and Stop apart, so no request is sent on a closed queue.
THEOREM NeverPanics == Spec => []NoSendOnClosedQueue
<1> USE DEF NoSendOnClosedQueue, Locked
<1>1. Init => Locked /\ NoSendOnClosedQueue
  BY DEF Init, Nothing
<1>2. TypeOK /\ Locked /\ NoSendOnClosedQueue /\ [Next]_vars => (Locked /\ NoSendOnClosedQueue)'
  <2> SUFFICES ASSUME TypeOK, Locked, NoSendOnClosedQueue, [Next]_vars
               PROVE  (Locked /\ NoSendOnClosedQueue)'
    OBVIOUS
  <2> USE DEF TypeOK, Callback, Nothing, pool
  <2>1. CASE \E m \in Request : Receive(m)
    BY <2>1 DEF Receive
  <2>2. CASE Submit
    BY <2>2 DEF Submit, Lock, CheckStopped, Enqueue, QueueFull, Refuse, Running
  <2>3. ASSUME NEW w \in Worker, HandleMessage(w) \/ Deadline(w)
        PROVE  UNCHANGED <<closed, stopped, mu, cb, main>>
    BY <2>3 DEF HandleMessage, Deadline, Take, Expire, Read, Judge, Validate, Sign, Respond,
                Reject, Leave, Goto, EndSilently, End
  <2>4. CASE \E w \in Worker : HandleMessage(w) \/ Deadline(w)
    BY <2>3, <2>4
  <2>5. CASE Signal
    BY <2>5 DEF Signal
  <2>6. CASE Shutdown
    BY <2>6 DEF Shutdown, CloseConn, Stop, CloseQueue, Exit
  <2>7. CASE UNCHANGED vars
    BY <2>7 DEF vars
  <2> QED BY <2>1, <2>2, <2>4, <2>5, <2>6, <2>7 DEF Next
<1> QED BY <1>1, <1>2, TypeCorrect, PTL DEF Spec

-------------------------------------------------------------------------------
\* Going on to another step disturbs nothing.
LEMMA GotoKeeps ==
  ASSUME TypeOK, IInv, NEW w \in Worker, work[w].pc \notin {"idle", "exit"},
         NEW pc \in {"read", "judge", "validate", "sign", "respond", "reject"}, Goto(w, pc)
  PROVE  IInv'
<1>1. work[w] \in Handling /\ work'[w] \in Handling /\ work'[w].msg = work[w].msg
  BY WorkerFields, ZenonT(40) DEF TypeOK, Goto, Handling
<1>2. \A x \in Worker : x # w => work'[x] = work[x]
  BY DEF TypeOK, Goto
<1>3. \A x \in Worker : Busy(x)' => Busy(x) /\ work'[x].msg = work[x].msg
  BY <1>1, <1>2 DEF Busy
<1>4. Places'
  BY <1>3 DEF IInv, Places, QueueStatus, QueueOnce, WorkStatus, WorkOnce, CallbackStatus, Goto, pool
<1> QED BY <1>4 DEF IInv, Unanswered, OneAnswer, NoneForgotten, Goto

\* A request that ends, with one answer at most and with one if it is owed one,
\* leaves the others as they are.
LEMMA EndKeeps ==
  ASSUME TypeOK, IInv, NEW w \in Worker, work[w].pc \notin {"idle", "exit"}, End(w),
         NEW m \in Request, m = work[w].msg,
         \A n \in Request : n # m => answers'[n] = answers[n],
         Len(answers'[m]) <= 1,
         kind[m] = "valid" /\ conn = "open" => answers'[m] # <<>>
  PROVE  IInv'
<1>1. Busy(w) /\ status[m] = "taken"
  BY WorkerFields DEF Busy, IInv, Places, WorkStatus
<1>2. \A x \in Worker : Busy(x)' => x # w /\ Busy(x) /\ work'[x] = work[x] /\ work[x].msg # m
  <2>1. ~ Busy(w)'
    BY DEF Busy, End, TypeOK, Nothing, Handling
  <2>2. \A x \in Worker : x # w => work'[x] = work[x]
    BY DEF End, TypeOK
  <2> QED BY <1>1, <2>1, <2>2 DEF Busy, IInv, Places, WorkOnce
<1>3. \A n \in Request : status'[n] = IF n = m THEN "ended" ELSE status[n]
  BY DEF End, TypeOK
<1>4. QueueStatus' /\ QueueOnce'
  <2>1. \A i \in 1..Len(queue) : queue[i] \in Request /\ queue[i] # m
    BY <1>1 DEF IInv, Places, QueueStatus, TypeOK
  <2> QED BY <1>3, <2>1 DEF IInv, Places, QueueStatus, QueueOnce, End, pool
<1>5. WorkStatus' /\ WorkOnce'
  <2>1. \A x \in Worker : Busy(x) => work[x].msg \in Request
    BY DEF Busy, Handling
  <2> QED BY <1>2, <1>3, <2>1 DEF IInv, Places, WorkStatus, WorkOnce
<1>6. CallbackStatus'
  <2>1. cb # Nothing => cb.msg \in Request /\ cb.msg # m
    BY <1>1 DEF IInv, Places, CallbackStatus, TypeOK, Callback
  <2> QED BY <1>3, <2>1 DEF IInv, Places, CallbackStatus, End
<1>7. Unanswered' /\ OneAnswer'
  BY <1>3 DEF IInv, Unanswered, OneAnswer
<1>8. NoneForgotten'
  BY <1>3 DEF IInv, NoneForgotten, End
<1> QED BY <1>4, <1>5, <1>6, <1>7, <1>8 DEF IInv, Places

\* What an answer adds, and when it is sent.
LEMMA AnswerSent ==
  ASSUME TypeOK, NEW m \in Request, answers[m] = <<>>, RespondAuthError(m) \/ Grant(m)
  PROVE  /\ \A n \in Request : n # m => answers'[n] = answers[n]
         /\ Len(answers'[m]) <= 1
         /\ kind[m] = "valid" /\ conn = "open" => answers'[m] # <<>>
<1>1. answers' = answers \/ \E a \in {"grant", "error"} : answers' = [answers EXCEPT ![m] = <<a>>]
  BY DEF RespondAuthError, Grant
<1>2. kind[m] = "valid" /\ conn = "open" =>
        \E a \in {"grant", "error"} : answers' = [answers EXCEPT ![m] = <<a>>]
  BY DEF RespondAuthError, Grant, CanAnswer
<1>3. CASE answers' = answers /\ ~(kind[m] = "valid" /\ conn = "open")
  BY <1>3
<1>4. ASSUME NEW a \in {"grant", "error"}, answers' = [answers EXCEPT ![m] = <<a>>]
      PROVE  /\ \A n \in Request : n # m => answers'[n] = answers[n]
             /\ Len(answers'[m]) <= 1
             /\ answers'[m] # <<>>
  <2>1. answers'[m] = <<a>>
    BY <1>4 DEF TypeOK
  <2>2. \A n \in Request : n # m => answers'[n] = answers[n]
    BY <1>4 DEF TypeOK
  <2> QED BY <2>1, <2>2
<1> QED BY <1>1, <1>2, <1>3, <1>4

\* Each step of a worker keeps the invariant.
LEMMA WorkerKeeps ==
  ASSUME TypeOK, IInv, NEW w \in Worker, HandleMessage(w) \/ Deadline(w)
  PROVE  IInv'
<1> USE DEF pool
<1> DEFINE m == work[w].msg
<1>a. ASSUME work[w].pc \notin {"idle", "exit"}
      PROVE  m \in Request /\ answers[m] = <<>>
  BY <1>a, WorkerFields DEF IInv, Places, WorkStatus, Busy, Unanswered
<1>b. ASSUME work[w].pc \notin {"idle", "exit"}, EndSilently(w), kind[m] # "valid"
      PROVE  IInv'
  BY <1>a, <1>b, EndKeeps DEF EndSilently
<1>1. CASE Deadline(w)
  BY <1>1 DEF Deadline, IInv, Places, QueueStatus, QueueOnce, WorkStatus, WorkOnce, CallbackStatus,
              Unanswered, OneAnswer, NoneForgotten, Busy
<1>2. CASE Take(w)
  <2> DEFINE h == Head(queue)
  <2>1. h \in Request /\ status[h] = "queued" /\ h = queue[1]
    BY <1>2 DEF Take, TypeOK, IInv, Places, QueueStatus
  <2>2. \A n \in Request : status'[n] = IF n = h THEN "taken" ELSE status[n]
    BY <1>2 DEF Take, TypeOK
  <2>3. \A i \in 1..Len(queue') : /\ i + 1 \in 1..Len(queue)
                                  /\ queue'[i] = queue[i + 1]
                                  /\ queue'[i] \in Request
                                  /\ queue'[i] # h
    BY <1>2, <2>1 DEF Take, TypeOK, IInv, Places, QueueOnce
  <2>4. QueueStatus' /\ QueueOnce'
    BY <2>2, <2>3 DEF IInv, Places, QueueStatus, QueueOnce
  <2>5. \A x \in Worker : x # w => work'[x] = work[x]
    BY <1>2 DEF Take, TypeOK
  <2>6. work'[w].msg = h
    BY <1>2 DEF Take, TypeOK
  <2>7. \A x \in Worker : Busy(x) => work[x].msg \in Request /\ work[x].msg # h
    BY <2>1 DEF Busy, Handling, IInv, Places, WorkStatus
  <2>8. WorkStatus' /\ WorkOnce'
    <3>1. \A x \in Worker : x # w /\ Busy(x)' =>
            Busy(x) /\ work'[x].msg = work[x].msg /\ work'[x].msg \in Request /\ work'[x].msg # h
      BY <2>5, <2>7 DEF Busy
    <3>2. WorkStatus'
      BY <2>1, <2>2, <2>6, <3>1 DEF IInv, Places, WorkStatus
    <3> QED BY <2>6, <3>1, <3>2 DEF IInv, Places, WorkOnce
  <2>9. CallbackStatus'
    <3>1. cb # Nothing => cb.msg \in Request /\ cb.msg # h
      BY <2>1 DEF IInv, Places, CallbackStatus, TypeOK, Callback
    <3> QED BY <1>2, <2>2, <3>1 DEF Take, IInv, Places, CallbackStatus
  <2>10. Unanswered' /\ OneAnswer' /\ NoneForgotten'
    BY <1>2, <2>1, <2>2 DEF Take, IInv, Unanswered, OneAnswer, NoneForgotten
  <2> QED BY <2>4, <2>8, <2>9, <2>10 DEF IInv, Places
<1>3. CASE Expire(w)
  BY <1>3, GotoKeeps DEF Expire
<1>4. CASE Read(w)
  BY <1>4, <1>b, GotoKeeps DEF Read, Doing
<1>5. CASE Judge(w)
  BY <1>5, GotoKeeps DEF Judge, Doing
<1>6. CASE Validate(w)
  BY <1>6, <1>b, GotoKeeps DEF Validate, Doing
<1>7. CASE Sign(w)
  BY <1>7, <1>b, GotoKeeps DEF Sign, Doing
<1>8. CASE Respond(w) \/ Reject(w)
  <2>1. work[w].pc \notin {"idle", "exit"} /\ End(w) /\ (RespondAuthError(m) \/ Grant(m))
    BY <1>8 DEF Respond, Reject, Doing
  <2>2. m \in Request /\ answers[m] = <<>>
    BY <1>a, <2>1
  <2> QED BY <2>1, <2>2, AnswerSent, EndKeeps
<1>9. CASE Leave(w)
  <2>1. \A x \in Worker : Busy(x)' => Busy(x) /\ work'[x] = work[x]
    BY <1>9 DEF Leave, TypeOK, Busy, Exited, Handling
  <2> QED BY <1>9, <2>1 DEF Leave, IInv, Places, QueueStatus, QueueOnce, WorkStatus, WorkOnce,
                            CallbackStatus, Unanswered, OneAnswer, NoneForgotten
<1> QED BY <1>1, <1>2, <1>3, <1>4, <1>5, <1>6, <1>7, <1>8, <1>9 DEF HandleMessage

\* Each step of the callback keeps the invariant.
LEMMA CallbackKeeps ==
  ASSUME TypeOK, IInv, Submit \/ \E m \in Request : Receive(m)
  PROVE  IInv'
<1> USE DEF pool
<1> DEFINE c == cb.msg
<1>a. ASSUME cb.pc # "idle"
      PROVE  c \in Request /\ status[c] = "offered" /\ answers[c] = <<>>
  <2>1. cb # Nothing
    BY <1>a DEF Nothing
  <2> QED BY <1>a, <2>1, CallbackFields DEF IInv, Places, CallbackStatus, Unanswered
<1>1. ASSUME NEW m \in Request, Receive(m)
      PROVE  IInv'
  <2>1. \A n \in Request : status'[n] = IF n = m THEN "offered" ELSE status[n]
    BY <1>1 DEF Receive, TypeOK
  <2>2. QueueStatus' /\ QueueOnce'
    <3>1. \A i \in 1..Len(queue) : queue[i] \in Request /\ queue[i] # m
      BY <1>1 DEF Receive, IInv, Places, QueueStatus, TypeOK
    <3> QED BY <1>1, <2>1, <3>1 DEF Receive, IInv, Places, QueueStatus, QueueOnce
  <2>3. WorkStatus' /\ WorkOnce'
    <3>1. \A x \in Worker : Busy(x) => work[x].msg \in Request /\ work[x].msg # m
      BY <1>1 DEF Receive, Busy, Handling, IInv, Places, WorkStatus
    <3> QED BY <1>1, <2>1, <3>1 DEF Receive, IInv, Places, WorkStatus, WorkOnce, Busy
  <2>4. CallbackStatus'
    BY <1>1, <2>1 DEF Receive, CallbackStatus
  <2>5. Unanswered' /\ OneAnswer' /\ NoneForgotten'
    BY <1>1, <2>1 DEF Receive, IInv, Unanswered, OneAnswer, NoneForgotten
  <2> QED BY <2>2, <2>3, <2>4, <2>5 DEF IInv, Places
<1>2. CASE Lock \/ CheckStopped \/ QueueFull
  <2>1. cb.pc # "idle" /\ UNCHANGED <<kind, status, answers, queue, work, conn>>
    BY <1>2 DEF Lock, CheckStopped, QueueFull
  <2>2. cb'.msg = c
    BY <1>2, <2>1, CallbackFields DEF Lock, CheckStopped, QueueFull, Callback
  <2> QED BY <1>a, <2>1, <2>2 DEF IInv, Places, QueueStatus, QueueOnce, WorkStatus, WorkOnce, Busy,
                                  CallbackStatus, Unanswered, OneAnswer, NoneForgotten
<1>3. CASE Enqueue
  <2>1. c \in Request /\ status[c] = "offered" /\ answers[c] = <<>>
    BY <1>3, <1>a DEF Enqueue
  <2>2. \A n \in Request : status'[n] = IF n = c THEN "queued" ELSE status[n]
    BY <1>3, <2>1 DEF Enqueue, TypeOK
  <2>3. \A i \in 1..Len(queue) : queue[i] \in Request /\ queue[i] # c
    BY <2>1 DEF IInv, Places, QueueStatus, TypeOK
  <2>4. /\ Len(queue') = Len(queue) + 1 /\ Len(queue) \in Nat
        /\ queue'[Len(queue) + 1] = c
        /\ \A i \in 1..Len(queue) : queue'[i] = queue[i]
    BY <1>3, <2>1 DEF Enqueue, TypeOK
  <2>5. QueueStatus' /\ QueueOnce'
    <3>1. \A i \in 1..Len(queue') : i \in 1..Len(queue) \/ i = Len(queue) + 1
      BY <2>4
    <3> QED BY <2>1, <2>2, <2>3, <2>4, <3>1 DEF IInv, Places, QueueStatus, QueueOnce
  <2>6. WorkStatus' /\ WorkOnce'
    <3>1. \A x \in Worker : Busy(x) => work[x].msg \in Request /\ work[x].msg # c
      BY <2>1 DEF Busy, Handling, IInv, Places, WorkStatus
    <3> QED BY <1>3, <2>2, <3>1 DEF Enqueue, IInv, Places, WorkStatus, WorkOnce, Busy
  <2>7. CallbackStatus' /\ Unanswered' /\ OneAnswer' /\ NoneForgotten'
    BY <1>3, <2>1, <2>2 DEF Enqueue, IInv, CallbackStatus, Unanswered, OneAnswer, NoneForgotten
  <2> QED BY <2>5, <2>6, <2>7 DEF IInv, Places
<1>4. CASE Refuse
  <2>1. c \in Request /\ status[c] = "offered" /\ answers[c] = <<>>
    BY <1>4, <1>a DEF Refuse
  <2>2. \A n \in Request : status'[n] = IF n = c THEN "ended" ELSE status[n]
    BY <1>4, <2>1 DEF Refuse, TypeOK
  <2>3. /\ \A n \in Request : n # c => answers'[n] = answers[n]
        /\ Len(answers'[c]) <= 1
        /\ kind[c] = "valid" /\ conn = "open" => answers'[c] # <<>>
    BY <1>4, <2>1, AnswerSent DEF Refuse
  <2>4. QueueStatus' /\ QueueOnce'
    <3>1. \A i \in 1..Len(queue) : queue[i] \in Request /\ queue[i] # c
      BY <2>1 DEF IInv, Places, QueueStatus, TypeOK
    <3> QED BY <1>4, <2>2, <3>1 DEF Refuse, IInv, Places, QueueStatus, QueueOnce
  <2>5. WorkStatus' /\ WorkOnce'
    <3>1. \A x \in Worker : Busy(x) => work[x].msg \in Request /\ work[x].msg # c
      BY <2>1 DEF Busy, Handling, IInv, Places, WorkStatus
    <3> QED BY <1>4, <2>2, <3>1 DEF Refuse, IInv, Places, WorkStatus, WorkOnce, Busy
  <2>6. CallbackStatus' /\ Unanswered' /\ OneAnswer'
    BY <1>4, <2>1, <2>2, <2>3 DEF Refuse, IInv, CallbackStatus, Unanswered, OneAnswer
  <2>7. NoneForgotten'
    BY <1>4, <2>1, <2>2, <2>3 DEF Refuse, IInv, NoneForgotten
  <2> QED BY <2>4, <2>5, <2>6, <2>7 DEF IInv, Places
<1> QED BY <1>1, <1>2, <1>3, <1>4 DEF Submit

\* IInv is inductive.
LEMMA Invariance == Spec => []IInv
<1>1. Init => IInv
  BY DEF Init, IInv, Places, QueueStatus, QueueOnce, WorkStatus, WorkOnce, Busy, Handling, Nothing,
         CallbackStatus, Unanswered, OneAnswer, NoneForgotten
<1>2. TypeOK /\ IInv /\ [Next]_vars => IInv'
  <2> SUFFICES ASSUME TypeOK, IInv, [Next]_vars
               PROVE  IInv'
    OBVIOUS
  <2>1. CASE Signal \/ Shutdown \/ UNCHANGED vars
    <3>1. UNCHANGED <<kind, status, answers, queue, cb, work>> /\ (conn' = "open" => conn = "open")
      BY <2>1 DEF Signal, Shutdown, CloseConn, Stop, CloseQueue, Exit, vars, pool
    <3> QED BY <3>1 DEF IInv, Places, QueueStatus, QueueOnce, WorkStatus, WorkOnce, Busy,
                        CallbackStatus, Unanswered, OneAnswer, NoneForgotten
  <2> QED BY <2>1, WorkerKeeps, CallbackKeeps DEF Next
<1> QED BY <1>1, <1>2, TypeCorrect, PTL DEF Spec

\* No request is answered twice, however the callback, the handlers and the
\* deadlines interleave.
THEOREM AnsweredOnce == Spec => []OneAnswer
BY Invariance, PTL DEF IInv

\* No valid request is left without an answer while the connection is open.
THEOREM ValidAnswered == Spec => []NoneForgotten
BY Invariance, PTL DEF IInv
=============================================================================
