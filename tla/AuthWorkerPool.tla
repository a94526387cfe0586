---------------------------- MODULE AuthWorkerPool ----------------------------
(***************************************************************************)
(* One auth-service process: the callback of the auth callout subject, the *)
(* bounded queue it submits requests to, the workers that handle them      *)
(* under a deadline, and the shutdown.                                     *)
(*                                                                         *)
(* A request is answered with a grant, with an error, or not at all: the   *)
(* handler is silent about credentials that are not valid and about a      *)
(* request it cannot read or cannot encrypt an answer for.                 *)
(***************************************************************************)
EXTENDS Naturals, Sequences, FiniteSets

CONSTANTS
  Request,    \* auth callout requests
  Worker,     \* the pool's goroutines
  QueueSize   \* capacity of the queue

ASSUME QueueSizeAssumption == QueueSize \in Nat \ {0}

VARIABLES
  kind,       \* what is in a request
  status,     \* where a request is
  late,       \* requests whose deadline passed before they ended
  answers,    \* the answers sent to a request, in order
  queue,      \* p.queue: requests accepted and not yet taken
  closed,     \* whether p.queue is closed
  stopped,    \* p.stopped
  mu,         \* who holds p.mu: "free", "submit" or "stop"
  cb,         \* the callback of the subscription
  work,       \* work[w]: what worker w is doing
  conn,       \* the connection: "open" or "closed"
  main        \* the main goroutine

pool == <<queue, closed, stopped, mu>>

vars == <<kind, status, late, answers, pool, cb, work, conn, main>>

Kind == {"valid", "invalid", "unreadable", "unanswerable"}

Status == {"new", "offered", "queued", "taken", "ended"}

Nothing == [pc |-> "idle"]

Exited == [pc |-> "exit"]

Callback == [pc : {"lock", "check", "send", "refuse"}, msg : Request]

Handling == [pc : {"read", "judge", "validate", "sign", "respond", "reject"}, msg : Request]

Main == {"run", "drained", "stop", "close", "wait", "exit", "panic"}

Running == main \notin {"exit", "panic"}

(***************************************************************************)
(* Answers.                                                                *)
(***************************************************************************)
\* Whether an answer to m can be sent: RespondAuthError has to read it, encrypt
\* the answer and publish it.
CanAnswer(m) == conn = "open" /\ kind[m] \notin {"unreadable", "unanswerable"}

\* RespondAuthError: a failure is logged and that is all.
RespondAuthError(m) ==
  answers' = IF CanAnswer(m) THEN [answers EXCEPT ![m] = Append(@, "error")] ELSE answers

Grant(m) ==
  answers' = IF conn = "open" THEN [answers EXCEPT ![m] = Append(@, "grant")] ELSE answers

(***************************************************************************)
(* Submit, in the callback of $SYS.REQ.USER.AUTH: one message at a time.   *)
(***************************************************************************)
Receive(m) ==
  /\ conn = "open"
  /\ cb = Nothing
  /\ status[m] = "new"
  /\ cb' = [pc |-> "lock", msg |-> m]
  /\ status' = [status EXCEPT ![m] = "offered"]
  /\ UNCHANGED <<kind, late, answers, pool, work, conn, main>>

\* Faulty: the lock is not taken.
LockNothing ==
  /\ Running
  /\ cb.pc = "lock"
  /\ cb' = [cb EXCEPT !.pc = "check"]
  /\ UNCHANGED <<kind, status, late, answers, pool, work, conn, main>>

Lock ==
  /\ Running
  /\ cb.pc = "lock"
  /\ mu = "free"
  /\ mu' = "submit"
  /\ cb' = [cb EXCEPT !.pc = "check"]
  /\ UNCHANGED <<kind, status, late, answers, queue, closed, stopped, work, conn, main>>

CheckStopped ==
  /\ Running
  /\ cb.pc = "check"
  /\ cb' = [cb EXCEPT !.pc = IF stopped THEN "refuse" ELSE "send"]
  /\ mu' = IF stopped THEN "free" ELSE mu
  /\ UNCHANGED <<kind, status, late, answers, queue, closed, stopped, work, conn, main>>

\* A send on a closed channel panics.
Enqueue ==
  /\ Running
  /\ cb.pc = "send"
  /\ closed \/ Len(queue) < QueueSize
  /\ main' = IF closed THEN "panic" ELSE main
  /\ queue' = Append(queue, cb.msg)
  /\ status' = [status EXCEPT ![cb.msg] = "queued"]
  /\ mu' = "free"
  /\ cb' = Nothing
  /\ UNCHANGED <<kind, late, answers, closed, stopped, work, conn>>

QueueFull ==
  /\ Running
  /\ cb.pc = "send"
  /\ ~closed
  /\ Len(queue) >= QueueSize
  /\ mu' = "free"
  /\ cb' = [cb EXCEPT !.pc = "refuse"]
  /\ UNCHANGED <<kind, status, late, answers, queue, closed, stopped, work, conn, main>>

Refuse ==
  /\ Running
  /\ cb.pc = "refuse"
  /\ RespondAuthError(cb.msg)
  /\ status' = [status EXCEPT ![cb.msg] = "ended"]
  /\ cb' = Nothing
  /\ UNCHANGED <<kind, late, pool, work, conn, main>>

(***************************************************************************)
(* A worker: handleMessage around HandleWithContext.                       *)
(***************************************************************************)
Doing(w, pc) == Running /\ work[w].pc = pc

Late(w) == work[w].msg \in late

Goto(w, pc) ==
  /\ work' = [work EXCEPT ![w].pc = pc]
  /\ UNCHANGED <<kind, status, late, answers, pool, cb, conn, main>>

\* Faulty: the worker keeps the request it is done with.
EndMarked(w) ==
  /\ work' = [work EXCEPT ![w].pc = "idle"]
  /\ status' = [status EXCEPT ![work[w].msg] = "ended"]
  /\ UNCHANGED <<kind, late, pool, cb, conn, main>>

\* The handler returns and the worker goes back to the queue.
End(w) ==
  /\ work' = [work EXCEPT ![w] = Nothing]
  /\ status' = [status EXCEPT ![work[w].msg] = "ended"]
  /\ UNCHANGED <<kind, late, pool, cb, conn, main>>

\* The handler returns without an answer.
EndSilently(w) == End(w) /\ UNCHANGED answers

\* The deadline of the request passes.
Deadline(w) ==
  /\ Running
  /\ work[w] \notin {Nothing, Exited}
  /\ ~Late(w)
  /\ late' = late \cup {work[w].msg}
  /\ UNCHANGED <<kind, status, answers, pool, cb, work, conn, main>>

Take(w) ==
  /\ Doing(w, "idle")
  /\ queue # <<>>
  /\ queue' = Tail(queue)
  /\ work' = [work EXCEPT ![w] = [pc |-> "read", msg |-> Head(queue)]]
  /\ status' = [status EXCEPT ![Head(queue)] = "taken"]
  /\ UNCHANGED <<kind, late, answers, closed, stopped, mu, cb, conn, main>>

\* ctx.Err() between the steps of the handler.
Expire(w) ==
  /\ Running
  /\ work[w].pc \in {"read", "judge", "sign"}
  /\ Late(w)
  /\ Goto(w, "reject")

\* The request is decrypted and decoded.
Read(w) ==
  /\ Doing(w, "read")
  /\ ~Late(w)
  /\ IF kind[work[w].msg] = "unreadable" THEN EndSilently(w) ELSE Goto(w, "judge")

Judge(w) ==
  /\ Doing(w, "judge")
  /\ ~Late(w)
  /\ Goto(w, "validate")

\* The token or password is validated; the deadline does not interrupt it.
Validate(w) ==
  /\ Doing(w, "validate")
  /\ IF kind[work[w].msg] = "invalid" THEN EndSilently(w) ELSE Goto(w, "sign")

\* The answer is built and encrypted.
Sign(w) ==
  /\ Doing(w, "sign")
  /\ ~Late(w)
  /\ IF kind[work[w].msg] = "unanswerable" THEN EndSilently(w) ELSE Goto(w, "respond")

\* Faulty: the deadline is looked at once more after the answer.
RespondThenExpire(w) ==
  /\ Doing(w, "respond")
  /\ Grant(work[w].msg)
  /\ IF Late(w)
       THEN /\ work' = [work EXCEPT ![w].pc = "reject"]
            /\ UNCHANGED <<kind, status, late, pool, cb, conn, main>>
       ELSE End(w)

Respond(w) ==
  /\ Doing(w, "respond")
  /\ Grant(work[w].msg)
  /\ End(w)

\* Faulty: a request that timed out is counted and forgotten.
RejectSilently(w) == Doing(w, "reject") /\ EndSilently(w)

\* handleMessage answers a request whose handler returned DeadlineExceeded.
Reject(w) ==
  /\ Doing(w, "reject")
  /\ RespondAuthError(work[w].msg)
  /\ End(w)

\* Faulty: a worker leaves as soon as the queue is closed.
LeaveEarly(w) ==
  /\ Doing(w, "idle")
  /\ closed
  /\ work' = [work EXCEPT ![w] = Exited]
  /\ UNCHANGED <<kind, status, late, answers, pool, cb, conn, main>>

\* range over the queue ends when it is closed and empty.
Leave(w) ==
  /\ Doing(w, "idle")
  /\ closed
  /\ queue = <<>>
  /\ work' = [work EXCEPT ![w] = Exited]
  /\ UNCHANGED <<kind, status, late, answers, pool, cb, conn, main>>

(***************************************************************************)
(* Shutdown: Drain only starts the draining, the deferred Unsubscribe is   *)
(* refused by a draining connection, Close drops what is not yet delivered,*)
(* and the pool is stopped last.                                           *)
(***************************************************************************)
Signal ==
  /\ main = "run"
  /\ main' = "drained"
  /\ UNCHANGED <<kind, status, late, answers, pool, cb, work, conn>>

CloseConn ==
  /\ main = "drained"
  /\ main' = "stop"
  /\ conn' = "closed"
  /\ UNCHANGED <<kind, status, late, answers, pool, cb, work>>

Stop ==
  /\ main = "stop"
  /\ mu = "free"
  /\ mu' = "stop"
  /\ stopped' = TRUE
  /\ main' = "close"
  /\ UNCHANGED <<kind, status, late, answers, queue, closed, cb, work, conn>>

\* Faulty: the queue is left open.
CloseNothing ==
  /\ main = "close"
  /\ mu' = "free"
  /\ main' = "wait"
  /\ UNCHANGED <<kind, status, late, answers, queue, closed, stopped, cb, work, conn>>

CloseQueue ==
  /\ main = "close"
  /\ closed' = TRUE
  /\ mu' = "free"
  /\ main' = "wait"
  /\ UNCHANGED <<kind, status, late, answers, queue, stopped, cb, work, conn>>

\* wg.Wait returns and the process ends.
Exit ==
  /\ main = "wait"
  /\ \A w \in Worker : work[w] = Exited
  /\ main' = "exit"
  /\ UNCHANGED <<kind, status, late, answers, pool, cb, work, conn>>

(***************************************************************************)
(* Specification.                                                          *)
(***************************************************************************)
Init ==
  /\ kind \in [Request -> Kind]
  /\ status = [m \in Request |-> "new"]
  /\ late = {}
  /\ answers = [m \in Request |-> <<>>]
  /\ queue = <<>>
  /\ closed = FALSE
  /\ stopped = FALSE
  /\ mu = "free"
  /\ cb = Nothing
  /\ work = [w \in Worker |-> Nothing]
  /\ conn = "open"
  /\ main = "run"

Submit == Lock \/ CheckStopped \/ Enqueue \/ QueueFull \/ Refuse

HandleMessage(w) ==
  \/ Take(w) \/ Expire(w) \/ Read(w) \/ Judge(w) \/ Validate(w) \/ Sign(w)
  \/ Respond(w) \/ Reject(w) \/ Leave(w)

Shutdown == CloseConn \/ Stop \/ CloseQueue \/ Exit

Next ==
  \/ \E m \in Request : Receive(m)
  \/ Submit
  \/ \E w \in Worker : HandleMessage(w) \/ Deadline(w)
  \/ Signal
  \/ Shutdown

Spec == Init /\ [][Next]_vars

\* The goroutines of the process run and a validation ends.  Nothing obliges a
\* request, a deadline or a signal to come.
Fairness ==
  /\ WF_vars(Submit)
  /\ \A w \in Worker : WF_vars(HandleMessage(w))
  /\ WF_vars(Shutdown)

FairSpec == Spec /\ Fairness

(***************************************************************************)
(* Properties.                                                             *)
(***************************************************************************)
TypeOK ==
  /\ kind \in [Request -> Kind]
  /\ status \in [Request -> Status]
  /\ late \in SUBSET Request
  /\ answers \in [Request -> Seq({"grant", "error"})]
  /\ queue \in Seq(Request)
  /\ closed \in BOOLEAN
  /\ stopped \in BOOLEAN
  /\ mu \in {"free", "submit", "stop"}
  /\ cb \in Callback \cup {Nothing}
  /\ work \in [Worker -> Handling \cup {Nothing, Exited}]
  /\ conn \in {"open", "closed"}
  /\ main \in Main

\* A request is answered once: the callback, the handler and the deadline, each of
\* which may answer, exclude each other, and no two workers take one request.
OneAnswer == \A m \in Request : Len(answers[m]) <= 1

\* Silence is for the invalid: while the connection is open, a request that can be
\* answered and whose credentials are good ends with an answer, whether it was
\* refused, timed out at any step or was granted.
NoneForgotten ==
  \A m \in Request :
    (status[m] = "ended" /\ kind[m] = "valid" /\ conn = "open") => answers[m] # <<>>

\* Submit and Stop never meet on the queue: no request is sent on it when it is
\* closed, at whatever moment the signal comes.
NoSendOnClosedQueue == main # "panic"

\* What is accepted is handled, also when the pool is stopped in the meantime: the
\* workers empty the queue before they leave.
AcceptedIsHandled == \A m \in Request : (status[m] = "queued") ~> (status[m] = "ended")

\* A shutdown comes to its end: Stop gets the lock, the workers leave.
StopReturns == (main = "drained") ~> (main = "exit")
=============================================================================
