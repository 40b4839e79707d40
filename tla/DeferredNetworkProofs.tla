------------------------ MODULE DeferredNetworkProofs ------------------------
(***************************************************************************)
(* What the threads that ask for something that may block are promised,    *)
(* for any number of threads, sockets and requests.                        *)
(*                                                                         *)
(* The frame of a request is a piece of a stack, and stacks are reused.    *)
(* The invariant says why the cookie in the frame is enough to tell the    *)
(* requests apart: a thread that waits has put the token of its request    *)
(* there, tokens are never used twice, and no two threads have the same.   *)
(***************************************************************************)
EXTENDS DeferredNetwork, TLAPS

(* Nothing is said here of `called`, `lost` and `expired`: no step that    *)
(* answers a synchronous request depends on what they hold.                *)
TypeOK ==
  /\ thread \in [Thread -> {"runs", "waits", "woken", "elsewhere", "dead"}]
  /\ asking \in [Thread -> Nat]
  /\ cookie \in [Thread -> Nat]
  /\ nextToken \in Nat \ {0}
  /\ UnderWay \subseteq Request
  /\ generation \in [Socket -> Nat]
  /\ peer \in [Socket -> Nat]
  /\ nextGeneration \in Nat \ {0}

\* Tokens are handed out once.
TokensAreOld ==
  /\ \A t \in Thread : asking[t] < nextToken /\ cookie[t] < nextToken
  /\ \A r \in UnderWay : r.token < nextToken

\* No two threads ask with the same token.
AskingApart ==
  \A t, u \in Thread : asking[t] # 0 /\ asking[t] = asking[u] => t = u

\* The frame of a thread that waits is that of its own request.
FrameIsOwn ==
  \A t \in Thread :
    /\ thread[t] = "waits" => asking[t] # 0 /\ cookie[t] = asking[t]
    /\ thread[t] = "woken" => asking[t] # 0

IInv ==
  TypeOK /\ TokensAreOld /\ AskingApart /\ FrameIsOwn /\ WokenHasAnswer /\ PeerIsOfThisSocket

-----------------------------------------------------------------------------
(* Facts of single steps.                                                  *)

\* Whom the pump answers is waiting with the token of the request.
LEMMA AnsweredWaits ==
  ASSUME IInv, NEW r \in UnderWay, Answerable(r), r.thread # NoThread
  PROVE  /\ r.thread \in Thread
         /\ thread[r.thread] = "waits"
         /\ asking[r.thread] = r.token
BY DEF IInv, TypeOK, FrameIsOwn, Answerable, WaiterIsValid, Request

\* A request that is installed is a new one, with a token that nobody has.
LEMMA InstallStep ==
  ASSUME IInv, NEW t \in Thread \cup {NoThread}, NEW r \in Requests(t), Install(r)
  PROVE  /\ nextToken' \in Nat \ {0}
         /\ nextToken' = nextToken + 1
         /\ UnderWay' = UnderWay \cup {r}
         /\ UnderWay' \subseteq Request
         /\ \A q \in UnderWay' : q.token < nextToken'
<1>1. r \in Request /\ r.token = nextToken
  BY DEF Requests
<1>2. r.kind \in Kind
  BY <1>1 DEF Request
<1>3. UnderWay' = UnderWay \cup {r}
  BY <1>2 DEF Install, UnderWay, Kind
<1>4. nextToken' = nextToken + 1 /\ nextToken \in Nat \ {0} /\ \A q \in UnderWay : q.token \in Nat
  BY NetworkConstants DEF Install, IInv, TypeOK, Request
<1>5. \A q \in UnderWay' : q.token < nextToken'
  BY <1>1, <1>3, <1>4 DEF IInv, TokensAreOld
<1> QED
  BY <1>1, <1>3, <1>4, <1>5 DEF IInv, TypeOK

\* Aborting a connect leaves the token of every request alone.
LEMMA AbortedType ==
  ASSUME IInv, NEW fd \in Socket
  PROVE  /\ Aborted(fd) \subseteq Request
         /\ \A r \in Aborted(fd) : r.token < nextToken
<1> SUFFICES ASSUME NEW r \in connects
             PROVE  LET q == IF r.fd = fd /\ r.initial = "none"
                             THEN [r EXCEPT !.initial = "failed"] ELSE r
                    IN  q \in Request /\ q.token < nextToken
  BY DEF Aborted
<1>1. r \in Request /\ r.token < nextToken
  BY DEF IInv, TypeOK, TokensAreOld, UnderWay
<1>2. [r EXCEPT !.initial = "failed"] \in Request
  BY <1>1 DEF Request
<1>3. [r EXCEPT !.initial = "failed"].token = r.token
  BY <1>1 DEF Request
<1> QED
  BY <1>1, <1>2, <1>3

-----------------------------------------------------------------------------
(* The steps.                                                              *)

LEMMA InitInvariant == Init => IInv
BY DEF Init, IInv, TypeOK, TokensAreOld, AskingApart, FrameIsOwn, WokenHasAnswer,
       PeerIsOfThisSocket, UnderWay

\* The thread that asks has a token that is nobody else's.
LEMMA AskStep ==
  ASSUME IInv, NEW t \in Thread, AskAndSleep(t) \/ AskAndGoOn(t) \/ LaunchFails(t)
  PROVE  IInv'
<1>1. /\ nextToken' \in Nat \ {0} /\ nextToken' = nextToken + 1
      /\ UnderWay' \subseteq Request
      /\ \A q \in UnderWay' : q.token < nextToken'
  <2>1. CASE AskAndSleep(t)
    BY <2>1, InstallStep DEF AskAndSleep
  <2>2. CASE AskAndGoOn(t)
    BY <2>2, InstallStep DEF AskAndGoOn
  <2>3. CASE LaunchFails(t)
    <3>1. UnderWay' = UnderWay
      BY <2>3 DEF LaunchFails, storeVars, UnderWay
    <3>2. \A q \in UnderWay : q.token \in Nat
      BY NetworkConstants DEF IInv, TypeOK, Request
    <3> QED
      BY <2>3, <3>1, <3>2 DEF LaunchFails, IInv, TypeOK, TokensAreOld
  <2> QED
    BY <2>1, <2>2, <2>3
<1>2. /\ thread[t] = "runs"
      /\ cookie' = [cookie EXCEPT ![t] = nextToken]
      /\ \/ /\ asking' = [asking EXCEPT ![t] = nextToken]
            /\ thread' = [thread EXCEPT ![t] = "waits"]
         \/ UNCHANGED << thread, asking >>
      /\ UNCHANGED << results, generation, peer, nextGeneration >>
  BY DEF AskAndSleep, AskAndGoOn, LaunchFails, Install, storeVars, socketVars
<1>3. TypeOK'
  BY <1>1, <1>2 DEF IInv, TypeOK
<1>4. TokensAreOld'
  BY <1>1, <1>2 DEF IInv, TypeOK, TokensAreOld
<1>5. AskingApart'
  BY <1>2 DEF IInv, TypeOK, TokensAreOld, AskingApart
<1>6. FrameIsOwn'
  BY <1>2 DEF IInv, TypeOK, FrameIsOwn
<1>7. WokenHasAnswer'
  BY <1>2 DEF IInv, TypeOK, WokenHasAnswer
<1>8. PeerIsOfThisSocket'
  BY <1>2 DEF IInv, PeerIsOfThisSocket
<1> QED
  BY <1>3, <1>4, <1>5, <1>6, <1>7, <1>8 DEF IInv

\* The answer that a thread takes is not another thread's.
LEMMA TakeResultStep ==
  ASSUME IInv, NEW t \in Thread, TakeResult(t)
  PROVE  IInv'
<1>1. UnderWay' = UnderWay
  BY DEF TakeResult, UnderWay
<1>2. TypeOK' /\ TokensAreOld' /\ AskingApart' /\ FrameIsOwn'
  BY <1>1 DEF IInv, TypeOK, TakeResult, socketVars, TokensAreOld, AskingApart, FrameIsOwn
<1>3. WokenHasAnswer'
  BY DEF IInv, TypeOK, TakeResult, AskingApart, FrameIsOwn, WokenHasAnswer
<1>4. PeerIsOfThisSocket'
  BY DEF IInv, TakeResult, socketVars, PeerIsOfThisSocket
<1> QED
  BY <1>2, <1>3, <1>4 DEF IInv

\* What else happens to a thread: it is woken by nobody there.
LEMMA ThreadGoesStep ==
  ASSUME IInv, NEW t \in Thread,
         OSCancelThread(t) \/ OSCreateThread(t) \/ SleepElsewhere(t) \/ WakeElsewhere(t)
  PROVE  IInv'
<1>1. /\ \E s \in {"runs", "elsewhere", "dead"} : thread' = [thread EXCEPT ![t] = s]
      /\ asking' = [asking EXCEPT ![t] = 0] \/ asking' = asking
      /\ UNCHANGED << cookie, nextToken, storeVars, socketVars >>
  BY DEF OSCancelThread, OSCreateThread, SleepElsewhere, WakeElsewhere
<1>2. UnderWay' = UnderWay
  BY <1>1 DEF storeVars, UnderWay
<1>3. TypeOK' /\ TokensAreOld' /\ AskingApart' /\ FrameIsOwn'
  BY <1>1, <1>2 DEF IInv, TypeOK, socketVars, TokensAreOld, AskingApart, FrameIsOwn
<1>4. WokenHasAnswer' /\ PeerIsOfThisSocket'
  BY <1>1 DEF IInv, TypeOK, WokenHasAnswer, PeerIsOfThisSocket, storeVars, socketVars
<1> QED
  BY <1>3, <1>4 DEF IInv

\* Sockets come and go, and a descriptor has the peer of its own socket.
LEMMA SocketStepInvariant ==
  ASSUME IInv, NEW fd \in Socket, SocketStep(fd)
  PROVE  IInv'
<1>1. /\ UNCHANGED << thread, asking, cookie, nextToken, results >>
      /\ UnderWay' \subseteq UnderWay \cup Aborted(fd)
  BY DEF SocketStep, SocketOpens, SocketCloses, SocketShutsDown, SocketReconnects, threadVars,
         storeVars, UnderWay
<1>2. UnderWay' \subseteq Request /\ \A r \in UnderWay' : r.token < nextToken
  BY <1>1, AbortedType DEF IInv, TypeOK, TokensAreOld
<1>3. /\ generation' \in [Socket -> Nat] /\ peer' \in [Socket -> Nat]
      /\ nextGeneration' \in Nat \ {0}
      /\ PeerIsOfThisSocket'
  BY DEF IInv, TypeOK, PeerIsOfThisSocket, SocketStep, SocketOpens, SocketCloses,
         SocketShutsDown, SocketReconnects, socketVars
<1>4. TypeOK' /\ TokensAreOld'
  BY <1>1, <1>2, <1>3 DEF IInv, TypeOK, TokensAreOld
<1>5. AskingApart' /\ FrameIsOwn' /\ WokenHasAnswer'
  BY <1>1 DEF IInv, AskingApart, FrameIsOwn, WokenHasAnswer
<1> QED
  BY <1>3, <1>4, <1>5 DEF IInv

\* The workers, the timeouts and the asynchronous requests.
LEMMA HostStepInvariant ==
  ASSUME IInv, AskAsync \/ WorkerPublishes \/ WorkerGivesUp \/ Expires
  PROVE  IInv'
<1>1. /\ UNCHANGED << thread, asking, cookie, results, generation, peer, nextGeneration >>
      /\ nextToken' \in Nat \ {0} /\ nextToken' >= nextToken
      /\ UnderWay' \subseteq Request
      /\ \A q \in UnderWay' : q.token < nextToken'
  <2>1. CASE AskAsync
    <3>1. PICK r \in Requests(NoThread) : Install(r)
      BY <2>1 DEF AskAsync
    <3>2. UNCHANGED << thread, asking, cookie, results, generation, peer, nextGeneration >>
      BY <2>1, <3>1 DEF AskAsync, threadVars, Install, socketVars
    <3>3. nextToken \in Nat
      BY DEF IInv, TypeOK
    <3>4. /\ nextToken' \in Nat \ {0} /\ nextToken' = nextToken + 1
          /\ UnderWay' \subseteq Request
          /\ \A q \in UnderWay' : q.token < nextToken'
      BY <3>1, InstallStep
    <3> QED
      BY <3>2, <3>3, <3>4
  <2>2. CASE WorkerPublishes \/ WorkerGivesUp \/ Expires
    <3>1. /\ UNCHANGED << thread, asking, cookie, results, generation, peer, nextGeneration,
                          nextToken >>
          /\ UnderWay' \subseteq UnderWay
      BY <2>2 DEF WorkerPublishes, WorkerGivesUp, Expires, threadVars, socketVars, UnderWay
    <3> QED
      BY <3>1 DEF IInv, TypeOK, TokensAreOld
  <2> QED
    BY <2>1, <2>2
<1>2. TypeOK' /\ TokensAreOld'
  BY <1>1 DEF IInv, TypeOK, TokensAreOld
<1>3. AskingApart' /\ FrameIsOwn' /\ WokenHasAnswer' /\ PeerIsOfThisSocket'
  BY <1>1 DEF IInv, AskingApart, FrameIsOwn, WokenHasAnswer, PeerIsOfThisSocket
<1> QED
  BY <1>2, <1>3 DEF IInv

\* What the pump writes when it has chosen what is settled.
Settles(settled, recorded) ==
  LET answered == {r \in completed : Answerable(r)} \cup settled
      sync == {r \in answered : r.thread # NoThread}
      woken == {r.thread : r \in sync}
  IN
  /\ completed' = {}
  /\ polls' = {r \in polls \ settled : Answerable(r)}
  /\ connects' = {r \in connects \ settled : Answerable(r)}
  /\ results' = results \cup {r.token : r \in sync}
  /\ thread' = [t \in Thread |-> IF t \in woken THEN "woken" ELSE thread[t]]
  /\ peer' = [fd \in Socket |->
                IF \E r \in recorded : r.fd = fd
                THEN (CHOOSE r \in recorded : r.fd = fd).generation
                ELSE peer[fd]]
  /\ UNCHANGED << asking, cookie, nextToken, resolving, generation, nextGeneration >>

\* The pump stores the answer of every thread that it wakes, and records a
\* connect on the socket it was made for.
LEMMA PumpStep ==
  ASSUME IInv, ProcessCompletions
  PROVE  /\ IInv'
         /\ \A k \in results' \ results :
              \E t \in Thread : thread[t] = "waits" /\ asking[t] = k
<1>1. \E settled \in SUBSET {r \in polls \cup connects : Answerable(r)} :
      \E recorded \in SUBSET {r \in settled : r.kind = "connect" /\ MayRecord(r)} :
        Settles(settled, recorded)
  BY Zenon DEF ProcessCompletions, Settles
<1>2. PICK settled \in SUBSET {r \in polls \cup connects : Answerable(r)} :
      \E recorded \in SUBSET {r \in settled : r.kind = "connect" /\ MayRecord(r)} :
        Settles(settled, recorded)
  BY <1>1
<1>3. PICK recorded \in SUBSET {r \in settled : r.kind = "connect" /\ MayRecord(r)} :
        Settles(settled, recorded)
  BY <1>2
<1> DEFINE sync == {r \in {q \in completed : Answerable(q)} \cup settled : r.thread # NoThread}
<1>4. \A r \in sync : r.thread \in Thread /\ thread[r.thread] = "waits"
                                          /\ asking[r.thread] = r.token
  BY AnsweredWaits DEF UnderWay
<1>5. /\ results' = results \cup {r.token : r \in sync}
      /\ \A t \in Thread : \/ thread'[t] = thread[t]
                           \/ /\ thread'[t] = "woken"
                              /\ \E r \in sync : r.thread = t
      /\ thread' \in [Thread -> {"runs", "waits", "woken", "elsewhere", "dead"}]
  BY <1>3 DEF IInv, TypeOK, Settles
<1> HIDE DEF sync
<1>6. \A fd \in Socket : peer'[fd] \in {peer[fd], generation[fd]}
  <2> SUFFICES ASSUME NEW fd \in Socket, \E r \in recorded : r.fd = fd
               PROVE  (CHOOSE r \in recorded : r.fd = fd).generation = generation[fd]
    BY <1>3 DEF Settles
  <2>1. PICK r \in recorded : r.fd = fd /\ r = CHOOSE q \in recorded : q.fd = fd
    OBVIOUS
  <2> QED
    BY <2>1 DEF MayRecord, SocketIdentityIsCurrent
<1>7. UnderWay' \subseteq UnderWay
  BY <1>3 DEF UnderWay, Settles
<1>8. peer' \in [Socket -> Nat]
  <2>1. \A fd \in Socket : peer'[fd] \in Nat
    BY <1>6 DEF IInv, TypeOK
  <2> QED
    BY <1>3, <2>1 DEF Settles
<1>9. TypeOK'
  BY <1>3, <1>5, <1>7, <1>8 DEF IInv, TypeOK, Settles
<1>10. TokensAreOld' /\ AskingApart'
  BY <1>3, <1>7 DEF IInv, TokensAreOld, AskingApart, Settles
<1>11. FrameIsOwn' /\ WokenHasAnswer'
  BY <1>3, <1>4, <1>5 DEF IInv, FrameIsOwn, WokenHasAnswer, Settles
<1>12. PeerIsOfThisSocket'
  BY <1>3, <1>6 DEF IInv, PeerIsOfThisSocket, Settles
<1>13. \A k \in results' \ results :
         \E t \in Thread : thread[t] = "waits" /\ asking[t] = k
  BY <1>4, <1>5
<1> QED
  BY <1>9, <1>10, <1>11, <1>12, <1>13 DEF IInv

LEMMA NextInvariant == IInv /\ [Next]_vars => IInv'
<1> SUFFICES ASSUME IInv, [Next]_vars
             PROVE  IInv'
  OBVIOUS
<1>1. CASE UNCHANGED vars
  BY <1>1 DEF IInv, TypeOK, TokensAreOld, AskingApart, FrameIsOwn, WokenHasAnswer,
              PeerIsOfThisSocket, UnderWay, vars, threadVars, storeVars, socketVars
<1>2. CASE \E t \in Thread : ThreadStep(t)
  BY <1>2, AskStep, TakeResultStep, ThreadGoesStep DEF ThreadStep
<1>3. CASE \E fd \in Socket : SocketStep(fd)
  BY <1>3, SocketStepInvariant
<1>4. CASE AskAsync \/ WorkerPublishes \/ WorkerGivesUp \/ Expires
  BY <1>4, HostStepInvariant
<1>5. CASE ProcessCompletions
  BY <1>5, PumpStep
<1> QED
  BY <1>1, <1>2, <1>3, <1>4, <1>5 DEF Next

\* Nothing but the pump adds a result.
LEMMA OnlyPumpAnswers ==
  ASSUME [Next]_vars, ~ ProcessCompletions
  PROVE  results' \subseteq results
<1>1. CASE UNCHANGED vars
  BY <1>1 DEF vars, storeVars
<1>2. CASE \E t \in Thread : ThreadStep(t)
  BY <1>2 DEF ThreadStep, AskAndSleep, AskAndGoOn, LaunchFails, TakeResult, OSCancelThread,
              OSCreateThread, SleepElsewhere, WakeElsewhere, Install, storeVars
<1>3. CASE \E fd \in Socket : SocketStep(fd)
  BY <1>3 DEF SocketStep, SocketOpens, SocketCloses, SocketShutsDown, SocketReconnects, storeVars
<1>4. CASE AskAsync \/ WorkerPublishes \/ WorkerGivesUp \/ Expires
  BY <1>4 DEF AskAsync, WorkerPublishes, WorkerGivesUp, Expires, Install
<1> QED
  BY <1>1, <1>2, <1>3, <1>4 DEF Next

-----------------------------------------------------------------------------
(* The theorems.                                                           *)

LEMMA InvariantHolds == Spec => []IInv
BY InitInvariant, NextInvariant, PTL DEF Spec

\* A thread that the pump has woken finds the answer to its own request,
\* although threads are cancelled and created again on the same stacks.
THEOREM WokenFindAnswers == Spec => []WokenHasAnswer
<1>1. IInv => WokenHasAnswer
  BY DEF IInv
<1> QED
  BY <1>1, InvariantHolds, PTL

\* The pump answers requests whose thread still waits for them, and no others:
\* the address of the wait queue and the cookie beside it tell the requests of
\* one stack apart.
THEOREM AbandonedAreNotAnswered == Spec => AnswersOnlyWaiters
<1>1. IInv /\ [Next]_vars =>
        [\A k \in results' \ results :
           \E t \in Thread : thread[t] = "waits" /\ asking[t] = k]_vars
  BY PumpStep, OnlyPumpAnswers
<1> QED
  BY <1>1, InvariantHolds, PTL DEF Spec, AnswersOnlyWaiters

\* A socket has the peer that it was connected to itself, although its descriptor
\* was another socket's when the connect was made.
THEOREM PeersAreOwn == Spec => []PeerIsOfThisSocket
<1>1. IInv => PeerIsOfThisSocket
  BY DEF IInv
<1> QED
  BY <1>1, InvariantHolds, PTL
=============================================================================
