--------------------------- MODULE DeferredNetwork ---------------------------
(***************************************************************************)
(* Network requests that may block, network_deferred.cpp.  A guest thread  *)
(* that asks for a name, a poll or a connect is parked on a wait queue in  *)
(* a frame of its own stack; resolver workers and the probes of the        *)
(* completion pump find the answer, and the pump stores it and wakes the   *)
(* thread.  An asynchronous request has a callback in place of a thread.   *)
(*                                                                         *)
(* Threads and their stacks are reused: a thread can be cancelled while    *)
(* its request is under way and the next one on the same stack has its     *)
(* wait queue at the same address.  File descriptors of sockets are reused *)
(* as well; a generation tells one socket from the next.                   *)
(***************************************************************************)
EXTENDS Integers, FiniteSets

CONSTANTS
  Thread,       (* OSThread blocks                                         *)
  Socket,       (* socket descriptors of the guest                         *)
  NoThread,     (* in place of the thread of an asynchronous request       *)
  NoSocket,     (* in place of the socket of other requests than connects  *)
  MaxToken,     (* bound: requests in a behaviour                          *)
  MaxGeneration (* bound: sockets in a behaviour                           *)

ASSUME NetworkConstants ==
  /\ NoThread \notin Thread
  /\ NoSocket \notin Socket
  /\ MaxToken \in Nat
  /\ MaxGeneration \in Nat

VARIABLES
  thread,       (* what each thread does: "runs", "waits" on the queue of  *)
                (* its frame, "woken" from it, "elsewhere", waiting on     *)
                (* another queue, or "dead"                                *)
  asking,       (* the token a thread has got for its request, 0 if none   *)
  cookie,       (* the token beside the wait queue on each thread's stack  *)
  nextToken,    (* DeferredNetworkStore.nextToken                          *)
  resolving,    (* requests that resolver workers work on                  *)
  completed,    (* DeferredNetworkStore.completed                          *)
  polls,        (* DeferredNetworkStore.pendingPolls                       *)
  connects,     (* DeferredNetworkStore.pendingConnects                    *)
  expired,      (* the requests whose timeout has passed                   *)
  results,      (* DeferredNetworkStore.syncResults                        *)
  called,       (* the asynchronous requests whose callback was queued     *)
  lost,         (* the requests whose worker could not publish             *)
  generation,   (* WiiSocket.generation, 0 for a descriptor not in use     *)
  peer,         (* WiiSocket.peerAddr, named by the generation of the      *)
                (* socket that was connected to it; 0 for none             *)
  nextGeneration (* g_nextSocketGeneration                                 *)

threadVars == << thread, asking, cookie >>
storeVars == << resolving, completed, polls, connects, expired, results, called, lost >>
socketVars == << generation, peer, nextGeneration >>
vars == << threadVars, nextToken, storeVars, socketVars >>

-----------------------------------------------------------------------------
(* Requests.  A "wait" is a poll without a timeout.  The asynchronous ones *)
(* have no token in the code; here their number only tells them apart.     *)

Kind == {"name", "poll", "wait", "connect"}

Request == [token : 1 .. MaxToken, kind : Kind, thread : Thread \cup {NoThread},
            fd : Socket \cup {NoSocket}, generation : 0 .. MaxGeneration,
            initial : {"none", "done", "failed"}]

\* Every request that somebody still works on.
UnderWay == resolving \cup completed \cup polls \cup connects

SocketIdentityIsCurrent(r) == generation[r.fd] = r.generation

\* Mutant: the cookie is not compared.
WaitsAtThatAddress(r) == thread[r.thread] = "waits"

\* Mutant: only the memory is compared.
CookieIsThere(r) == cookie[r.thread] = r.token

\* DeferredNetworkWaiterIsValid.
WaiterIsValid(r) == thread[r.thread] = "waits" /\ cookie[r.thread] = r.token

Answerable(r) == r.thread = NoThread \/ WaiterIsValid(r)

-----------------------------------------------------------------------------
(* Submission.                                                             *)

\* The requests that guest code can make: a connect is for a socket in use.  A
\* connect is issued at once, and may have settled there and then.
Requests(t) ==
  {r \in Request :
     /\ r.token = nextToken
     /\ r.thread = t
     /\ IF r.kind = "connect"
        THEN r.fd # NoSocket /\ generation[r.fd] # 0 /\ SocketIdentityIsCurrent(r)
        ELSE r.fd = NoSocket /\ r.generation = 0 /\ r.initial = "none"}

Install(r) ==
  /\ nextToken <= MaxToken
  /\ nextToken' = nextToken + 1
  /\ resolving' = IF r.kind = "name" THEN resolving \cup {r} ELSE resolving
  /\ polls' = IF r.kind \in {"poll", "wait"} THEN polls \cup {r} ELSE polls
  /\ connects' = IF r.kind = "connect" THEN connects \cup {r} ELSE connects
  /\ UNCHANGED << completed, expired, results, called, lost, socketVars >>

\* The thread asks and goes to sleep; nothing is pumped in between.
AskAndSleep(t) ==
  /\ thread[t] = "runs"
  /\ \E r \in Requests(t) : Install(r)
  /\ cookie' = [cookie EXCEPT ![t] = nextToken]
  /\ asking' = [asking EXCEPT ![t] = nextToken]
  /\ thread' = [thread EXCEPT ![t] = "waits"]

\* OSSleepThread refuses; there is no result to take and the thread goes on with
\* an error, while the request is under way.
AskAndGoOn(t) ==
  /\ thread[t] = "runs"
  /\ \E r \in Requests(t) : Install(r)
  /\ cookie' = [cookie EXCEPT ![t] = nextToken]
  /\ UNCHANGED << thread, asking >>

\* The worker cannot be started: the error is immediate.
LaunchFails(t) ==
  /\ thread[t] = "runs"
  /\ nextToken <= MaxToken
  /\ nextToken' = nextToken + 1
  /\ cookie' = [cookie EXCEPT ![t] = nextToken]
  /\ UNCHANGED << thread, asking, storeVars, socketVars >>

AskAsync ==
  /\ \E r \in Requests(NoThread) : Install(r)
  /\ UNCHANGED threadVars

\* TakeSyncResult, by the thread that has been woken.
TakeResult(t) ==
  /\ thread[t] = "woken"
  /\ results' = results \ {asking[t]}
  /\ asking' = [asking EXCEPT ![t] = 0]
  /\ thread' = [thread EXCEPT ![t] = "runs"]
  /\ UNCHANGED << cookie, nextToken, resolving, completed, polls, connects, expired, called,
                  lost, socketVars >>

-----------------------------------------------------------------------------
(* The resolver workers and the host's network.                            *)

WorkerPublishes ==
  /\ \E r \in resolving : resolving' = resolving \ {r} /\ completed' = completed \cup {r}
  /\ UNCHANGED << threadVars, nextToken, polls, connects, expired, results, called, lost,
                  socketVars >>

\* Neither the result nor the failure can be queued: the request is dropped.
WorkerGivesUp ==
  /\ \E r \in resolving : resolving' = resolving \ {r} /\ lost' = lost \cup {r.token}
  /\ UNCHANGED << threadVars, nextToken, completed, polls, connects, expired, results, called,
                  socketVars >>

Expires ==
  /\ \E r \in polls \cup connects :
       r.kind # "wait" /\ r.token \notin expired /\ expired' = expired \cup {r.token}
  /\ UNCHANGED << threadVars, nextToken, resolving, completed, polls, connects, results,
                  called, lost, socketVars >>

-----------------------------------------------------------------------------
(* The completion pump.                                                    *)

\* Mutant: timeouts are not looked at.
MustSettleUntimed(r) ==
  r.kind = "connect" /\ (r.initial # "none" \/ ~ SocketIdentityIsCurrent(r))

\* What a probe finds settled whatever the network does.
MustSettle(r) ==
  \/ r.token \in expired
  \/ r.kind = "connect" /\ (r.initial # "none" \/ ~ SocketIdentityIsCurrent(r))

\* Mutant: success is recorded for the descriptor.
RecordedForDescriptor(r) == r.initial # "failed"

\* A connect that succeeds is recorded on the socket if it is still that one; a
\* request that was settled or that outlived its socket has its result.
MayRecord(r) == r.initial # "failed" /\ SocketIdentityIsCurrent(r)

\* MustRecord: the connect succeeded when it was issued.
MustRecord(r) == r.initial = "done" /\ MayRecord(r)

\* Answers go to those that still wait: first the names, then the polls and the
\* connects that are settled.  The others stay, but for those nobody waits for.
ProcessCompletions ==
  \E settled \in SUBSET {r \in polls \cup connects : Answerable(r)} :
  \E recorded \in SUBSET {r \in settled : r.kind = "connect" /\ MayRecord(r)} :
    LET answered == {r \in completed : Answerable(r)} \cup settled
        sync == {r \in answered : r.thread # NoThread}
        woken == {r.thread : r \in sync}
    IN
    /\ \A r \in polls \cup connects : Answerable(r) /\ MustSettle(r) => r \in settled
    /\ \A r \in settled : r.kind = "connect" /\ MustRecord(r) => r \in recorded
    /\ completed' = {}
    /\ polls' = {r \in polls \ settled : Answerable(r)}
    /\ connects' = {r \in connects \ settled : Answerable(r)}
    /\ results' = results \cup {r.token : r \in sync}
    /\ called' = called \cup {r.token : r \in answered \ sync}
    /\ thread' = [t \in Thread |-> IF t \in woken THEN "woken" ELSE thread[t]]
    /\ peer' = [fd \in Socket |->
                  IF \E r \in recorded : r.fd = fd
                  THEN (CHOOSE r \in recorded : r.fd = fd).generation
                  ELSE peer[fd]]
    /\ UNCHANGED << asking, cookie, nextToken, resolving, expired, lost, generation,
                    nextGeneration >>

-----------------------------------------------------------------------------
(* Sockets.                                                                *)

\* AddWiiSocket, in a descriptor that is free.
SocketOpens(fd) ==
  /\ generation[fd] = 0
  /\ nextGeneration <= MaxGeneration
  /\ generation' = [generation EXCEPT ![fd] = nextGeneration]
  /\ peer' = [peer EXCEPT ![fd] = 0]
  /\ nextGeneration' = nextGeneration + 1
  /\ UNCHANGED << threadVars, nextToken, storeVars >>

\* AbortPendingDeferredConnects.
Aborted(fd) ==
  {IF r.fd = fd /\ r.initial = "none" THEN [r EXCEPT !.initial = "failed"] ELSE r :
     r \in connects}

\* DeleteWiiSocket.
SocketCloses(fd) ==
  /\ generation[fd] # 0
  /\ generation' = [generation EXCEPT ![fd] = 0]
  /\ peer' = [peer EXCEPT ![fd] = 0]
  /\ connects' = Aborted(fd)
  /\ UNCHANGED << threadVars, nextToken, resolving, completed, polls, expired, results,
                  called, lost, nextGeneration >>

\* The write half is shut down.
SocketShutsDown(fd) ==
  /\ generation[fd] # 0
  /\ connects' = Aborted(fd)
  /\ UNCHANGED << threadVars, nextToken, resolving, completed, polls, expired, results,
                  called, lost, socketVars >>

\* ReconnectWiiSocket: another host socket behind the same descriptor.
SocketReconnects(fd) ==
  /\ peer[fd] # 0
  /\ nextGeneration <= MaxGeneration
  /\ generation' = [generation EXCEPT ![fd] = nextGeneration]
  /\ peer' = [peer EXCEPT ![fd] = nextGeneration]
  /\ nextGeneration' = nextGeneration + 1
  /\ UNCHANGED << threadVars, nextToken, storeVars >>

-----------------------------------------------------------------------------
(* What else happens to threads.                                           *)

OSCancelThread(t) ==
  /\ thread[t] # "dead"
  /\ thread' = [thread EXCEPT ![t] = "dead"]
  /\ asking' = [asking EXCEPT ![t] = 0]
  /\ UNCHANGED << cookie, nextToken, storeVars, socketVars >>

\* On the same block and the same stack, whose memory nobody clears.
OSCreateThread(t) ==
  /\ thread[t] = "dead"
  /\ thread' = [thread EXCEPT ![t] = "runs"]
  /\ UNCHANGED << asking, cookie, nextToken, storeVars, socketVars >>

SleepElsewhere(t) ==
  /\ thread[t] = "runs"
  /\ thread' = [thread EXCEPT ![t] = "elsewhere"]
  /\ UNCHANGED << asking, cookie, nextToken, storeVars, socketVars >>

WakeElsewhere(t) ==
  /\ thread[t] = "elsewhere"
  /\ thread' = [thread EXCEPT ![t] = "runs"]
  /\ UNCHANGED << asking, cookie, nextToken, storeVars, socketVars >>

-----------------------------------------------------------------------------
Init ==
  /\ thread = [t \in Thread |-> "runs"]
  /\ asking = [t \in Thread |-> 0]
  /\ cookie = [t \in Thread |-> 0]
  /\ nextToken = 1
  /\ resolving = {} /\ completed = {} /\ polls = {} /\ connects = {}
  /\ expired = {} /\ results = {} /\ called = {} /\ lost = {}
  /\ generation = [fd \in Socket |-> 0]
  /\ peer = [fd \in Socket |-> 0]
  /\ nextGeneration = 1

ThreadStep(t) ==
  \/ AskAndSleep(t) \/ AskAndGoOn(t) \/ LaunchFails(t) \/ TakeResult(t)
  \/ OSCancelThread(t) \/ OSCreateThread(t) \/ SleepElsewhere(t) \/ WakeElsewhere(t)

SocketStep(fd) ==
  SocketOpens(fd) \/ SocketCloses(fd) \/ SocketShutsDown(fd) \/ SocketReconnects(fd)

Next ==
  \/ \E t \in Thread : ThreadStep(t)
  \/ \E fd \in Socket : SocketStep(fd)
  \/ AskAsync \/ WorkerPublishes \/ WorkerGivesUp \/ Expires \/ ProcessCompletions

Spec == Init /\ [][Next]_vars

\* What the pump does whatever the network says.
PumpHasWork ==
  \/ completed # {}
  \/ \E r \in polls \cup connects : Answerable(r) => MustSettle(r)

\* Workers end, time passes, and the scheduler pumps again and again.  That the
\* network ever answers is not assumed.
FairSpec ==
  /\ Spec
  /\ WF_vars(WorkerPublishes \/ WorkerGivesUp)
  /\ WF_vars(Expires)
  /\ WF_vars(PumpHasWork /\ ProcessCompletions)

-----------------------------------------------------------------------------
(* Properties.                                                             *)

\* A thread that the pump has woken finds the answer to its own request, never
\* one that an earlier request of the same thread, or of a thread that had the
\* same stack, has left.
WokenHasAnswer == \A t \in Thread : thread[t] = "woken" => asking[t] \in results

\* The pump answers, and writes the output of, requests whose thread waits for
\* them, and no others: the memory of an abandoned request may be in use.
AnswersOnlyWaiters ==
  [][\A k \in results' \ results :
       \E t \in Thread : thread[t] = "waits" /\ asking[t] = k]_vars

\* A connect is recorded on the socket it was made for, although the descriptor
\* may be another socket's by the time the connect is settled.
PeerIsOfThisSocket == \A fd \in Socket : peer[fd] \in {0, generation[fd]}

\* Every request ends that can: the thread does not go on waiting for it, unless
\* it is a poll without a timeout or the worker could not even report failure.
Unanswerable(k) == k \in lost \/ \E r \in polls : r.token = k /\ r.kind = "wait"

Waits(k) == \E t \in Thread : thread[t] = "waits" /\ asking[t] = k

RequestsEnd ==
  \A k \in 1 .. MaxToken : Waits(k) ~> (~ Waits(k) \/ Unanswerable(k))
=============================================================================
