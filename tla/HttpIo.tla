-------------------------------- MODULE HttpIo --------------------------------
(***************************************************************************)
(* HTTPServer2 (Common/HTTP Server/HTTPServer2.cpp): the receives it keeps *)
(* posted on the request queue of http.sys, the callbacks in which they    *)
(* are routed and answered, the two pools of I/O contexts, and how the     *)
(* owner's thread starts and ends it.                                      *)
(*                                                                         *)
(* Abstractions.  The constructor has succeeded.  A request is its number, *)
(* of a kind: "api" is answered by a handler (or with a 404), "file" from  *)
(* the document root, "big" has headers that do not fit the buffer.  Which *)
(* endpoint a URL names, the texts and the headers are left out.  http.sys *)
(* and the thread pool are external: of the pool's own count of the I/O    *)
(* it was told of (StartThreadpoolIo) nothing is kept, because no wait of  *)
(* the model depends on it; see SendFile and WaitReturns.                  *)
(***************************************************************************)
EXTENDS Integers, Sequences, FiniteSets

CONSTANTS
  NSlots,        \* the receives Start posts: REQUESTS_PER_PROCESSOR of each processor
  IoRequests,    \* HTTP_IOREQUEST_INTERNALs there is memory for (a bound)
  IoReplies,     \* HTTP_IORESPONSEs there is memory for (a bound)
  NoReply,       \* none of them
  Kinds,         \* the kinds of requests that arrive
  MaxRequests,   \* bound: requests
  MaxFaults      \* bound: calls and receives that fail

ASSUME ConstantsAssumption ==
  /\ NSlots \in Nat \ {0} /\ NoReply \notin IoReplies
  /\ Kinds \subseteq {"api", "file", "big"}
  /\ MaxRequests \in Nat /\ MaxFaults \in Nat

VARIABLES
  owner,         \* the owner's thread: "ready", "posting", "stop", "cancel", "wait", "uninit", "gone"
  inStart,       \* Start is under way, and holds m_configMutex
  started,       \* m_Started
  toPost,        \* wRequestsCounter
  bStopServer,
  queue,         \* hRequestQueue: "open", "shut" or "closed"
  kind,          \* kind[n]: the requests that came
  arrived,       \* those http.sys still holds
  st,            \* st[c]: a receive is "none", "pending", or "done", or its callback's step
  got, res,      \* got[c], res[c]: the request in the buffer, and IoResult
  mine,          \* mine[c]: pIoResponse
  usedReq,       \* used_http_io_requests
  freeReq,       \* free_http_io_requests
  sending,       \* sending[r]: the send of r is "none", "pending" or "done"
  usedRep,       \* used_http_io_replies
  freeRep,       \* free_http_io_replies
  sends,         \* history: sends[n], the responses request n was sent
  lostSlots,     \* history: receives that could not be posted
  kept,          \* history: replies whose file was sent
  faults

ownerVars == <<owner, inStart, started, toPost>>
netVars == <<kind, arrived>>
reqVars == <<got, res, mine>>
reqPool == <<usedReq, freeReq>>
repPool == <<sending, usedRep, freeRep>>
vars == <<ownerVars, bStopServer, queue, netVars, st, reqVars, reqPool, repPool, sends,
          lostSlots, kept, faults>>

Init ==
  /\ owner = "ready" /\ inStart = FALSE /\ started = FALSE /\ toPost = NSlots
  /\ bStopServer = FALSE /\ queue = "open"
  /\ kind = <<>> /\ arrived = <<>>
  /\ st = [c \in IoRequests |-> "none"]
  /\ got = [c \in IoRequests |-> 0] /\ res = [c \in IoRequests |-> "ok"]
  /\ mine = [c \in IoRequests |-> NoReply]
  /\ usedReq = {} /\ freeReq = {}
  /\ sending = [r \in IoReplies |-> "none"] /\ usedRep = {} /\ freeRep = {}
  /\ sends = [n \in 1..MaxRequests |-> 0] /\ lostSlots = 0 /\ kept = {} /\ faults = 0

Fault == faults < MaxFaults /\ faults' = faults + 1

\* What try_pop brings from a pool, or make_shared where that is empty.
Allocatable(all, used, free) ==
  IF free # {} THEN free ELSE {x \in all \ used : x = CHOOSE y \in all \ used : TRUE}

-----------------------------------------------------------------------------
(* http.sys and the thread pool.                                           *)

\* The URL is registered by the constructor: requests come before Start.
Arrives(k) ==
  /\ queue = "open" /\ Len(kind) < MaxRequests
  /\ kind' = Append(kind, k) /\ arrived' = Append(arrived, Len(kind'))
  /\ UNCHANGED <<ownerVars, bStopServer, queue, st, reqVars, reqPool, repPool, sends,
                 lostSlots, kept, faults>>

Fits(n) == IF kind[n] = "big" THEN "more" ELSE "ok"

Receives(c) ==
  /\ st[c] = "pending" /\ arrived # <<>>
  /\ got' = [got EXCEPT ![c] = Head(arrived)] /\ arrived' = Tail(arrived)
  /\ res' = [res EXCEPT ![c] = Fits(Head(arrived))]
  /\ st' = [st EXCEPT ![c] = "done"]
  /\ UNCHANGED <<ownerVars, bStopServer, queue, kind, mine, reqPool, repPool, sends,
                 lostSlots, kept, faults>>

ReceiveFails(c) ==
  /\ st[c] = "pending" /\ Fault
  /\ st' = [st EXCEPT ![c] = "done"] /\ res' = [res EXCEPT ![c] = "error"]
  /\ UNCHANGED <<ownerVars, bStopServer, queue, netVars, got, mine, reqPool, repPool, sends,
                 lostSlots, kept>>

SendEnds(r) ==
  /\ sending[r] = "pending" /\ owner # "gone"
  /\ sending' = [sending EXCEPT ![r] = "done"]
  /\ UNCHANGED <<ownerVars, bStopServer, queue, netVars, st, reqVars, reqPool, usedRep, freeRep,
                 sends, lostSlots, kept, faults>>

-----------------------------------------------------------------------------
(* The two callbacks.                                                      *)

Step(c, from, to) == st[c] = from /\ st' = [st EXCEPT ![c] = to]

\* IoCompletionCallback
Begin(c) ==
  /\ Step(c, "done", "check")
  /\ UNCHANGED <<ownerVars, bStopServer, queue, netVars, reqVars, reqPool, repPool, sends,
                 lostSlots, kept, faults>>

\* Seeded fault: a receive that did not succeed is put away.
ChecksResult(c) ==
  /\ Step(c, "check", IF bStopServer \/ res[c] # "ok" THEN "cleanup" ELSE "process")
  /\ UNCHANGED <<ownerVars, bStopServer, queue, netVars, reqVars, reqPool, repPool, sends,
                 lostSlots, kept, faults>>

\* ReceiveCompletionCallback
CheckStop(c) ==
  /\ Step(c, "check", IF bStopServer THEN "cleanup" ELSE "process")
  /\ UNCHANGED <<ownerVars, bStopServer, queue, netVars, reqVars, reqPool, repPool, sends,
                 lostSlots, kept, faults>>

\* ProcessReceiveAndPostResponse up to the switch over IoResult: a body that
\* cannot be read counts as too large, a receive that failed is answered nothing.
Process(c) ==
  \E r \in Allocatable(IoReplies, usedRep, freeRep) :
    \/ /\ res[c] = "error" /\ Step(c, "process", "repost")
       /\ freeRep' = freeRep \cup {r}
       /\ UNCHANGED <<mine, res, usedRep, faults>>
    \/ /\ res[c] # "error"
       /\ mine' = [mine EXCEPT ![c] = r]
       /\ usedRep' = usedRep \cup {r} /\ freeRep' = freeRep \ {r}
       /\ \/ res[c] = "ok" /\ Step(c, "process", "route") /\ UNCHANGED <<res, faults>>
          \/ res[c] = "ok" /\ Step(c, "process", "send")
             /\ res' = [res EXCEPT ![c] = "more"] /\ Fault
          \/ res[c] = "more" /\ Step(c, "process", "send") /\ UNCHANGED <<res, faults>>

ProcessReceive(c) ==
  /\ Process(c)
  /\ UNCHANGED <<ownerVars, bStopServer, queue, netVars, got, reqPool, sending, sends,
                 lostSlots, kept>>

\* Router needs m_configMutex, shared, and keeps it while the handler runs.
Route(c) ==
  /\ ~inStart /\ Step(c, "route", "handle")
  /\ UNCHANGED <<ownerVars, bStopServer, queue, netVars, reqVars, reqPool, repPool, sends,
                 lostSlots, kept, faults>>

Handled(c) ==
  /\ Step(c, "handle", "send")
  /\ UNCHANGED <<ownerVars, bStopServer, queue, netVars, reqVars, reqPool, repPool, sends,
                 lostSlots, kept, faults>>

CallFails == (queue # "open" /\ UNCHANGED faults) \/ Fault

\* CleanupHttpIoResponse
FreeReply(r) == usedRep' = usedRep \ {r} /\ freeRep' = freeRep \cup {r}

\* HttpSendHttpResponse for request n: asynchronous, or failed.
SendReply(n, r) ==
  /\ sends' = [sends EXCEPT ![n] = @ + 1]
  /\ \/ sending' = [sending EXCEPT ![r] = "pending"] /\ UNCHANGED faults
     \/ CallFails /\ UNCHANGED sending

\* The reply is the router's, and a file.
IsFile(c) == res[c] = "ok" /\ kind[got[c]] = "file"

\* Seeded fault: a response that could not be sent is sent again.
SendAgain(c) ==
  /\ st[c] = "send" /\ ~IsFile(c) /\ SendReply(got[c], mine[c])
  /\ IF sending' = sending
       THEN UNCHANGED <<st, mine, usedRep, freeRep>>
       ELSE /\ Step(c, "send", "repost") /\ mine' = [mine EXCEPT ![c] = NoReply]
            /\ UNCHANGED <<usedRep, freeRep>>
  /\ UNCHANGED <<ownerVars, bStopServer, queue, netVars, got, res, reqPool, lostSlots, kept>>

\* Seeded fault: the response is freed whatever came of the send.
SendThenFree(c) ==
  /\ Step(c, "send", "repost") /\ ~IsFile(c) /\ mine' = [mine EXCEPT ![c] = NoReply]
  /\ SendReply(got[c], mine[c]) /\ FreeReply(mine[c])
  /\ UNCHANGED <<ownerVars, bStopServer, queue, netVars, got, res, reqPool, lostSlots, kept>>

\* Seeded fault: a response that could not be sent is not freed.
SendNeverFrees(c) ==
  /\ Step(c, "send", "repost") /\ ~IsFile(c) /\ mine' = [mine EXCEPT ![c] = NoReply]
  /\ SendReply(got[c], mine[c]) /\ UNCHANGED <<usedRep, freeRep>>
  /\ UNCHANGED <<ownerVars, bStopServer, queue, netVars, got, res, reqPool, lostSlots, kept>>

Send(c) ==
  /\ Step(c, "send", "repost") /\ ~IsFile(c) /\ mine' = [mine EXCEPT ![c] = NoReply]
  /\ SendReply(got[c], mine[c])
  /\ IF sending' = sending THEN FreeReply(mine[c]) ELSE UNCHANGED <<usedRep, freeRep>>
  /\ UNCHANGED <<ownerVars, bStopServer, queue, netVars, got, res, reqPool, lostSlots, kept>>

\* A file is sent synchronously; its response is freed only when that fails.  The
\* pool was told of an I/O, which never completes and is not cancelled: one for
\* each reply in kept, for as long as the pool's object lives.
SendFile(c) ==
  /\ Step(c, "send", "repost") /\ IsFile(c) /\ mine' = [mine EXCEPT ![c] = NoReply]
  /\ sends' = [sends EXCEPT ![got[c]] = @ + 1]
  /\ \/ kept' = kept \cup {mine[c]} /\ UNCHANGED <<usedRep, freeRep, faults>>
     \/ CallFails /\ FreeReply(mine[c]) /\ UNCHANGED kept
  /\ UNCHANGED <<ownerVars, bStopServer, queue, netVars, got, res, reqPool, sending, lostSlots>>

\* HttpReceiveHttpRequest with a context from the pool: the receive is pending,
\* fails, or fails because the headers of the next request do not fit; then that
\* is answered at once.  After a failure the context goes back.
Posted(d) ==
  /\ queue = "open"
  /\ usedReq' = usedReq \cup {d} /\ freeReq' = freeReq \ {d}
  /\ got' = [got EXCEPT ![d] = 0] /\ res' = [res EXCEPT ![d] = "ok"]
  /\ UNCHANGED <<arrived, repPool, sends, lostSlots, faults>>

NotPosted(d) ==
  /\ freeReq' = freeReq \cup {d} /\ lostSlots' = lostSlots + 1
  /\ UNCHANGED <<usedReq, got, res>>
  /\ \/ CallFails /\ UNCHANGED <<arrived, repPool, sends>>
     \/ /\ queue = "open" /\ arrived # <<>> /\ kind[Head(arrived)] = "big"
        /\ arrived' = Tail(arrived)
        /\ \E r \in Allocatable(IoReplies, usedRep, freeRep) :
             /\ SendReply(Head(arrived), r)
             /\ IF sending' = sending
                  THEN freeRep' = freeRep \cup {r} /\ UNCHANGED usedRep
                  ELSE usedRep' = usedRep \cup {r} /\ freeRep' = freeRep \ {r}

\* PostNewReceive
Repost(c) ==
  /\ st[c] = "repost"
  /\ \E d \in Allocatable(IoRequests, usedReq, freeReq) :
       \/ Posted(d) /\ st' = [st EXCEPT ![c] = "cleanup", ![d] = "pending"]
       \/ NotPosted(d) /\ st' = [st EXCEPT ![c] = "cleanup"]
  /\ UNCHANGED <<ownerVars, bStopServer, queue, kind, mine, kept>>

\* CleanupHttpIoRequest.  (The buffer is cleared when the context is used again.)
Cleanup(c) ==
  /\ Step(c, "cleanup", "none")
  /\ usedReq' = usedReq \ {c} /\ freeReq' = freeReq \cup {c}
  /\ got' = [got EXCEPT ![c] = 0] /\ res' = [res EXCEPT ![c] = "ok"]
  /\ UNCHANGED <<ownerVars, bStopServer, queue, netVars, mine, repPool, sends, lostSlots,
                 kept, faults>>

\* SendCompletionCallback
SendCompletion(r) ==
  /\ sending[r] = "done" /\ sending' = [sending EXCEPT ![r] = "none"]
  /\ FreeReply(r)
  /\ UNCHANGED <<ownerVars, bStopServer, queue, netVars, st, reqVars, reqPool, sends,
                 lostSlots, kept, faults>>

-----------------------------------------------------------------------------
(* The owner's thread.                                                     *)

Start ==
  /\ owner = "ready" /\ ~started /\ toPost = NSlots
  /\ owner' = "posting" /\ inStart' = TRUE
  /\ UNCHANGED <<started, toPost, bStopServer, queue, netVars, st, reqVars, reqPool, repPool,
                 sends, lostSlots, kept, faults>>

\* StartServer: a receive that cannot be posted ends it.
Post ==
  /\ owner = "posting" /\ toPost > 0 /\ toPost' = toPost - 1
  /\ \E d \in Allocatable(IoRequests, usedReq, freeReq) :
       \/ Posted(d) /\ st' = [st EXCEPT ![d] = "pending"] /\ UNCHANGED owner
       \/ NotPosted(d) /\ owner' = "stop" /\ UNCHANGED st
  /\ UNCHANGED <<inStart, started, bStopServer, queue, kind, mine, kept>>

StartReturns ==
  /\ owner = "posting" /\ toPost = 0
  /\ owner' = "ready" /\ inStart' = FALSE /\ started' = TRUE
  /\ UNCHANGED <<toPost, bStopServer, queue, netVars, st, reqVars, reqPool, repPool, sends,
                 lostSlots, kept, faults>>

\* ~impl, after Start has returned.
Destroy ==
  /\ owner = "ready" /\ (started \/ bStopServer)
  /\ owner' = "stop"
  /\ UNCHANGED <<inStart, started, toPost, bStopServer, queue, netVars, st, reqVars, reqPool,
                 repPool, sends, lostSlots, kept, faults>>

\* StopServer: the receives that are pending end in an error, the requests
\* http.sys still holds are refused ...
StopServer ==
  /\ owner = "stop" /\ owner' = "cancel"
  /\ bStopServer' = TRUE /\ queue' = "shut" /\ arrived' = <<>>
  /\ st' = [c \in IoRequests |-> IF st[c] = "pending" THEN "done" ELSE st[c]]
  /\ res' = [c \in IoRequests |-> IF st[c] = "pending" THEN "error" ELSE res[c]]
  /\ UNCHANGED <<inStart, started, toPost, kind, got, mine, reqPool, repPool, sends, lostSlots,
                 kept, faults>>

\* ... WaitForThreadpoolIoCallbacks(Io, true) cancels the callbacks that have not
\* begun ...
CancelCallbacks ==
  /\ owner = "cancel" /\ owner' = "wait"
  /\ st' = [c \in IoRequests |-> IF st[c] = "done" THEN "none" ELSE st[c]]
  /\ sending' = [r \in IoReplies |-> IF sending[r] = "done" THEN "none" ELSE sending[r]]
  /\ UNCHANGED <<inStart, started, toPost, bStopServer, queue, netVars, reqVars, reqPool,
                 usedRep, freeRep, sends, lostSlots, kept, faults>>

NoCallback ==
  /\ \A c \in IoRequests : st[c] \in {"none", "pending"}
  /\ \A r \in IoReplies : sending[r] # "done"

AfterWait ==
  /\ owner = "wait" /\ owner' = IF inStart THEN "ready" ELSE "uninit"
  /\ inStart' = FALSE
  /\ UNCHANGED <<started, toPost, bStopServer, queue, netVars, st, reqVars, reqPool, repPool,
                 sends, lostSlots, kept, faults>>

\* Seeded fault: the callbacks are not waited for.
WaitsForNothing == AfterWait

\* Seeded fault: every context must have come back.
WaitsForReplies == NoCallback /\ usedRep = {} /\ AfterWait

\* ... and waits for those that run.  I/O that is pending is not waited for, and
\* neither is what was announced for a file and never completes.
WaitReturns == NoCallback /\ AfterWait

\* RemoveRequestURLs, UninitializeServerIo, UninitializeHttpServer; then the
\* pools are destroyed.
Uninitialize ==
  /\ owner = "uninit" /\ owner' = "gone"
  /\ queue' = "closed"
  /\ UNCHANGED <<inStart, started, toPost, bStopServer, netVars, st, reqVars, reqPool, repPool,
                 sends, lostSlots, kept, faults>>

-----------------------------------------------------------------------------
Callback(c) ==
  \/ Begin(c) \/ CheckStop(c) \/ ProcessReceive(c) \/ Route(c) \/ Handled(c)
  \/ Send(c) \/ SendFile(c) \/ Repost(c) \/ Cleanup(c)

Owner ==
  \/ Start \/ Post \/ StartReturns
  \/ StopServer \/ CancelCallbacks \/ WaitReturns \/ Uninitialize

Next ==
  \/ \E k \in Kinds : Arrives(k)
  \/ \E c \in IoRequests : Receives(c) \/ ReceiveFails(c) \/ Callback(c)
  \/ \E r \in IoReplies : SendEnds(r) \/ SendCompletion(r)
  \/ Owner \/ Destroy

Spec == Init /\ [][Next]_vars

\* The threads run, the handlers end, and http.sys hands over what came.  All
\* the steps are bounded, so that some step is taken while one can be is enough.
FairSpec ==
  /\ Spec
  /\ WF_vars(\/ Owner
             \/ \E c \in IoRequests : Receives(c) \/ Callback(c)
             \/ \E r \in IoReplies : SendCompletion(r))

-----------------------------------------------------------------------------
(* Properties.                                                             *)

Working == {"check", "process", "route", "handle", "send", "repost"}

TypeOK ==
  /\ owner \in {"ready", "posting", "stop", "cancel", "wait", "uninit", "gone"}
  /\ inStart \in BOOLEAN /\ started \in BOOLEAN /\ bStopServer \in BOOLEAN
  /\ toPost \in 0..NSlots /\ queue \in {"open", "shut", "closed"}
  /\ kind \in Seq(Kinds) /\ Len(kind) <= MaxRequests /\ arrived \in Seq(1..MaxRequests)
  /\ st \in [IoRequests -> Working \cup {"none", "pending", "done", "cleanup"}]
  /\ got \in [IoRequests -> 0..MaxRequests] /\ res \in [IoRequests -> {"ok", "more", "error"}]
  /\ mine \in [IoRequests -> IoReplies \cup {NoReply}]
  /\ usedReq \subseteq IoRequests /\ freeReq \subseteq IoRequests
  /\ sending \in [IoReplies -> {"none", "pending", "done"}]
  /\ usedRep \subseteq IoReplies /\ freeRep \subseteq IoReplies /\ kept \subseteq IoReplies
  /\ sends \in [1..MaxRequests -> Nat] /\ lostSlots \in Nat /\ faults \in 0..MaxFaults

\* "the share_ptr owner is used_http_io_requests so this should be safe": a
\* context that the kernel or a callback has is in the used map and not in the
\* pool, so nobody else is given it.
Owned ==
  /\ usedReq \cap freeReq = {} /\ usedRep \cap freeRep = {}
  /\ \A c \in IoRequests : st[c] # "none" => c \in usedReq
  /\ \A r \in IoReplies : sending[r] # "none" => r \in usedRep
  /\ \A c \in IoRequests : mine[c] # NoReply => mine[c] \in usedRep /\ sending[mine[c]] = "none"
  /\ \A c, d \in IoRequests : mine[c] = mine[d] /\ mine[c] # NoReply => c = d

\* While the server runs every context in use will come back to its pool; only
\* the replies of files that were sent stay out for ever.
GivenBack ==
  ~bStopServer =>
    /\ \A c \in usedReq : st[c] # "none"
    /\ \A r \in usedRep :
         r \in kept \/ sending[r] # "none" \/ \E c \in IoRequests : mine[c] = r

\* The server keeps as many receives posted as it began with, whatever comes of
\* the requests: one is lost only when it cannot be posted (and then for good).
SlotsKept ==
  (started \/ inStart) /\ ~bStopServer =>
    Cardinality({c \in IoRequests : st[c] \in Working \cup {"pending", "done"}})
      + lostSlots + toPost = NSlots

\* Nothing the server works with is used up by what comes.
NothingLeaks == GivenBack /\ SlotsKept

\* A request is answered by one response, and by nobody while it still waits.
AnsweredOnce ==
  \A n \in 1..Len(kind) :
    /\ sends[n] <= 1
    /\ sends[n] = 1 =>
         /\ \A i \in DOMAIN arrived : arrived[i] # n
         /\ \A c \in IoRequests :
              st[c] \in {"done"} \cup (Working \ {"repost"}) => got[c] # n

\* When the server is destroyed no handler runs, and none will begin: the boards
\* and the lock the handlers use may go.
QuietWhenGone ==
  owner \in {"uninit", "gone"} => \A c \in IoRequests : st[c] = "none"

\* Whatever comes is answered, as long as a slot is left and the server is not
\* told to stop: Start leaves nothing behind that came before it.
Served ==
  \A n \in 1..MaxRequests :
    (n <= Len(kind)) ~> (sends[n] = 1 \/ bStopServer \/ lostSlots >= NSlots)

\* The destructor returns, after the handlers that run have ended.
StopEnds == (owner = "stop" /\ ~inStart) ~> (owner = "gone")

\* Requests are answered while the server runs, and it can always be destroyed.
AllEnds == Served /\ StopEnds

\* "This call will block until all IO complete their callbacks.": Start makes it
\* too when it cannot post its receives, and then it ends.
WaitEnds == (owner = "wait") ~> (owner # "wait")

=============================================================================
