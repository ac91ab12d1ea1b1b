----------------------------- MODULE HttpIoProofs -----------------------------
(***************************************************************************)
(* Proofs about HttpIo, for any number of slots and contexts.              *)
(***************************************************************************)
EXTENDS HttpIo, FiniteSetTheorems, TLAPS

\* A callback between its allocation of a response and the send has one.
Holding == \A c \in IoRequests : st[c] \in {"route", "handle", "send"} => mine[c] # NoReply

\* Once the server is told to stop nothing can be posted, and nothing is.
Stopped ==
  /\ owner \in {"cancel", "wait", "uninit", "gone"} => bStopServer
  /\ bStopServer => queue # "open" /\ \A c \in IoRequests : st[c] # "pending"

\* Every action that neither posts nor ends a receive of another context moves
\* one context from a step to the next.
Steps == Working \cup {"none", "pending", "done", "cleanup"}

IInv == TypeOK /\ Holding /\ Owned /\ Stopped /\ QuietWhenGone

\* The initial states satisfy the invariant.
LEMMA InitIInv == Init => IInv
<1> SUFFICES ASSUME Init PROVE IInv
  OBVIOUS
<1>1. TypeOK
  <2>1. kind \in Seq(Kinds) /\ Len(kind) <= MaxRequests /\ arrived \in Seq(1..MaxRequests)
    BY ConstantsAssumption DEF Init
  <2>2. toPost \in 0..NSlots /\ faults \in 0..MaxFaults /\ lostSlots \in Nat
    BY ConstantsAssumption DEF Init
  <2>3. st \in [IoRequests -> Working \cup {"none", "pending", "done", "cleanup"}]
        /\ got \in [IoRequests -> 0..MaxRequests]
    BY ConstantsAssumption DEF Init
  <2>4. res \in [IoRequests -> {"ok", "more", "error"}]
        /\ mine \in [IoRequests -> IoReplies \cup {NoReply}]
        /\ sending \in [IoReplies -> {"none", "pending", "done"}]
        /\ sends \in [1..MaxRequests -> Nat]
    BY DEF Init
  <2> QED BY <2>1, <2>2, <2>3, <2>4 DEF Init, TypeOK
<1>2. Holding /\ Owned /\ Stopped /\ QuietWhenGone
  BY DEF Init, Holding, Owned, Stopped, QuietWhenGone
<1> QED BY <1>1, <1>2 DEF IInv

\* What a pool gives is nobody's.
LEMMA Fresh ==
  ASSUME NEW all, NEW used \in SUBSET all, NEW free \in SUBSET all, used \cap free = {},
         NEW x \in Allocatable(all, used, free)
  PROVE  x \in all /\ x \notin used
  BY DEF Allocatable

-----------------------------------------------------------------------------
(* The actions of http.sys.                                                *)

\* Requests that arrive, receives and sends that end.
LEMMA NetStep ==
  ASSUME IInv,
         \/ \E k \in Kinds : Arrives(k)
         \/ \E c \in IoRequests : Receives(c) \/ ReceiveFails(c)
         \/ \E r \in IoReplies : SendEnds(r)
  PROVE  IInv'
<1> USE ConstantsAssumption
<1>1. ASSUME NEW k \in Kinds, Arrives(k) PROVE IInv'
  <2> USE <1>1 DEF Arrives, ownerVars, reqVars, reqPool, repPool
  <2>1. TypeOK'
    <3>1. kind' \in Seq(Kinds) /\ Len(kind') = Len(kind) + 1 /\ Len(kind) \in Nat
      BY DEF IInv, TypeOK
    <3>2. arrived' \in Seq(1..MaxRequests)
      BY <3>1 DEF IInv, TypeOK
    <3> QED BY <3>1, <3>2 DEF IInv, TypeOK
  <2>2. Holding' /\ Owned' /\ Stopped' /\ QuietWhenGone'
    BY DEF IInv, Holding, Owned, Stopped, QuietWhenGone
  <2> QED BY <2>1, <2>2 DEF IInv
<1>2. ASSUME NEW c \in IoRequests, Receives(c) PROVE IInv'
  <2> USE <1>2 DEF Receives, ownerVars, reqPool, repPool
  <2>1. TypeOK'
    <3>1. Head(arrived) \in 1..MaxRequests /\ arrived' \in Seq(1..MaxRequests)
      BY DEF IInv, TypeOK
    <3>2. res' \in [IoRequests -> {"ok", "more", "error"}] /\ got' \in [IoRequests -> 0..MaxRequests]
      BY <3>1 DEF IInv, TypeOK, Fits
    <3>3. st' \in [IoRequests -> Steps]
      BY DEF IInv, TypeOK, Steps
    <3> QED BY <3>1, <3>2, <3>3 DEF IInv, TypeOK, Steps
  <2>2. Holding' /\ Owned' /\ Stopped' /\ QuietWhenGone'
    BY DEF IInv, TypeOK, Holding, Owned, Stopped, QuietWhenGone
  <2> QED BY <2>1, <2>2 DEF IInv
<1>3. ASSUME NEW c \in IoRequests, ReceiveFails(c) PROVE IInv'
  <2> USE <1>3 DEF ReceiveFails, Fault, ownerVars, netVars, reqPool, repPool
  <2>1. TypeOK'
    BY DEF IInv, TypeOK, Working
  <2>2. Holding' /\ Owned' /\ Stopped' /\ QuietWhenGone'
    BY DEF IInv, TypeOK, Holding, Owned, Stopped, QuietWhenGone
  <2> QED BY <2>1, <2>2 DEF IInv
<1>4. ASSUME NEW r \in IoReplies, SendEnds(r) PROVE IInv'
  <2> USE <1>4 DEF SendEnds, ownerVars, netVars, reqVars, reqPool
  <2>1. TypeOK'
    BY DEF IInv, TypeOK
  <2>2. Holding' /\ Owned' /\ Stopped' /\ QuietWhenGone'
    BY DEF IInv, TypeOK, Holding, Owned, Stopped, QuietWhenGone
  <2> QED BY <2>1, <2>2 DEF IInv
<1> QED BY <1>1, <1>2, <1>3, <1>4

-----------------------------------------------------------------------------
(* The callbacks.                                                          *)

\* The steps that only move on.
LEMMA MoveStep ==
  ASSUME IInv, NEW c \in IoRequests, Begin(c) \/ CheckStop(c) \/ Route(c) \/ Handled(c)
  PROVE  IInv'
<1> USE DEF Begin, CheckStop, Route, Handled, Step, ownerVars, netVars, reqVars, reqPool, repPool
<1>1. TypeOK'
  BY DEF IInv, TypeOK, Working
<1>2. Holding'
  BY DEF IInv, TypeOK, Holding
<1>3. Owned' /\ Stopped' /\ QuietWhenGone'
  BY DEF IInv, TypeOK, Owned, Stopped, QuietWhenGone
<1> QED BY <1>1, <1>2, <1>3 DEF IInv

\* A callback is given a response, or its receive had failed.
LEMMA ProcessStep ==
  ASSUME IInv, NEW c \in IoRequests, ProcessReceive(c)
  PROVE  IInv'
<1> USE DEF ownerVars, netVars, reqPool, Step, Fault
<1>1. PICK r \in Allocatable(IoReplies, usedRep, freeRep) :
        \/ /\ res[c] = "error" /\ Step(c, "process", "repost")
           /\ freeRep' = freeRep \cup {r}
           /\ UNCHANGED <<mine, res, usedRep, faults>>
        \/ /\ res[c] # "error"
           /\ mine' = [mine EXCEPT ![c] = r]
           /\ usedRep' = usedRep \cup {r} /\ freeRep' = freeRep \ {r}
           /\ \/ res[c] = "ok" /\ Step(c, "process", "route") /\ UNCHANGED <<res, faults>>
              \/ res[c] = "ok" /\ Step(c, "process", "send")
                 /\ res' = [res EXCEPT ![c] = "more"] /\ Fault
              \/ res[c] = "more" /\ Step(c, "process", "send") /\ UNCHANGED <<res, faults>>
  BY DEF ProcessReceive, Process
<1>2. UNCHANGED <<owner, inStart, started, toPost, bStopServer, queue, kind, arrived, got,
                  usedReq, freeReq, sending, sends, lostSlots, kept>>
  BY DEF ProcessReceive
<1>3. r \in IoReplies /\ r \notin usedRep
  BY Fresh DEF IInv, TypeOK, Owned
<1>4. st[c] = "process" /\ st' \in [IoRequests -> Steps]
      /\ \E to \in {"repost", "route", "send"} : st' = [st EXCEPT ![c] = to]
  BY <1>1 DEF IInv, TypeOK, Steps, Working
<1>5. TypeOK'
  <2>1. mine' \in [IoRequests -> IoReplies \cup {NoReply}]
    BY <1>1, <1>3 DEF IInv, TypeOK
  <2>2. usedRep' \subseteq IoReplies /\ freeRep' \subseteq IoReplies
    BY <1>1, <1>3 DEF IInv, TypeOK
  <2>3. faults' \in 0..MaxFaults
    BY <1>1, ConstantsAssumption DEF IInv, TypeOK
  <2>4. res' \in [IoRequests -> {"ok", "more", "error"}]
    BY <1>1 DEF IInv, TypeOK
  <2> QED BY <2>1, <2>2, <2>3, <2>4, <1>2, <1>4 DEF IInv, TypeOK, Steps
<1>6. Holding'
  BY <1>1, <1>3, ConstantsAssumption DEF IInv, TypeOK, Holding
<1>7. Owned'
  <2>1. usedReq' \cap freeReq' = {} /\ \A d \in IoRequests : st'[d] # "none" => d \in usedReq'
    BY <1>2, <1>4 DEF IInv, TypeOK, Owned
  <2>2. CASE UNCHANGED <<mine, usedRep>> /\ freeRep' = freeRep \cup {r}
    BY <2>1, <2>2, <1>2, <1>3 DEF IInv, TypeOK, Owned
  <2>3. CASE mine' = [mine EXCEPT ![c] = r] /\ usedRep' = usedRep \cup {r} /\ freeRep' = freeRep \ {r}
    <3>1. \A d \in IoRequests : d # c => mine'[d] = mine[d] /\ mine[d] # r
      BY <2>3, <1>3, ConstantsAssumption DEF IInv, TypeOK, Owned
    <3>2. mine'[c] = r /\ sending[r] = "none"
      BY <2>3, <1>3 DEF IInv, TypeOK, Owned
    <3>3. usedRep' \cap freeRep' = {} /\ \A q \in IoReplies : sending'[q] # "none" => q \in usedRep'
      BY <2>3, <1>2 DEF IInv, Owned
    <3>4. \A d \in IoRequests : mine'[d] # NoReply => mine'[d] \in usedRep' /\ sending'[mine'[d]] = "none"
      BY <3>1, <3>2, <2>3, <1>2 DEF IInv, Owned
    <3>5. \A d, e \in IoRequests : mine'[d] = mine'[e] /\ mine'[d] # NoReply => d = e
      BY <3>1, <3>2 DEF IInv, Owned
    <3> QED BY <2>1, <3>3, <3>4, <3>5 DEF Owned
  <2> QED BY <2>2, <2>3, <1>1
<1>8. Stopped' /\ QuietWhenGone'
  BY <1>2, <1>4 DEF IInv, TypeOK, Stopped, QuietWhenGone
<1> QED BY <1>5, <1>6, <1>7, <1>8 DEF IInv

\* Counting keeps a counter a counter.
LEMMA OneMore ==
  ASSUME NEW S, NEW f \in [S -> Nat], NEW x
  PROVE  [f EXCEPT ![x] = @ + 1] \in [S -> Nat]
<1> DEFINE g == [f EXCEPT ![x] = @ + 1]
<1>1. CASE x \in S
  <2>1. f[x] + 1 \in Nat
    BY <1>1
  <2> QED BY <2>1, <1>1
<1>2. CASE x \notin S
  <2>1. g = f
    BY <1>2
  <2> QED BY <2>1
<1> QED BY <1>1, <1>2

\* What every answer does to the pool: the response leaves the callback, and is
\* on its way, or back in the pool, or kept.
LEMMA SendStep ==
  ASSUME IInv, NEW c \in IoRequests, Send(c) \/ SendFile(c)
  PROVE  IInv'
<1> USE DEF ownerVars, netVars, reqPool, repPool
<1>1. st[c] = "send" /\ st' = [st EXCEPT ![c] = "repost"] /\ mine' = [mine EXCEPT ![c] = NoReply]
  BY DEF Send, SendFile, Step
<1>2. /\ UNCHANGED <<owner, inStart, started, toPost, bStopServer, queue, kind, arrived, got, res,
                     usedReq, freeReq, lostSlots>>
      /\ sends' = [sends EXCEPT ![got[c]] = @ + 1]
  BY DEF Send, SendFile, SendReply
<1>3. mine[c] \in usedRep /\ mine[c] \in IoReplies /\ sending[mine[c]] = "none"
  BY <1>1 DEF IInv, TypeOK, Owned, Holding
<1>4. \/ /\ sending' = [sending EXCEPT ![mine[c]] = "pending"]
         /\ UNCHANGED <<usedRep, freeRep, kept, faults>>
      \/ /\ UNCHANGED sending /\ FreeReply(mine[c]) /\ UNCHANGED kept
         /\ faults' \in 0..MaxFaults
      \/ /\ kept' = kept \cup {mine[c]} /\ UNCHANGED <<sending, usedRep, freeRep, faults>>
  <2>1. CallFails => faults' \in 0..MaxFaults
    BY ConstantsAssumption DEF CallFails, Fault, IInv, TypeOK
  <2>2. sending' = [sending EXCEPT ![mine[c]] = "pending"] => sending' # sending
    BY <1>3 DEF IInv, TypeOK
  <2>3. CASE Send(c)
    BY <2>1, <2>2, <2>3 DEF Send, SendReply
  <2>4. CASE SendFile(c)
    BY <2>1, <2>4 DEF SendFile
  <2> QED BY <2>3, <2>4
<1>5. TypeOK'
  <2>1. st' \in [IoRequests -> Steps] /\ mine' \in [IoRequests -> IoReplies \cup {NoReply}]
    BY <1>1 DEF IInv, TypeOK, Steps, Working
  <2>3. sends' \in [1..MaxRequests -> Nat]
    BY <1>2, OneMore DEF IInv, TypeOK
  <2>2. sending' \in [IoReplies -> {"none", "pending", "done"}] /\ usedRep' \subseteq IoReplies
        /\ freeRep' \subseteq IoReplies /\ kept' \subseteq IoReplies /\ faults' \in 0..MaxFaults
    BY <1>3, <1>4 DEF IInv, TypeOK, FreeReply
  <2> QED BY <2>1, <2>2, <2>3, <1>2 DEF IInv, TypeOK, Steps
<1>6. Holding'
  BY <1>1 DEF IInv, TypeOK, Holding
<1>7. Owned'
  <2>1. \A d \in IoRequests : mine'[d] # NoReply => d # c /\ mine'[d] = mine[d] /\ mine[d] # mine[c]
    BY <1>1, <1>3, ConstantsAssumption DEF IInv, TypeOK, Owned
  <2>2. usedReq' \cap freeReq' = {} /\ \A d \in IoRequests : st'[d] # "none" => d \in usedReq'
    BY <1>1, <1>2 DEF IInv, TypeOK, Owned
  <2>3. usedRep' \cap freeRep' = {} /\ \A q \in IoReplies : sending'[q] # "none" => q \in usedRep'
    BY <1>3, <1>4 DEF IInv, TypeOK, Owned, FreeReply
  <2>4. \A d \in IoRequests : mine'[d] # NoReply => mine'[d] \in usedRep' /\ sending'[mine'[d]] = "none"
    BY <1>3, <1>4, <2>1 DEF IInv, TypeOK, Owned, FreeReply
  <2>5. \A d, e \in IoRequests : mine'[d] = mine'[e] /\ mine'[d] # NoReply => d = e
    BY <2>1 DEF IInv, Owned
  <2> QED BY <2>2, <2>3, <2>4, <2>5 DEF Owned
<1>8. Stopped' /\ QuietWhenGone'
  BY <1>1, <1>2 DEF IInv, TypeOK, Stopped, QuietWhenGone
<1> QED BY <1>5, <1>6, <1>7, <1>8 DEF IInv

\* A receive that could not be posted: what the answer to a request that does
\* not fit does to the pool of responses.
LEMMA NotPostedKeeps ==
  ASSUME IInv, NEW d \in Allocatable(IoRequests, usedReq, freeReq), NotPosted(d), UNCHANGED mine
  PROVE  /\ arrived' \in Seq(1..MaxRequests) /\ sends' \in [1..MaxRequests -> Nat]
         /\ sending' \in [IoReplies -> {"none", "pending", "done"}]
         /\ usedRep' \subseteq IoReplies /\ freeRep' \subseteq IoReplies
         /\ freeReq' \subseteq IoRequests /\ lostSlots' \in Nat /\ faults' \in 0..MaxFaults
         /\ usedReq' = usedReq /\ got' = got /\ res' = res
         /\ usedReq' \cap freeReq' = {} /\ usedRep' \cap freeRep' = {}
         /\ \A q \in IoReplies : sending'[q] # "none" => q \in usedRep'
         /\ \A c \in IoRequests :
              mine'[c] # NoReply => mine'[c] \in usedRep' /\ sending'[mine'[c]] = "none"
<1>1. d \in IoRequests /\ d \notin usedReq
  BY Fresh DEF IInv, TypeOK, Owned
<1>2. /\ usedReq' = usedReq /\ got' = got /\ res' = res
      /\ freeReq' \subseteq IoRequests /\ usedReq' \cap freeReq' = {} /\ lostSlots' \in Nat
  BY <1>1 DEF NotPosted, IInv, TypeOK, Owned
<1>3. CallFails => faults' \in 0..MaxFaults
  BY ConstantsAssumption DEF CallFails, Fault, IInv, TypeOK
<1>4. CASE CallFails /\ UNCHANGED <<arrived, repPool, sends>>
  BY <1>2, <1>3, <1>4 DEF repPool, IInv, TypeOK, Owned
<1>5. ASSUME arrived # <<>>, arrived' = Tail(arrived),
             NEW r \in Allocatable(IoReplies, usedRep, freeRep), SendReply(Head(arrived), r),
             IF sending' = sending
               THEN freeRep' = freeRep \cup {r} /\ UNCHANGED usedRep
               ELSE usedRep' = usedRep \cup {r} /\ freeRep' = freeRep \ {r}
      PROVE  /\ arrived' \in Seq(1..MaxRequests) /\ sends' \in [1..MaxRequests -> Nat]
             /\ sending' \in [IoReplies -> {"none", "pending", "done"}]
             /\ usedRep' \subseteq IoReplies /\ freeRep' \subseteq IoReplies
             /\ faults' \in 0..MaxFaults /\ usedRep' \cap freeRep' = {}
             /\ \A q \in IoReplies : sending'[q] # "none" => q \in usedRep'
             /\ \A c \in IoRequests :
                  mine'[c] # NoReply => mine'[c] \in usedRep' /\ sending'[mine'[c]] = "none"
  <2>1. r \in IoReplies /\ r \notin usedRep /\ sending[r] = "none"
    BY Fresh DEF IInv, TypeOK, Owned
  <2>2. arrived' \in Seq(1..MaxRequests)
    BY <1>5 DEF IInv, TypeOK
  <2>3. sends' \in [1..MaxRequests -> Nat]
    BY <1>5, OneMore DEF SendReply, IInv, TypeOK
  <2>4. \/ /\ sending' = [sending EXCEPT ![r] = "pending"] /\ UNCHANGED faults
           /\ usedRep' = usedRep \cup {r} /\ freeRep' = freeRep \ {r}
        \/ /\ sending' = sending /\ faults' \in 0..MaxFaults
           /\ usedRep' = usedRep /\ freeRep' = freeRep \cup {r}
    <3>1. sending' = [sending EXCEPT ![r] = "pending"] => sending' # sending
      BY <2>1 DEF IInv, TypeOK
    <3> QED BY <3>1, <1>3, <1>5 DEF SendReply
  <2>5. faults' \in 0..MaxFaults
    BY <2>4 DEF IInv, TypeOK
  <2>6. /\ sending' \in [IoReplies -> {"none", "pending", "done"}]
        /\ usedRep' \subseteq IoReplies /\ freeRep' \subseteq IoReplies
        /\ usedRep' \cap freeRep' = {}
    BY <2>1, <2>4 DEF IInv, TypeOK, Owned
  <2>7. \A q \in IoReplies : sending'[q] # "none" => q \in usedRep'
    BY <2>1, <2>4 DEF IInv, TypeOK, Owned
  <2>8. \A c \in IoRequests :
          mine'[c] # NoReply => mine'[c] \in usedRep' /\ sending'[mine'[c]] = "none"
    BY <2>1, <2>4 DEF IInv, TypeOK, Owned
  <2> QED BY <2>2, <2>3, <2>5, <2>6, <2>7, <2>8
<1> QED BY <1>2, <1>4, <1>5 DEF NotPosted

\* A callback posts the next receive, or fails to.
LEMMA RepostStep ==
  ASSUME IInv, NEW c \in IoRequests, Repost(c)
  PROVE  IInv'
<1>1. UNCHANGED <<owner, inStart, started, toPost, bStopServer, queue, kind, mine, kept>>
      /\ st[c] = "repost"
  BY DEF Repost, ownerVars
<1>2. ASSUME NEW d \in Allocatable(IoRequests, usedReq, freeReq), Posted(d),
             st' = [st EXCEPT ![c] = "cleanup", ![d] = "pending"]
      PROVE  IInv'
  <2>1. d \in IoRequests /\ d \notin usedReq /\ st[d] = "none" /\ d # c
    <3>1. d \in IoRequests /\ d \notin usedReq
      BY Fresh DEF IInv, TypeOK, Owned
    <3> QED BY <3>1, <1>1 DEF IInv, Owned
  <2>2. queue = "open" /\ ~bStopServer /\ owner \notin {"cancel", "wait", "uninit", "gone"}
    BY <1>2 DEF Posted, IInv, Stopped
  <2>3. UNCHANGED <<arrived, sending, usedRep, freeRep, sends, lostSlots, faults>>
    BY <1>2 DEF Posted, repPool
  <2>4. TypeOK'
    <3>1. st' \in [IoRequests -> Steps] /\ usedReq' \subseteq IoRequests
          /\ freeReq' \subseteq IoRequests
      BY <1>2, <2>1 DEF Posted, IInv, TypeOK, Steps
    <3>2. got' \in [IoRequests -> 0..MaxRequests] /\ res' \in [IoRequests -> {"ok", "more", "error"}]
      BY <1>2, <2>1, ConstantsAssumption DEF Posted, IInv, TypeOK
    <3> QED BY <3>1, <3>2, <1>1, <2>3 DEF IInv, TypeOK, Steps
  <2>5. Holding'
    BY <1>1, <1>2, <2>1 DEF IInv, TypeOK, Holding
  <2>6. Owned'
    <3>1. usedReq' \cap freeReq' = {} /\ \A e \in IoRequests : st'[e] # "none" => e \in usedReq'
      BY <1>1, <1>2, <2>1 DEF Posted, IInv, TypeOK, Owned
    <3> QED BY <3>1, <1>1, <2>3 DEF IInv, Owned
  <2>7. Stopped' /\ QuietWhenGone'
    BY <1>1, <2>2 DEF Stopped, QuietWhenGone
  <2> QED BY <2>4, <2>5, <2>6, <2>7 DEF IInv
<1>3. ASSUME NEW d \in Allocatable(IoRequests, usedReq, freeReq), NotPosted(d),
             st' = [st EXCEPT ![c] = "cleanup"]
      PROVE  IInv'
  <2>1. st' \in [IoRequests -> Steps] /\ \A e \in IoRequests : st'[e] # "none" => st[e] # "none"
    BY <1>1, <1>3 DEF IInv, TypeOK, Steps
  <2>2. TypeOK'
    BY <1>1, <1>3, <2>1, NotPostedKeeps DEF IInv, TypeOK, Steps
  <2>3. Holding'
    BY <1>1, <1>3 DEF IInv, TypeOK, Holding
  <2>4. Owned'
    <3>1. \A e \in IoRequests : st'[e] # "none" => e \in usedReq'
      BY <2>1, <1>1, <1>3, NotPostedKeeps DEF IInv, Owned
    <3>2. \A e, f \in IoRequests : mine'[e] = mine'[f] /\ mine'[e] # NoReply => e = f
      BY <1>1 DEF IInv, Owned
    <3> QED BY <3>1, <3>2, <1>1, <1>3, NotPostedKeeps DEF Owned
  <2>5. Stopped' /\ QuietWhenGone'
    BY <1>1, <1>3 DEF IInv, TypeOK, Stopped, QuietWhenGone
  <2> QED BY <2>2, <2>3, <2>4, <2>5 DEF IInv
<1> QED BY <1>2, <1>3 DEF Repost

\* A context goes back to the pool of requests.
LEMMA CleanupStep ==
  ASSUME IInv, NEW c \in IoRequests, Cleanup(c)
  PROVE  IInv'
<1> USE DEF Cleanup, Step, ownerVars, netVars, repPool
<1>1. TypeOK'
  <2>1. got' \in [IoRequests -> 0..MaxRequests] /\ res' \in [IoRequests -> {"ok", "more", "error"}]
    BY ConstantsAssumption DEF IInv, TypeOK
  <2>2. st' \in [IoRequests -> Steps]
    BY DEF IInv, TypeOK, Steps
  <2> QED BY <2>1, <2>2 DEF IInv, TypeOK, Steps
<1>2. Holding' /\ Stopped' /\ QuietWhenGone'
  BY DEF IInv, TypeOK, Holding, Stopped, QuietWhenGone
<1>3. Owned'
  BY DEF IInv, TypeOK, Owned
<1> QED BY <1>1, <1>2, <1>3 DEF IInv

\* A response that was sent goes back to the pool of responses.
LEMMA SentStep ==
  ASSUME IInv, NEW r \in IoReplies, SendCompletion(r)
  PROVE  IInv'
<1> USE DEF SendCompletion, FreeReply, ownerVars, netVars, reqVars, reqPool
<1>1. TypeOK'
  BY DEF IInv, TypeOK
<1>2. Holding' /\ Stopped' /\ QuietWhenGone'
  BY DEF IInv, Holding, Stopped, QuietWhenGone
<1>3. Owned'
  <2>1. usedRep' \cap freeRep' = {} /\ \A q \in IoReplies : sending'[q] # "none" => q \in usedRep'
    BY DEF IInv, TypeOK, Owned
  <2>2. \A c \in IoRequests : mine[c] # NoReply => mine[c] # r
    BY DEF IInv, Owned
  <2>3. \A c \in IoRequests : mine'[c] # NoReply => mine'[c] \in usedRep' /\ sending'[mine'[c]] = "none"
    BY <2>2 DEF IInv, TypeOK, Owned
  <2> QED BY <2>1, <2>3 DEF IInv, Owned
<1> QED BY <1>1, <1>2, <1>3 DEF IInv

-----------------------------------------------------------------------------
(* The owner's thread.                                                     *)

\* Start posts its receives, or gives up at the first that fails.
LEMMA PostStep ==
  ASSUME IInv, Post
  PROVE  IInv'
<1>1. UNCHANGED <<inStart, started, bStopServer, queue, kind, mine, kept>>
      /\ owner = "posting" /\ toPost' \in 0..NSlots
  BY ConstantsAssumption DEF Post, IInv, TypeOK
<1>2. ASSUME NEW d \in Allocatable(IoRequests, usedReq, freeReq), Posted(d),
             st' = [st EXCEPT ![d] = "pending"], UNCHANGED owner
      PROVE  IInv'
  <2>1. d \in IoRequests /\ d \notin usedReq
    BY Fresh DEF IInv, TypeOK, Owned
  <2>2. st[d] = "none" /\ queue = "open" /\ ~bStopServer
    BY <1>2, <2>1 DEF Posted, IInv, Stopped, Owned
  <2>3. UNCHANGED <<arrived, sending, usedRep, freeRep, sends, lostSlots, faults>>
    BY <1>2 DEF Posted, repPool
  <2>4. TypeOK'
    <3>1. st' \in [IoRequests -> Steps] /\ usedReq' \subseteq IoRequests
          /\ freeReq' \subseteq IoRequests
      BY <1>2, <2>1 DEF Posted, IInv, TypeOK, Steps
    <3>2. got' \in [IoRequests -> 0..MaxRequests] /\ res' \in [IoRequests -> {"ok", "more", "error"}]
      BY <1>2, <2>1, ConstantsAssumption DEF Posted, IInv, TypeOK
    <3> QED BY <3>1, <3>2, <1>1, <1>2, <2>3 DEF IInv, TypeOK, Steps
  <2>5. Holding'
    BY <1>1, <1>2, <2>1 DEF IInv, TypeOK, Holding
  <2>6. Owned'
    <3>1. usedReq' \cap freeReq' = {} /\ \A e \in IoRequests : st'[e] # "none" => e \in usedReq'
      BY <1>1, <1>2, <2>1 DEF Posted, IInv, TypeOK, Owned
    <3> QED BY <3>1, <1>1, <2>3 DEF IInv, Owned
  <2>7. Stopped' /\ QuietWhenGone'
    BY <1>1, <1>2, <2>2 DEF Stopped, QuietWhenGone
  <2> QED BY <2>4, <2>5, <2>6, <2>7 DEF IInv
<1>3. ASSUME NEW d \in Allocatable(IoRequests, usedReq, freeReq), NotPosted(d),
             owner' = "stop", UNCHANGED st
      PROVE  IInv'
  <2>1. TypeOK'
    BY <1>1, <1>3, NotPostedKeeps DEF IInv, TypeOK
  <2>2. Owned'
    <3>1. \A e \in IoRequests : st'[e] # "none" => e \in usedReq'
      BY <1>1, <1>3, NotPostedKeeps DEF IInv, Owned
    <3>2. \A e, f \in IoRequests : mine'[e] = mine'[f] /\ mine'[e] # NoReply => e = f
      BY <1>1 DEF IInv, Owned
    <3> QED BY <3>1, <3>2, <1>1, <1>3, NotPostedKeeps DEF Owned
  <2>3. Holding' /\ Stopped' /\ QuietWhenGone'
    BY <1>1, <1>3 DEF IInv, Holding, Stopped, QuietWhenGone
  <2> QED BY <2>1, <2>2, <2>3 DEF IInv
<1> QED BY <1>2, <1>3 DEF Post

\* The server is told to stop: what was pending ends, and nothing is posted.
LEMMA StopStep ==
  ASSUME IInv, StopServer
  PROVE  IInv'
<1> USE DEF StopServer, reqPool, repPool
<1>1. st' \in [IoRequests -> Steps] /\ \A c \in IoRequests :
        st'[c] # "pending" /\ (st'[c] # "none" => st[c] # "none")
        /\ (st'[c] \in {"route", "handle", "send"} => st[c] = st'[c])
  BY DEF IInv, TypeOK, Steps
<1>2. TypeOK'
  <2>1. res' \in [IoRequests -> {"ok", "more", "error"}] /\ arrived' \in Seq(1..MaxRequests)
    BY DEF IInv, TypeOK
  <2> QED BY <1>1, <2>1 DEF IInv, TypeOK, Steps
<1>3. Holding' /\ Owned' /\ Stopped' /\ QuietWhenGone'
  BY <1>1 DEF IInv, Holding, Owned, Stopped, QuietWhenGone
<1> QED BY <1>2, <1>3 DEF IInv

\* The callbacks that have not begun are cancelled; their contexts stay in use.
LEMMA CancelStep ==
  ASSUME IInv, CancelCallbacks
  PROVE  IInv'
<1> USE DEF CancelCallbacks, netVars, reqVars, reqPool
<1>1. TypeOK'
  <2>1. st' \in [IoRequests -> Steps] /\ sending' \in [IoReplies -> {"none", "pending", "done"}]
    BY DEF IInv, TypeOK, Steps
  <2> QED BY <2>1 DEF IInv, TypeOK, Steps
<1>2. Holding' /\ Stopped' /\ QuietWhenGone'
  BY DEF IInv, Holding, Stopped, QuietWhenGone
<1>3. Owned'
  BY DEF IInv, TypeOK, Owned
<1> QED BY <1>1, <1>2, <1>3 DEF IInv

\* No callback runs when the wait returns, and no receive is pending: the server
\* was told to stop.
LEMMA WaitStep ==
  ASSUME IInv, WaitReturns
  PROVE  IInv'
<1> USE DEF WaitReturns, AfterWait, netVars, reqVars, reqPool, repPool
<1>1. TypeOK' /\ Holding' /\ Owned' /\ Stopped'
  BY DEF IInv, TypeOK, Holding, Owned, Stopped
<1>2. QuietWhenGone'
  BY DEF NoCallback, IInv, TypeOK, Stopped, QuietWhenGone
<1> QED BY <1>1, <1>2 DEF IInv

\* What is left of the owner's steps touches no context.
LEMMA OwnerStep ==
  ASSUME IInv, Start \/ StartReturns \/ Destroy \/ Uninitialize
  PROVE  IInv'
<1> USE DEF Start, StartReturns, Destroy, Uninitialize, netVars, reqVars, reqPool, repPool
<1>1. TypeOK'
  BY DEF IInv, TypeOK
<1>2. Holding' /\ Owned'
  BY DEF IInv, Holding, Owned
<1>3. Stopped' /\ QuietWhenGone'
  BY DEF IInv, Stopped, QuietWhenGone
<1> QED BY <1>1, <1>2, <1>3 DEF IInv

-----------------------------------------------------------------------------
\* A step that changes nothing keeps the invariant.
LEMMA Stutter ==
  ASSUME IInv, UNCHANGED vars
  PROVE  IInv'
<1> USE DEF vars, ownerVars, netVars, reqVars, reqPool, repPool
<1>1. TypeOK'
  BY DEF IInv, TypeOK
<1>2. Holding' /\ Owned' /\ Stopped' /\ QuietWhenGone'
  BY DEF IInv, Holding, Owned, Stopped, QuietWhenGone
<1> QED BY <1>1, <1>2 DEF IInv

\* HTTPServer2 as a whole, whatever is received, sent, failed or stopped: the
\* inductive invariant holds.
THEOREM Invariant == Spec => []IInv
<1>1. ASSUME IInv, [Next]_vars PROVE IInv'
  <2>1. CASE \/ \E k \in Kinds : Arrives(k)
             \/ \E c \in IoRequests : Receives(c) \/ ReceiveFails(c)
             \/ \E r \in IoReplies : SendEnds(r)
    BY <1>1, <2>1, NetStep
  <2>2. ASSUME NEW c \in IoRequests, Callback(c) PROVE IInv'
    BY <1>1, <2>2, MoveStep, ProcessStep, SendStep, RepostStep, CleanupStep DEF Callback
  <2>3. CASE \E r \in IoReplies : SendCompletion(r)
    BY <1>1, <2>3, SentStep
  <2>4. CASE Owner \/ Destroy
    BY <1>1, <2>4, PostStep, StopStep, CancelStep, WaitStep, OwnerStep DEF Owner
  <2>5. CASE UNCHANGED vars
    BY <1>1, <2>5, Stutter
  <2> QED BY <1>1, <2>1, <2>2, <2>3, <2>4, <2>5 DEF Next
<1> QED BY InitIInv, <1>1, PTL DEF Spec

\* Every variable of HTTPServer2 keeps its type.
THEOREM TypeCorrect == Spec => []TypeOK
<1>1. IInv => TypeOK
  BY DEF IInv
<1> QED BY Invariant, <1>1, PTL

\* Allocate- and CleanupHttpIoRequest/Response: a context the kernel or a
\* callback has is nobody else's and not in the pool, and no two callbacks have
\* the same response.
THEOREM OwnedHolds == Spec => []Owned
<1>1. IInv => Owned
  BY DEF IInv
<1> QED BY Invariant, <1>1, PTL

\* StopServer: once the destructor goes on after the wait, no handler runs and
\* none will begin.
THEOREM QuietWhenGoneHolds == Spec => []QuietWhenGone
<1>1. IInv => QuietWhenGone
  BY DEF IInv
<1> QED BY Invariant, <1>1, PTL

-----------------------------------------------------------------------------
(* One answer for each request.                                            *)

\* The elements of a sequence.
LEMMA Elements ==
  ASSUME NEW S, NEW q \in Seq(S)
  PROVE  \A i \in DOMAIN q : q[i] \in S
  OBVIOUS

\* A sequence of requests that is not empty.
LEMMA Front ==
  ASSUME NEW S, NEW q \in Seq(S), q # <<>>
  PROVE  /\ 1 \in DOMAIN q /\ Head(q) = q[1] /\ Head(q) \in S
         /\ \A i \in DOMAIN Tail(q) : i + 1 \in DOMAIN q /\ i \in Nat /\ i + 1 # 1
                                     /\ Tail(q)[i] = q[i + 1]
<1>1. Len(q) \in Nat \ {0} /\ DOMAIN q = 1..Len(q)
  OBVIOUS
<1>2. 1 \in DOMAIN q /\ Head(q) = q[1]
  BY <1>1
<1>3. Head(q) \in S
  BY <1>2, Elements
<1>4. Tail(q) \in Seq(S) /\ Len(Tail(q)) = Len(q) - 1 /\ DOMAIN Tail(q) = 1..(Len(q) - 1)
  BY <1>1
<1>5. ASSUME NEW i \in DOMAIN Tail(q)
      PROVE  i + 1 \in DOMAIN q /\ i \in Nat /\ i + 1 # 1 /\ Tail(q)[i] = q[i + 1]
  BY <1>1, <1>4
<1> QED BY <1>2, <1>3, <1>5

\* A callback that may still answer the request it has got.
AtHand(c) == got[c] # 0 /\ st[c] \in {"done"} \cup (Working \ {"repost"})

\* A request is with http.sys, or at hand, once, until it is answered.
Answering ==
  /\ \A n \in 1..MaxRequests : sends[n] <= 1 /\ (n > Len(kind) => sends[n] = 0)
  /\ \A i \in DOMAIN arrived : arrived[i] <= Len(kind) /\ sends[arrived[i]] = 0
  /\ \A i, j \in DOMAIN arrived : arrived[i] = arrived[j] => i = j
  /\ \A c \in IoRequests :
       AtHand(c) => /\ got[c] <= Len(kind) /\ sends[got[c]] = 0
                    /\ \A i \in DOMAIN arrived : arrived[i] # got[c]
  /\ \A c, d \in IoRequests : AtHand(c) /\ AtHand(d) /\ got[c] = got[d] => c = d
  /\ \A c \in IoRequests : st[c] = "pending" => got[c] = 0

\* Steps that answer nothing and bring nothing: no request comes to hand.
LEMMA NothingAnswered ==
  ASSUME Answering, UNCHANGED <<kind, sends>>, arrived' \in {arrived, <<>>},
         \A c \in IoRequests : /\ AtHand(c)' => AtHand(c) /\ got'[c] = got[c]
                               /\ st'[c] = "pending" => got'[c] = 0
  PROVE  Answering'
<1>1. \A i \in DOMAIN arrived' : i \in DOMAIN arrived /\ arrived'[i] = arrived[i]
  OBVIOUS
<1> QED BY <1>1 DEF Answering

\* A request comes, and is the latest.
LEMMA ArrivesAnswering ==
  ASSUME IInv, Answering, NEW k \in Kinds, Arrives(k)
  PROVE  Answering'
<1> DEFINE n == Len(kind) + 1
<1>1. /\ Len(kind) \in Nat /\ Len(kind') = n /\ n \in 1..MaxRequests /\ arrived' = Append(arrived, n)
      /\ arrived \in Seq(1..MaxRequests)
      /\ UNCHANGED <<st, got, sends>>
  BY ConstantsAssumption DEF Arrives, reqVars, IInv, TypeOK
<1>2. \A i \in DOMAIN arrived : arrived[i] \in Nat /\ arrived[i] < n
  <2>1. \A i \in DOMAIN arrived : arrived[i] \in 1..MaxRequests
    BY <1>1, Elements
  <2> QED BY <1>1, <2>1 DEF Answering
<1>3. /\ DOMAIN arrived' = 1..(Len(arrived) + 1) /\ DOMAIN arrived = 1..Len(arrived)
      /\ Len(arrived) \in Nat /\ arrived'[Len(arrived) + 1] = n
      /\ \A i \in DOMAIN arrived : arrived'[i] = arrived[i]
  BY <1>1
<1> HIDE DEF n
<1>4. \A i \in DOMAIN arrived' : \/ i \in DOMAIN arrived /\ arrived'[i] = arrived[i]
                                 \/ i = Len(arrived) + 1 /\ arrived'[i] = n
  BY <1>3
<1>5. \A c \in IoRequests : AtHand(c)' => AtHand(c) /\ got'[c] = got[c] /\ got[c] < n /\ got[c] \in Nat
  BY <1>1 DEF n, AtHand, Answering, IInv, TypeOK
<1>6. \A m \in 1..MaxRequests : sends'[m] <= 1 /\ (m > Len(kind') => sends'[m] = 0)
  BY <1>1 DEF n, Answering
<1>7. \A i \in DOMAIN arrived' : arrived'[i] <= Len(kind') /\ sends'[arrived'[i]] = 0
  <2> TAKE i \in DOMAIN arrived'
  <2>1. CASE i \in DOMAIN arrived /\ arrived'[i] = arrived[i]
    BY <1>1, <1>2, <2>1 DEF Answering, n
  <2>2. CASE arrived'[i] = n
    BY <1>1, <2>2 DEF Answering, n
  <2> QED BY <1>4, <2>1, <2>2
<1>8. \A i, j \in DOMAIN arrived' : arrived'[i] = arrived'[j] => i = j
  <2> TAKE i, j \in DOMAIN arrived'
  <2>1. n \in Nat
    BY <1>1
  <2> QED BY <1>2, <1>4, <2>1 DEF Answering
<1>9. \A c \in IoRequests :
        AtHand(c)' => /\ got'[c] <= Len(kind') /\ sends'[got'[c]] = 0
                      /\ \A i \in DOMAIN arrived' : arrived'[i] # got'[c]
  <2> SUFFICES ASSUME NEW c \in IoRequests, AtHand(c)'
               PROVE  /\ got'[c] <= Len(kind') /\ sends'[got'[c]] = 0
                      /\ \A i \in DOMAIN arrived' : arrived'[i] # got'[c]
    OBVIOUS
  <2>1. AtHand(c) /\ got'[c] = got[c] /\ got[c] < n /\ got[c] \in Nat /\ n \in Nat
    BY <1>1, <1>5
  <2>2. sends'[got'[c]] = 0 /\ \A i \in DOMAIN arrived : arrived[i] # got[c]
    BY <1>1, <2>1 DEF Answering
  <2>3. \A i \in DOMAIN arrived' : arrived'[i] # got'[c]
    BY <1>4, <2>1, <2>2
  <2> QED BY <1>1, <2>1, <2>2, <2>3
<1>10. \A c, d \in IoRequests : AtHand(c)' /\ AtHand(d)' /\ got'[c] = got'[d] => c = d
  BY <1>5 DEF Answering
<1>11. \A c \in IoRequests : st'[c] = "pending" => got'[c] = 0
  BY <1>1 DEF Answering
<1> QED BY <1>6, <1>7, <1>8, <1>9, <1>10, <1>11 DEF Answering

\* The front of what http.sys holds is taken: what is left are the others.
LEMMA Taken ==
  ASSUME IInv, Answering, arrived # <<>>
  PROVE  /\ Head(arrived) \in 1..MaxRequests /\ Head(arrived) <= Len(kind)
         /\ sends[Head(arrived)] = 0
         /\ \A i \in DOMAIN Tail(arrived) :
              /\ i + 1 \in DOMAIN arrived /\ Tail(arrived)[i] = arrived[i + 1]
              /\ Tail(arrived)[i] # Head(arrived)
         /\ \A i, j \in DOMAIN Tail(arrived) : Tail(arrived)[i] = Tail(arrived)[j] => i = j
         /\ \A c \in IoRequests : AtHand(c) => got[c] # Head(arrived)
<1>1. arrived \in Seq(1..MaxRequests)
  BY DEF IInv, TypeOK
<1>2. /\ 1 \in DOMAIN arrived /\ Head(arrived) = arrived[1] /\ Head(arrived) \in 1..MaxRequests
      /\ \A i \in DOMAIN Tail(arrived) : /\ i + 1 \in DOMAIN arrived /\ i \in Nat /\ i + 1 # 1
                                         /\ Tail(arrived)[i] = arrived[i + 1]
  BY <1>1, Front
<1>3. \A i \in DOMAIN Tail(arrived) : Tail(arrived)[i] # Head(arrived)
  BY <1>2 DEF Answering
<1>4. \A i, j \in DOMAIN Tail(arrived) : Tail(arrived)[i] = Tail(arrived)[j] => i = j
  <2> TAKE i, j \in DOMAIN Tail(arrived)
  <2> HAVE Tail(arrived)[i] = Tail(arrived)[j]
  <2>1. i + 1 = j + 1
    BY <1>2 DEF Answering
  <2> QED BY <1>2, <2>1
<1> QED BY <1>2, <1>3, <1>4 DEF Answering

\* A receive that ends well brings its callback the front one.
LEMMA ReceivesAnswering ==
  ASSUME IInv, Answering, NEW c \in IoRequests, Receives(c)
  PROVE  Answering'
<1> DEFINE h == Head(arrived)
<1>1. /\ arrived # <<>> /\ arrived' = Tail(arrived) /\ got' = [got EXCEPT ![c] = h]
      /\ st' = [st EXCEPT ![c] = "done"] /\ UNCHANGED <<kind, sends>>
  BY DEF Receives
<1>2. /\ h \in 1..MaxRequests /\ h <= Len(kind) /\ sends[h] = 0
      /\ \A i \in DOMAIN arrived' :
           i + 1 \in DOMAIN arrived /\ arrived'[i] = arrived[i + 1] /\ arrived'[i] # h
      /\ \A i, j \in DOMAIN arrived' : arrived'[i] = arrived'[j] => i = j
      /\ \A d \in IoRequests : AtHand(d) => got[d] # h
  BY <1>1, Taken
<1> HIDE DEF h
<1>3. got'[c] = h /\ st'[c] = "done"
      /\ \A d \in IoRequests : d # c => st'[d] = st[d] /\ got'[d] = got[d] /\ (AtHand(d)' <=> AtHand(d))
  BY <1>1 DEF IInv, TypeOK, AtHand
<1>4. \A d \in IoRequests :
        AtHand(d)' => /\ got'[d] <= Len(kind') /\ sends'[got'[d]] = 0
                      /\ \A i \in DOMAIN arrived' : arrived'[i] # got'[d]
  <2> SUFFICES ASSUME NEW d \in IoRequests, AtHand(d)'
               PROVE  /\ got'[d] <= Len(kind') /\ sends'[got'[d]] = 0
                      /\ \A i \in DOMAIN arrived' : arrived'[i] # got'[d]
    OBVIOUS
  <2>1. CASE d = c
    BY <1>1, <1>2, <1>3, <2>1
  <2>2. CASE d # c
    <3>1. AtHand(d) /\ got'[d] = got[d]
      BY <1>3, <2>2
    <3> QED BY <1>1, <1>2, <3>1 DEF Answering
  <2> QED BY <2>1, <2>2
<1>5. \A d, e \in IoRequests : AtHand(d)' /\ AtHand(e)' /\ got'[d] = got'[e] => d = e
  BY <1>2, <1>3 DEF Answering
<1>6. \A d \in IoRequests : st'[d] = "pending" => got'[d] = 0
  BY <1>3 DEF Answering
<1>7. \A i \in DOMAIN arrived' : arrived'[i] <= Len(kind') /\ sends'[arrived'[i]] = 0
  BY <1>1, <1>2 DEF Answering
<1>8. \A n \in 1..MaxRequests : sends'[n] <= 1 /\ (n > Len(kind') => sends'[n] = 0)
  BY <1>1 DEF Answering
<1> QED BY <1>2, <1>4, <1>5, <1>6, <1>7, <1>8 DEF Answering

\* Request n, which was neither answered nor will be at hand again, is answered.
LEMMA OneAnswered ==
  ASSUME IInv, Answering, UNCHANGED kind, NEW n \in 0..MaxRequests, n <= Len(kind),
         sends' = [sends EXCEPT ![n] = @ + 1],
         n # 0 => sends[n] = 0,
         \A c \in IoRequests : /\ AtHand(c)' => AtHand(c) /\ got'[c] = got[c] /\ got[c] # n
                               /\ st'[c] = "pending" => got'[c] = 0,
         \A i \in DOMAIN arrived' :
           arrived'[i] # n /\ \E j \in DOMAIN arrived : arrived[j] = arrived'[i],
         \A i, j \in DOMAIN arrived' : arrived'[i] = arrived'[j] => i = j
  PROVE  Answering'
<1>1. /\ \A m \in 1..MaxRequests : m # n => sends'[m] = sends[m]
      /\ n # 0 => sends'[n] = 1
      /\ Len(kind) \in Nat
  BY ConstantsAssumption DEF IInv, TypeOK
<1>2. \A m \in 1..MaxRequests : sends'[m] <= 1 /\ (m > Len(kind') => sends'[m] = 0)
  BY <1>1, ConstantsAssumption DEF Answering
<1>3. \A i \in DOMAIN arrived' : arrived'[i] <= Len(kind') /\ sends'[arrived'[i]] = 0
  <2> TAKE i \in DOMAIN arrived'
  <2>1. PICK j \in DOMAIN arrived : arrived[j] = arrived'[i]
    OBVIOUS
  <2>2. arrived'[i] \in 1..MaxRequests /\ arrived'[i] # n
    BY <2>1, Elements DEF IInv, TypeOK
  <2> QED BY <1>1, <2>1, <2>2 DEF Answering
<1>4. \A c \in IoRequests :
        AtHand(c)' => /\ got'[c] <= Len(kind') /\ sends'[got'[c]] = 0
                      /\ \A i \in DOMAIN arrived' : arrived'[i] # got'[c]
  <2> SUFFICES ASSUME NEW c \in IoRequests, AtHand(c)'
               PROVE  /\ got'[c] <= Len(kind') /\ sends'[got'[c]] = 0
                      /\ \A i \in DOMAIN arrived' : arrived'[i] # got'[c]
    OBVIOUS
  <2>1. AtHand(c) /\ got'[c] = got[c] /\ got[c] # n /\ got[c] \in 1..MaxRequests
    BY ConstantsAssumption DEF AtHand, IInv, TypeOK
  <2>2. got[c] <= Len(kind) /\ sends[got[c]] = 0 /\ \A i \in DOMAIN arrived : arrived[i] # got[c]
    BY <2>1 DEF Answering
  <2> QED BY <1>1, <2>1, <2>2
<1>5. \A c, d \in IoRequests : AtHand(c)' /\ AtHand(d)' /\ got'[c] = got'[d] => c = d
  BY DEF Answering
<1> QED BY <1>2, <1>3, <1>4, <1>5 DEF Answering

\* A callback answers what it has at hand.
LEMMA SendAnswering ==
  ASSUME IInv, Answering, NEW c \in IoRequests, Send(c) \/ SendFile(c)
  PROVE  Answering'
<1>1. /\ st[c] = "send" /\ st' = [st EXCEPT ![c] = "repost"]
      /\ sends' = [sends EXCEPT ![got[c]] = @ + 1] /\ UNCHANGED <<kind, arrived, got>>
  BY DEF Send, SendFile, SendReply, Step, netVars
<1>2. got[c] # 0 => AtHand(c)
  BY <1>1 DEF AtHand, Working
<1>3. \A d \in IoRequests : AtHand(d)' => d # c /\ AtHand(d) /\ got'[d] = got[d] /\ got[d] # got[c]
  <2> SUFFICES ASSUME NEW d \in IoRequests, AtHand(d)'
               PROVE  d # c /\ AtHand(d) /\ got'[d] = got[d] /\ got[d] # got[c]
    OBVIOUS
  <2>1. d # c /\ AtHand(d) /\ got'[d] = got[d]
    BY <1>1 DEF AtHand, IInv, TypeOK
  <2>2. got[d] # got[c]
    BY <1>2, <2>1 DEF Answering, AtHand
  <2> QED BY <2>1, <2>2
<1>4. \A d \in IoRequests : st'[d] = "pending" => got'[d] = 0
  BY <1>1 DEF Answering, IInv, TypeOK
<1>5. got[c] \in 0..MaxRequests /\ got[c] <= Len(kind) /\ (got[c] # 0 => sends[got[c]] = 0)
  <2>1. got[c] \in 0..MaxRequests /\ Len(kind) \in Nat
    BY DEF IInv, TypeOK
  <2> QED BY <1>2, <2>1 DEF Answering
<1>6. \A i \in DOMAIN arrived : arrived[i] # got[c] /\ arrived[i] \in 1..MaxRequests
  <2>1. \A i \in DOMAIN arrived : arrived[i] \in 1..MaxRequests
    BY Elements DEF IInv, TypeOK
  <2> QED BY <1>2, <2>1 DEF Answering
<1>7. \A i, j \in DOMAIN arrived' : arrived'[i] = arrived'[j] => i = j
  BY <1>1 DEF Answering
<1> QED BY <1>1, <1>3, <1>4, <1>5, <1>6, <1>7, OneAnswered

\* A receive that could not be posted, perhaps because the front one does not
\* fit; then that is answered.
LEMMA NotPostedAnswering ==
  ASSUME IInv, Answering, NEW d, NotPosted(d), UNCHANGED kind,
         \A c \in IoRequests : st'[c] = st[c] \/ st'[c] = "cleanup"
  PROVE  Answering'
<1>1. got' = got
  BY DEF NotPosted
<1>2. \A c \in IoRequests : AtHand(c)' => AtHand(c)
  BY <1>1 DEF AtHand, Working
<1>3. \A c \in IoRequests : st'[c] = "pending" => got'[c] = 0
  BY <1>1 DEF Answering
<1>4. CASE UNCHANGED <<arrived, sends>>
  BY <1>1, <1>2, <1>3, <1>4, NothingAnswered
<1>5. ASSUME arrived # <<>>, arrived' = Tail(arrived),
             sends' = [sends EXCEPT ![Head(arrived)] = @ + 1]
      PROVE  Answering'
  <2> DEFINE h == Head(arrived)
  <2>1. /\ h \in 1..MaxRequests /\ h <= Len(kind) /\ sends[h] = 0
        /\ \A i \in DOMAIN arrived' :
             i + 1 \in DOMAIN arrived /\ arrived'[i] = arrived[i + 1] /\ arrived'[i] # h
        /\ \A i, j \in DOMAIN arrived' : arrived'[i] = arrived'[j] => i = j
        /\ \A c \in IoRequests : AtHand(c) => got[c] # h
    BY <1>5, Taken
  <2>2. sends' = [sends EXCEPT ![h] = @ + 1]
    BY <1>5
  <2> HIDE DEF h
  <2>3. h \in 0..MaxRequests
    BY <2>1, ConstantsAssumption
  <2>4. \A i \in DOMAIN arrived' :
          arrived'[i] # h /\ \E j \in DOMAIN arrived : arrived[j] = arrived'[i]
    BY <2>1
  <2> QED BY <1>1, <1>2, <1>3, <2>1, <2>2, <2>3, <2>4, OneAnswered
<1> QED BY <1>4, <1>5 DEF NotPosted, SendReply

\* Every step keeps it.
LEMMA AnsweringStep == IInv /\ Answering /\ [Next]_vars => Answering'
<1> SUFFICES ASSUME IInv, Answering, [Next]_vars PROVE Answering'
  OBVIOUS
<1>1. ASSUME NEW k \in Kinds, Arrives(k) PROVE Answering'
  BY <1>1, ArrivesAnswering
<1>2. ASSUME NEW c \in IoRequests, Receives(c) \/ Send(c) \/ SendFile(c) PROVE Answering'
  BY <1>2, ReceivesAnswering, SendAnswering
<1>3. ASSUME NEW c \in IoRequests,
             ReceiveFails(c) \/ Begin(c) \/ CheckStop(c) \/ Route(c) \/ Handled(c)
      PROVE  Answering'
  <2> USE DEF ReceiveFails, Begin, CheckStop, Route, Handled, Step, netVars, reqVars
  <2>1. UNCHANGED <<kind, arrived, sends, got>>
    BY <1>3
  <2>2. \A d \in IoRequests : AtHand(d)' => AtHand(d)
    BY <1>3 DEF AtHand, Working, Answering, IInv, TypeOK
  <2>3. \A d \in IoRequests : st'[d] = "pending" => got'[d] = 0
    BY <1>3 DEF Answering, IInv, TypeOK
  <2> QED BY <2>1, <2>2, <2>3, NothingAnswered
<1>4. ASSUME NEW c \in IoRequests, ProcessReceive(c) \/ Cleanup(c) PROVE Answering'
  <2> USE DEF ProcessReceive, Process, Cleanup, Step, netVars, reqVars
  <2>1. UNCHANGED <<kind, arrived, sends>>
    BY <1>4
  <2>2. \A d \in IoRequests :
          (AtHand(d)' => AtHand(d) /\ got'[d] = got[d]) /\ (st'[d] = "pending" => got'[d] = 0)
    BY <1>4 DEF AtHand, Working, Answering, IInv, TypeOK
  <2> QED BY <2>1, <2>2, NothingAnswered
<1>5. ASSUME NEW d \in Allocatable(IoRequests, usedReq, freeReq), Posted(d), UNCHANGED kind,
             \A c \in IoRequests : st'[c] \in {st[c], "cleanup"} \/ (c = d /\ st'[c] = "pending")
      PROVE  Answering'
  <2>1. d \in IoRequests
    BY Fresh DEF IInv, TypeOK, Owned
  <2>2. UNCHANGED <<arrived, sends>> /\ got' = [got EXCEPT ![d] = 0]
    BY <1>5 DEF Posted
  <2>3. \A c \in IoRequests :
          (AtHand(c)' => AtHand(c) /\ got'[c] = got[c]) /\ (st'[c] = "pending" => got'[c] = 0)
    BY <1>5, <2>1, <2>2 DEF AtHand, Working, Answering, IInv, TypeOK
  <2> QED BY <1>5, <2>2, <2>3, NothingAnswered
<1>6. ASSUME NEW c \in IoRequests, Repost(c) PROVE Answering'
  <2>1. UNCHANGED kind /\ st \in [IoRequests -> Steps]
    BY <1>6 DEF Repost, IInv, TypeOK, Steps
  <2>2. ASSUME NEW d \in Allocatable(IoRequests, usedReq, freeReq), Posted(d),
               st' = [st EXCEPT ![c] = "cleanup", ![d] = "pending"]
        PROVE  Answering'
    <3>1. \A e \in IoRequests : st'[e] \in {st[e], "cleanup"} \/ (e = d /\ st'[e] = "pending")
      BY <2>1, <2>2
    <3> QED BY <1>5, <2>1, <2>2, <3>1
  <2>3. ASSUME NEW d, NotPosted(d), st' = [st EXCEPT ![c] = "cleanup"] PROVE Answering'
    <3>1. \A e \in IoRequests : st'[e] = st[e] \/ st'[e] = "cleanup"
      BY <2>1, <2>3
    <3> QED BY <2>1, <2>3, <3>1, NotPostedAnswering
  <2> QED BY <1>6, <2>2, <2>3 DEF Repost
<1>7. CASE Post
  <2>1. UNCHANGED kind /\ st \in [IoRequests -> Steps]
    BY <1>7 DEF Post, IInv, TypeOK, Steps
  <2>2. ASSUME NEW d \in Allocatable(IoRequests, usedReq, freeReq), Posted(d),
               st' = [st EXCEPT ![d] = "pending"]
        PROVE  Answering'
    <3>1. \A e \in IoRequests : st'[e] \in {st[e], "cleanup"} \/ (e = d /\ st'[e] = "pending")
      BY <2>1, <2>2
    <3> QED BY <1>5, <2>1, <2>2, <3>1
  <2>3. ASSUME NEW d, NotPosted(d), UNCHANGED st PROVE Answering'
    <3>1. \A e \in IoRequests : st'[e] = st[e] \/ st'[e] = "cleanup"
      BY <2>3
    <3> QED BY <2>1, <2>3, <3>1, NotPostedAnswering
  <2> QED BY <1>7, <2>2, <2>3 DEF Post
<1>8. CASE StopServer \/ CancelCallbacks
  <2>1. UNCHANGED <<kind, sends, got>> /\ arrived' \in {arrived, <<>>}
    BY <1>8 DEF StopServer, CancelCallbacks, netVars, reqVars
  <2>2. \A c \in IoRequests : (AtHand(c)' => AtHand(c)) /\ (st'[c] = "pending" => got'[c] = 0)
    BY <1>8, <2>1 DEF StopServer, CancelCallbacks, AtHand, Working, Answering
  <2> QED BY <2>1, <2>2, NothingAnswered
<1>9. CASE \/ Start \/ StartReturns \/ Destroy \/ WaitReturns \/ Uninitialize \/ UNCHANGED vars
           \/ \E r \in IoReplies : SendEnds(r) \/ SendCompletion(r)
  <2>1. UNCHANGED <<kind, arrived, sends, got, st>>
    BY <1>9 DEF Start, StartReturns, Destroy, WaitReturns, AfterWait, Uninitialize, vars, SendEnds,
                SendCompletion, netVars, reqVars
  <2> QED BY <2>1, NothingAnswered DEF AtHand, Answering
<1> QED BY <1>1, <1>2, <1>3, <1>4, <1>6, <1>7, <1>8, <1>9 DEF Next, Callback, Owner

\* ReceiveCompletionCallback and PostNewReceive, with any number of callbacks: no
\* request is answered twice, and none is answered while somebody may yet answer it.
THEOREM AnsweredOnceHolds == Spec => []AnsweredOnce
<1>1. Init => Answering
  BY ConstantsAssumption DEF Init, Answering, AtHand
<1>2. IInv /\ Answering => AnsweredOnce
  <2> SUFFICES ASSUME IInv, Answering, NEW n \in 1..Len(kind)
               PROVE  /\ sends[n] <= 1
                      /\ sends[n] = 1 =>
                           /\ \A i \in DOMAIN arrived : arrived[i] # n
                           /\ \A c \in IoRequests :
                                st[c] \in {"done"} \cup (Working \ {"repost"}) => got[c] # n
    BY DEF AnsweredOnce
  <2>1. n \in 1..MaxRequests /\ n # 0
    BY ConstantsAssumption DEF IInv, TypeOK
  <2> QED BY <2>1 DEF Answering, AtHand
<1> QED BY Invariant, AnsweringStep, <1>1, <1>2, PTL DEF Spec

-----------------------------------------------------------------------------
(* What is used comes back.                                                *)

\* Only a callback between its allocation of a response and the send has one.
OnlyHolding == \A c \in IoRequests : mine[c] # NoReply => st[c] \in {"route", "handle", "send"}

\* Every step keeps that.
LEMMA OnlyHoldingStep == IInv /\ OnlyHolding /\ [Next]_vars => OnlyHolding'
<1> SUFFICES ASSUME IInv, OnlyHolding, [Next]_vars PROVE OnlyHolding'
  OBVIOUS
<1> USE DEF IInv, OnlyHolding, ownerVars, netVars, reqVars, reqPool, repPool
<1>1. CASE \/ \E k \in Kinds : Arrives(k)
           \/ \E r \in IoReplies : SendEnds(r) \/ SendCompletion(r)
           \/ Start \/ StartReturns \/ Destroy \/ WaitReturns \/ Uninitialize \/ UNCHANGED vars
  <2>1. UNCHANGED <<mine, st>>
    BY <1>1 DEF Arrives, SendEnds, SendCompletion, Start, StartReturns, Destroy, WaitReturns,
                AfterWait, Uninitialize, vars
  <2> QED BY <2>1
<1>2. ASSUME NEW c \in IoRequests,
             Receives(c) \/ ReceiveFails(c) \/ Begin(c) \/ CheckStop(c) \/ Route(c) \/ Handled(c)
             \/ Cleanup(c)
      PROVE  OnlyHolding'
  BY <1>2 DEF Receives, ReceiveFails, Begin, CheckStop, Route, Handled, Cleanup, Step, TypeOK
<1>3. ASSUME NEW c \in IoRequests, ProcessReceive(c) PROVE OnlyHolding'
  BY <1>3 DEF ProcessReceive, Process, Step, TypeOK
<1>4. ASSUME NEW c \in IoRequests, Send(c) \/ SendFile(c) PROVE OnlyHolding'
  BY <1>4 DEF Send, SendFile, Step, TypeOK
<1>5. ASSUME NEW c \in IoRequests, Repost(c) PROVE OnlyHolding'
  <2>1. ASSUME NEW d \in Allocatable(IoRequests, usedReq, freeReq), Posted(d),
               st' = [st EXCEPT ![c] = "cleanup", ![d] = "pending"], UNCHANGED mine, st[c] = "repost"
        PROVE  OnlyHolding'
    <3>1. st[d] = "none"
      <4>1. d \in IoRequests /\ d \notin usedReq
        BY Fresh DEF TypeOK, Owned
      <4> QED BY <4>1 DEF Owned
    <3> QED BY <2>1, <3>1 DEF TypeOK
  <2>2. CASE st' = [st EXCEPT ![c] = "cleanup"] /\ UNCHANGED mine /\ st[c] = "repost"
    BY <2>2 DEF TypeOK
  <2> QED BY <1>5, <2>1, <2>2 DEF Repost
<1>6. CASE Post
  <2>1. ASSUME NEW d \in Allocatable(IoRequests, usedReq, freeReq),
               st' = [st EXCEPT ![d] = "pending"], UNCHANGED mine
        PROVE  OnlyHolding'
    <3>1. st[d] = "none"
      <4>1. d \in IoRequests /\ d \notin usedReq
        BY Fresh DEF TypeOK, Owned
      <4> QED BY <4>1 DEF Owned
    <3> QED BY <2>1, <3>1 DEF TypeOK
  <2> QED BY <1>6, <2>1 DEF Post
<1>7. CASE StopServer \/ CancelCallbacks
  <2>1. UNCHANGED mine /\ \A c \in IoRequests : st[c] \in {"route", "handle", "send"} => st'[c] = st[c]
    BY <1>7 DEF StopServer, CancelCallbacks
  <2>2. \A c \in IoRequests : mine'[c] # NoReply => st'[c] \in {"route", "handle", "send"}
    BY <2>1
  <2> QED BY <2>2
<1> QED BY <1>1, <1>2, <1>3, <1>4, <1>5, <1>6, <1>7 DEF Next, Callback, Owner

\* A step after which the server has not been told to stop is none of StopServer.
LEMMA StillRuns ==
  ASSUME IInv, [Next]_vars, ~bStopServer'
  PROVE  ~bStopServer /\ ~StopServer /\ ~CancelCallbacks
<1>1. ~bStopServer /\ ~StopServer
  BY DEF Next, Callback, Owner, vars, Arrives, Receives, ReceiveFails, SendEnds, Begin, CheckStop,
         ProcessReceive, Route, Handled, Send, SendFile, Repost, Cleanup, SendCompletion, Start, Post,
         StartReturns, Destroy, StopServer, CancelCallbacks, WaitReturns, AfterWait, Uninitialize
<1> QED BY <1>1 DEF CancelCallbacks, IInv, Stopped

\* What a receive that could not be posted leaves in use.
LEMMA NotPostedGivesBack ==
  ASSUME IInv, NEW d, NotPosted(d), UNCHANGED mine
  PROVE  /\ usedReq' = usedReq
         /\ \A r \in usedRep : r \in usedRep' /\ (sending[r] # "none" => sending'[r] # "none")
         /\ \A r \in usedRep' : r \in usedRep \/ sending'[r] # "none"
<1>1. CASE UNCHANGED repPool
  BY <1>1 DEF repPool, NotPosted
<1>2. ASSUME NEW n, NEW r \in Allocatable(IoReplies, usedRep, freeRep), SendReply(n, r),
             IF sending' = sending
               THEN freeRep' = freeRep \cup {r} /\ UNCHANGED usedRep
               ELSE usedRep' = usedRep \cup {r} /\ freeRep' = freeRep \ {r}
      PROVE  /\ \A q \in usedRep : q \in usedRep' /\ (sending[q] # "none" => sending'[q] # "none")
             /\ \A q \in usedRep' : q \in usedRep \/ sending'[q] # "none"
  <2>1. r \in IoReplies /\ sending \in [IoReplies -> {"none", "pending", "done"}]
    BY Fresh DEF IInv, TypeOK, Owned
  <2>2. CASE sending' = sending
    BY <1>2, <2>2
  <2>3. CASE sending' # sending
    <3>1. sending' = [sending EXCEPT ![r] = "pending"] /\ usedRep' = usedRep \cup {r}
      BY <1>2, <2>3 DEF SendReply
    <3> QED BY <2>1, <3>1 DEF IInv, TypeOK
  <2> QED BY <2>2, <2>3
<1> QED BY <1>1, <1>2 DEF NotPosted

\* While the server runs every step leaves what is in use where it comes back from.
LEMMA GivenBackStep == IInv /\ OnlyHolding /\ GivenBack /\ [Next]_vars => GivenBack'
<1> SUFFICES ASSUME IInv, OnlyHolding, GivenBack, [Next]_vars, ~bStopServer' PROVE GivenBack'
  BY DEF GivenBack
<1> USE DEF GivenBack, IInv, ownerVars, netVars, reqVars, reqPool, repPool
<1>1. ~bStopServer /\ ~StopServer /\ ~CancelCallbacks
  BY StillRuns
<1>2. CASE \/ \E k \in Kinds : Arrives(k)
           \/ Start \/ StartReturns \/ Destroy \/ WaitReturns \/ Uninitialize \/ UNCHANGED vars
  <2>1. UNCHANGED <<usedReq, st, usedRep, kept, sending, mine>>
    BY <1>2 DEF Arrives, Start, StartReturns, Destroy, WaitReturns, AfterWait, Uninitialize, vars
  <2> QED BY <1>1, <2>1
<1>3. ASSUME NEW c \in IoRequests,
             Receives(c) \/ ReceiveFails(c) \/ Begin(c) \/ CheckStop(c) \/ Route(c) \/ Handled(c)
      PROVE  GivenBack'
  <2>1. /\ UNCHANGED <<usedReq, usedRep, kept, sending, mine>>
        /\ \A d \in IoRequests : st[d] # "none" => st'[d] # "none"
    BY <1>3 DEF Receives, ReceiveFails, Begin, CheckStop, Route, Handled, Step, TypeOK
  <2> QED BY <1>1, <2>1 DEF TypeOK
<1>4. ASSUME NEW c \in IoRequests, ProcessReceive(c) PROVE GivenBack'
  <2>1. /\ UNCHANGED <<usedReq, kept, sending>> /\ st[c] = "process"
        /\ \A d \in IoRequests : st[d] # "none" => st'[d] # "none"
    BY <1>4 DEF ProcessReceive, Process, Step, TypeOK
  <2>2. PICK r \in Allocatable(IoReplies, usedRep, freeRep) :
          \/ UNCHANGED <<mine, usedRep>>
          \/ mine' = [mine EXCEPT ![c] = r] /\ usedRep' = usedRep \cup {r}
    BY <1>4 DEF ProcessReceive, Process
  <2>3. mine[c] = NoReply /\ r \in IoReplies
    BY <2>1, Fresh DEF OnlyHolding, TypeOK, Owned
  <2>4. \A d \in IoRequests : mine[d] \in IoReplies => mine'[d] = mine[d]
    BY <2>2, <2>3, ConstantsAssumption DEF TypeOK
  <2>5. \A q \in usedRep' : q \in usedRep \/ (q = r /\ mine'[c] = r)
    BY <2>2, <2>3 DEF TypeOK
  <2>6. \A d \in usedReq' : st'[d] # "none"
    BY <1>1, <2>1 DEF TypeOK
  <2>7. ASSUME NEW q \in usedRep'
        PROVE  q \in kept' \/ sending'[q] # "none" \/ \E d \in IoRequests : mine'[d] = q
    <3>1. CASE q \in usedRep
      <4>1. q \in IoReplies
        BY <3>1 DEF TypeOK
      <4>2. q \in kept \/ sending[q] # "none" \/ \E d \in IoRequests : mine[d] = q
        BY <1>1, <3>1
      <4> QED BY <2>1, <2>4, <4>1, <4>2
    <3>2. CASE mine'[c] = q
      BY <3>2
    <3> QED BY <2>5, <3>1, <3>2
  <2> QED BY <2>6, <2>7
<1>5. ASSUME NEW c \in IoRequests, Send(c) \/ SendFile(c) PROVE GivenBack'
  <2>1. /\ UNCHANGED usedReq /\ st' = [st EXCEPT ![c] = "repost"]
        /\ mine' = [mine EXCEPT ![c] = NoReply]
    BY <1>5 DEF Send, SendFile, Step
  <2>2. \A q \in IoReplies : q # mine[c] => \A d \in IoRequests : mine[d] = q => mine'[d] = q
    BY <2>1 DEF TypeOK
  <2>3. /\ usedRep' \subseteq usedRep /\ kept \subseteq kept'
        /\ \A q \in IoReplies : sending[q] # "none" => sending'[q] # "none"
        /\ mine[c] \in usedRep' => mine[c] \in kept' \/ sending'[mine[c]] # "none"
    <3>1. mine[c] \in IoReplies
      BY <1>5 DEF Send, SendFile, Step, Holding, TypeOK
    <3>2. CASE Send(c)
      BY <3>1, <3>2 DEF Send, SendReply, FreeReply, TypeOK
    <3>3. CASE SendFile(c)
      BY <3>3 DEF SendFile, FreeReply, TypeOK
    <3> QED BY <1>5, <3>2, <3>3
  <2> QED BY <1>1, <2>1, <2>2, <2>3 DEF TypeOK
<1>6. ASSUME NEW c \in IoRequests, Cleanup(c) PROVE GivenBack'
  BY <1>1, <1>6 DEF Cleanup, Step, TypeOK
<1>7. ASSUME NEW r \in IoReplies, SendEnds(r) \/ SendCompletion(r) PROVE GivenBack'
  <2>1. UNCHANGED <<usedReq, st, kept, mine>>
    BY <1>7 DEF SendEnds, SendCompletion
  <2>2. usedRep' \subseteq usedRep
        /\ \A q \in usedRep' : sending[q] # "none" => sending'[q] # "none"
    BY <1>7 DEF SendEnds, SendCompletion, FreeReply, TypeOK
  <2> QED BY <1>1, <2>1, <2>2
<1>8. ASSUME NEW d \in Allocatable(IoRequests, usedReq, freeReq), Posted(d), UNCHANGED <<mine, kept>>,
             st'[d] = "pending", \A c \in IoRequests : st[c] # "none" => st'[c] # "none"
      PROVE  GivenBack'
  BY <1>1, <1>8 DEF Posted, TypeOK
<1>9. ASSUME NEW d, NotPosted(d), UNCHANGED <<mine, kept>>,
             \A c \in IoRequests : st[c] # "none" => st'[c] # "none"
      PROVE  GivenBack'
  BY <1>1, <1>9, NotPostedGivesBack DEF TypeOK
<1>10. ASSUME NEW c \in IoRequests, Repost(c) PROVE GivenBack'
  <2>1. UNCHANGED <<mine, kept>> /\ st[c] = "repost"
    BY <1>10 DEF Repost
  <2>2. ASSUME NEW d \in Allocatable(IoRequests, usedReq, freeReq), Posted(d),
               st' = [st EXCEPT ![c] = "cleanup", ![d] = "pending"]
        PROVE  GivenBack'
    <3>1. d \in IoRequests
      BY Fresh DEF TypeOK, Owned
    <3>2. st'[d] = "pending" /\ \A e \in IoRequests : st[e] # "none" => st'[e] # "none"
      BY <2>2, <3>1 DEF TypeOK
    <3> QED BY <1>8, <2>1, <2>2, <3>2
  <2>3. ASSUME NEW d, NotPosted(d), st' = [st EXCEPT ![c] = "cleanup"] PROVE GivenBack'
    <3>1. \A e \in IoRequests : st[e] # "none" => st'[e] # "none"
      BY <2>3 DEF TypeOK
    <3> QED BY <1>9, <2>1, <2>3, <3>1
  <2> QED BY <1>10, <2>2, <2>3 DEF Repost
<1>11. CASE Post
  <2>1. UNCHANGED <<mine, kept>>
    BY <1>11 DEF Post
  <2>2. ASSUME NEW d \in Allocatable(IoRequests, usedReq, freeReq), Posted(d),
               st' = [st EXCEPT ![d] = "pending"]
        PROVE  GivenBack'
    <3>1. d \in IoRequests
      BY Fresh DEF TypeOK, Owned
    <3>2. st'[d] = "pending" /\ \A e \in IoRequests : st[e] # "none" => st'[e] # "none"
      BY <2>2, <3>1 DEF TypeOK
    <3> QED BY <1>8, <2>1, <2>2, <3>2
  <2>3. ASSUME NEW d, NotPosted(d), UNCHANGED st PROVE GivenBack'
    BY <1>9, <2>1, <2>3
  <2> QED BY <1>11, <2>2, <2>3 DEF Post
<1> QED BY <1>1, <1>2, <1>3, <1>4, <1>5, <1>6, <1>7, <1>10, <1>11 DEF Next, Callback, Owner

\* The receives http.sys or a callback has, until the callback posts the next.
Slots == {c \in IoRequests : st[c] \in Working \cup {"pending", "done"}}

SlotsCounted ==
  ~bStopServer => IsFiniteSet(Slots) /\ Cardinality(Slots) + lostSlots + toPost = NSlots

\* Every step keeps the count: a callback posts a receive before it is done, or
\* the receive is lost.
LEMMA SlotsStep == IInv /\ SlotsCounted /\ [Next]_vars => SlotsCounted'
<1> SUFFICES ASSUME IInv, SlotsCounted, [Next]_vars, ~bStopServer' PROVE SlotsCounted'
  BY DEF SlotsCounted
<1> USE DEF SlotsCounted, ownerVars, netVars, reqVars, reqPool, repPool
<1>1. /\ ~bStopServer /\ ~StopServer /\ ~CancelCallbacks
      /\ IsFiniteSet(Slots) /\ Cardinality(Slots) \in Nat
      /\ Cardinality(Slots) + lostSlots + toPost = NSlots
      /\ st \in [IoRequests -> Steps] /\ lostSlots \in Nat /\ toPost \in Nat /\ NSlots \in Nat
  BY StillRuns, FS_CardinalityType, ConstantsAssumption DEF IInv, TypeOK, Steps
<1>2. CASE Slots' = Slots /\ UNCHANGED <<lostSlots, toPost>>
  BY <1>1, <1>2
<1>3. CASE \/ \E k \in Kinds : Arrives(k)
           \/ \E r \in IoReplies : SendEnds(r) \/ SendCompletion(r)
           \/ Start \/ StartReturns \/ Destroy \/ WaitReturns \/ Uninitialize \/ UNCHANGED vars
  <2>1. UNCHANGED <<st, lostSlots, toPost>>
    BY <1>3 DEF Arrives, SendEnds, SendCompletion, Start, StartReturns, Destroy, WaitReturns,
                AfterWait, Uninitialize, vars
  <2> QED BY <1>2, <2>1 DEF Slots
<1>4. ASSUME NEW c \in IoRequests,
             Receives(c) \/ ReceiveFails(c) \/ Begin(c) \/ CheckStop(c) \/ Route(c) \/ Handled(c)
             \/ ProcessReceive(c) \/ Send(c) \/ SendFile(c) \/ Cleanup(c)
      PROVE  SlotsCounted'
  <2>1. UNCHANGED <<lostSlots, toPost>>
    BY <1>4 DEF Receives, ReceiveFails, Begin, CheckStop, Route, Handled, ProcessReceive, Send,
                SendFile, Cleanup
  <2>2. \E to \in Steps :
          /\ st' = [st EXCEPT ![c] = to]
          /\ to \in Working \cup {"pending", "done"} <=> st[c] \in Working \cup {"pending", "done"}
    BY <1>1, <1>4 DEF Receives, ReceiveFails, Begin, CheckStop, Route, Handled, ProcessReceive,
                Process, Send, SendFile, Cleanup, Step, Steps, Working
  <2>3. Slots' = Slots
    BY <1>1, <2>2 DEF Slots
  <2> QED BY <1>2, <2>1, <2>3
<1>5. ASSUME NEW d \in Allocatable(IoRequests, usedReq, freeReq)
      PROVE  d \in IoRequests /\ st[d] = "none" /\ d \notin Slots
  <2>1. d \in IoRequests /\ d \notin usedReq
    BY Fresh DEF IInv, TypeOK, Owned
  <2>2. st[d] = "none"
    BY <2>1 DEF IInv, Owned
  <2> QED BY <2>1, <2>2 DEF Slots, Working
<1>6. ASSUME NEW c \in IoRequests, Repost(c) PROVE SlotsCounted'
  <2>1. c \in Slots /\ UNCHANGED toPost
    BY <1>6 DEF Repost, Slots, Working
  <2>2. /\ IsFiniteSet(Slots \ {c})
        /\ Cardinality(Slots \ {c}) = Cardinality(Slots) - 1
    BY <1>1, <2>1, FS_RemoveElement
  <2>3. ASSUME NEW d \in Allocatable(IoRequests, usedReq, freeReq), Posted(d),
               st' = [st EXCEPT ![c] = "cleanup", ![d] = "pending"]
        PROVE  SlotsCounted'
    <3>1. Slots' = (Slots \ {c}) \cup {d} /\ d \notin Slots \ {c}
      BY <1>1, <1>5, <2>1, <2>3 DEF Slots, Working
    <3>2. IsFiniteSet(Slots') /\ Cardinality(Slots') = Cardinality(Slots \ {c}) + 1
      BY <2>2, <3>1, FS_AddElement
    <3> QED BY <1>1, <2>1, <2>2, <2>3, <3>2 DEF Posted
  <2>4. ASSUME NEW d, NotPosted(d), st' = [st EXCEPT ![c] = "cleanup"] PROVE SlotsCounted'
    <3>1. Slots' = Slots \ {c}
      BY <1>1, <2>4 DEF Slots, Working
    <3>2. lostSlots' = lostSlots + 1
      BY <2>4 DEF NotPosted
    <3> QED BY <1>1, <2>1, <2>2, <3>1, <3>2
  <2> QED BY <1>6, <2>3, <2>4 DEF Repost
<1>7. CASE Post
  <2>1. toPost' = toPost - 1
    BY <1>7 DEF Post
  <2>2. ASSUME NEW d \in Allocatable(IoRequests, usedReq, freeReq), Posted(d),
               st' = [st EXCEPT ![d] = "pending"]
        PROVE  SlotsCounted'
    <3>1. Slots' = Slots \cup {d} /\ d \notin Slots
      BY <1>1, <1>5, <2>2 DEF Slots, Working
    <3>2. IsFiniteSet(Slots') /\ Cardinality(Slots') = Cardinality(Slots) + 1
      BY <1>1, <3>1, FS_AddElement
    <3> QED BY <1>1, <2>1, <2>2, <3>2 DEF Posted
  <2>3. ASSUME NEW d, NotPosted(d), UNCHANGED st PROVE SlotsCounted'
    <3>1. Slots' = Slots /\ lostSlots' = lostSlots + 1
      BY <2>3 DEF Slots, NotPosted
    <3> QED BY <1>1, <2>1, <3>1
  <2> QED BY <1>7, <2>2, <2>3 DEF Post
<1> QED BY <1>1, <1>3, <1>4, <1>6, <1>7 DEF Next, Callback, Owner

\* PostNewReceive and the two Cleanups, for any number of slots: while the server
\* runs all it uses comes back, and it loses a receive only when one cannot be posted.
THEOREM NothingLeaksHolds == Spec => []NothingLeaks
<1>1. Init => OnlyHolding /\ GivenBack /\ SlotsCounted
  <2> SUFFICES ASSUME Init PROVE OnlyHolding /\ GivenBack /\ SlotsCounted
    OBVIOUS
  <2>1. OnlyHolding /\ GivenBack
    BY DEF Init, OnlyHolding, GivenBack
  <2>2. Slots = {} /\ lostSlots = 0 /\ toPost = NSlots
    BY DEF Init, Slots, Working
  <2>3. SlotsCounted
    BY <2>2, FS_EmptySet, ConstantsAssumption DEF SlotsCounted
  <2> QED BY <2>1, <2>3
<1>2. GivenBack /\ SlotsCounted => NothingLeaks
  BY DEF NothingLeaks, SlotsCounted, SlotsKept, Slots
<1> QED BY Invariant, OnlyHoldingStep, GivenBackStep, SlotsStep, <1>1, <1>2, PTL DEF Spec

=============================================================================
