---------------------------- MODULE AtemLinkProofs ----------------------------
(***************************************************************************)
(* Proofs about AtemLink, for any inputs, moves of the preview and faults. *)
(***************************************************************************)
EXTENDS AtemLink, WellFoundedInduction, TLAPS

-----------------------------------------------------------------------------
(* Only.  The library's induction theorems take an operator, which the     *)
(* provers here cannot instantiate; that < on Nat is well founded says the *)
(* same of a set of numbers.                                               *)

LEMMA Least == ASSUME NEW N \in SUBSET Nat, N # {} PROVE \E n \in N : \A m \in N : n <= m
<1>1. PICK n \in N : \A m \in N : <<m, n>> \notin OpToRel(<, Nat)
  BY NatLessThanWellFounded, WFMin
<1>2. \A m \in N : ~(m < n)
  BY <1>1 DEF OpToRel
<1> QED BY <1>2

LEMMA Induction ==
  ASSUME NEW n \in Nat, NEW N, 0 \in N, \A k \in 1..n : k - 1 \in N => k \in N
  PROVE  \A k \in 0..n : k \in N
<1> DEFINE M == {j \in 0..n : j \notin N}
<1> SUFFICES ASSUME M # {} PROVE FALSE
  OBVIOUS
<1>0. M \in SUBSET Nat
  OBVIOUS
<1>1. PICK k \in M : \A m \in M : k <= m
  <2> HIDE DEF M
  <2> QED BY <1>0, Least
<1>2. k # 0 /\ k - 1 \in 0..n
  BY <1>1
<1>3. k - 1 \in N
  BY <1>1, <1>2
<1> QED BY <1>1, <1>2, <1>3

\* The function by which Only is defined exists.
LEMMA OnlyUnfolds ==
  ASSUME NEW T, NEW s \in Seq(T), NEW S
  PROVE  \E f : /\ f[0] = <<>>
                /\ \A k \in 1..Len(s) :
                     f[k] = IF s[k] \in S THEN Append(f[k - 1], s[k]) ELSE f[k - 1]
                /\ Only(s, S) = f[Len(s)]
<1> DEFINE Next1(k, v) == IF s[k] \in S THEN Append(v, s[k]) ELSE v
           Upto(n, f) == f = [k \in 0..n |-> IF k = 0 THEN <<>> ELSE Next1(k, f[k - 1])]
           N == {n \in 0..Len(s) : \E f : Upto(n, f)}
<1>1. Len(s) \in Nat
  OBVIOUS
<1>2. 0 \in N
  <2>1. Upto(0, [k \in 0..0 |-> <<>>])
    OBVIOUS
  <2> HIDE DEF Upto
  <2> QED BY <1>1, <2>1
<1>3. ASSUME NEW n \in 1..Len(s), n - 1 \in N PROVE n \in N
  <2>1. PICK f : Upto(n - 1, f)
    BY <1>3
  <2> DEFINE g == [k \in 0..n |-> IF k = n THEN Next1(n, f[n - 1]) ELSE f[k]]
  <2> HIDE DEF Next1
  <2>2. \A k \in 0..n : g[k] = IF k = 0 THEN <<>> ELSE Next1(k, g[k - 1])
    BY <2>1, <1>1
  <2>3. Upto(n, g)
    BY <2>2
  <2> HIDE DEF Upto, g
  <2> QED BY <2>3
<1> HIDE DEF N
<1>4. Len(s) \in N
  BY <1>1, <1>2, <1>3, Induction, SMTT(20)
<1>5. \E f : Upto(Len(s), f)
  BY <1>4 DEF N
<1> DEFINE only == CHOOSE f : Upto(Len(s), f)
<1>6. Upto(Len(s), only)
  BY <1>5
<1>7. Only(s, S) = only[Len(s)]
  BY DEF Only
<1> HIDE DEF only, Next1
<1>8. only[0] = <<>> /\ \A k \in 1..Len(s) : only[k] = Next1(k, only[k - 1])
  BY <1>1, <1>6
<1> QED BY <1>7, <1>8 DEF Next1

\* Only keeps what is in S, and the first and the last element where they are.
LEMMA OnlyKeeps ==
  ASSUME NEW T, NEW s \in Seq(T), NEW S
  PROVE  LET r == Only(s, S)
         IN  /\ r \in Seq(T)
             /\ \A k \in DOMAIN r : r[k] \in S
             /\ \A j \in DOMAIN s : s[j] \in S =>
                  \E k \in DOMAIN r : r[k] = s[j] /\ (j # 1 /\ s[1] \in S => k # 1)
             /\ s # <<>> /\ s[1] \in S => r # <<>> /\ r[1] = s[1]
             /\ s # <<>> /\ s[Len(s)] \in S => r # <<>> /\ r[Len(r)] = s[Len(s)]
<1>1. PICK f : /\ f[0] = <<>>
               /\ \A k \in 1..Len(s) :
                    f[k] = IF s[k] \in S THEN Append(f[k - 1], s[k]) ELSE f[k - 1]
               /\ Only(s, S) = f[Len(s)]
  BY OnlyUnfolds
<1> DEFINE Kept(n, r) ==
             /\ r \in Seq(T)
             /\ \A k \in DOMAIN r : r[k] \in S
             /\ \A j \in 1..n : s[j] \in S =>
                  \E k \in DOMAIN r : r[k] = s[j] /\ (j # 1 /\ s[1] \in S => k # 1)
             /\ n # 0 /\ s[1] \in S => r # <<>> /\ r[1] = s[1]
             /\ n # 0 /\ s[n] \in S => r # <<>> /\ r[Len(r)] = s[n]
           N == {n \in 0..Len(s) : Kept(n, f[n])}
<1>2. Len(s) \in Nat /\ DOMAIN s = 1..Len(s) /\ \A k \in 1..Len(s) : s[k] \in T
  OBVIOUS
<1>3. Kept(0, f[0])
  <2>1. f[0] = <<>>
    BY <1>1, <1>2
  <2> QED BY <2>1
<1>4. ASSUME NEW n \in 1..Len(s), Kept(n - 1, f[n - 1]) PROVE Kept(n, f[n])
  <2> DEFINE q == f[n - 1]
             r == f[n]
  <2>1. r = IF s[n] \in S THEN Append(q, s[n]) ELSE q
    BY <1>1, <1>2
  <2>2. n \in Nat /\ n # 0 /\ (n # 1 => n - 1 # 0) /\ (n - 1 = 0 => n = 1) /\ s[n] \in T
    BY <1>2
  <2>3. CASE s[n] \notin S
    <3>1. r = q /\ \A j \in 1..n : s[j] \in S => j \in 1..(n - 1)
      BY <2>1, <2>2, <2>3
    <3>2. s[1] \in S => n - 1 # 0
      BY <2>2, <2>3
    <3> QED BY <1>4, <2>2, <3>1, <3>2
  <2>4. CASE s[n] \in S
    <3>0. q \in Seq(T)
      BY <1>4
    <3>1. /\ r \in Seq(T) /\ DOMAIN r = 1..(Len(q) + 1) /\ DOMAIN q = 1..Len(q)
          /\ Len(q) \in Nat
          /\ r[Len(q) + 1] = s[n] /\ \A k \in 1..Len(q) : r[k] = q[k]
      <4> HIDE DEF q, r
      <4> QED BY <2>1, <2>2, <2>4, <3>0
    <3>2. \A k \in DOMAIN r : r[k] \in S
      BY <1>4, <2>4, <3>1, SMTT(20)
    <3>3. n # 1 /\ s[1] \in S => Len(q) # 0 /\ q[1] = s[1]
      BY <1>4, <2>2, <3>1
    <3>4. s[1] \in S => r # <<>> /\ r[1] = s[1]
      <4>1. CASE n = 1
        <5>1. s[1] \in S => TRUE
          OBVIOUS
        <5>2. q = <<>>
          BY <1>1, <1>2, <4>1
        <5> QED BY <3>1, <4>1, <5>2
      <4>2. CASE n # 1
        BY <3>1, <3>3, <4>2
      <4> QED BY <4>1, <4>2
    <3>5. ASSUME NEW j \in 1..n, s[j] \in S
          PROVE \E k \in DOMAIN r : r[k] = s[j] /\ (j # 1 /\ s[1] \in S => k # 1)
      <4>1. CASE j = n
        BY <2>2, <3>1, <3>3, <4>1
      <4>2. CASE j # n
        <5>1. j \in 1..(n - 1)
          BY <2>2, <4>2
        <5>2. PICK k \in DOMAIN q : q[k] = s[j] /\ (j # 1 /\ s[1] \in S => k # 1)
          BY <1>4, <3>5, <5>1
        <5> QED BY <3>1, <5>2, SMTT(20)
      <4> QED BY <4>1, <4>2
    <3>6. r # <<>> /\ r[Len(r)] = s[n]
      <4> HIDE DEF q, r
      <4> QED BY <3>1
    <3> QED BY <2>2, <3>1, <3>2, <3>4, <3>5, <3>6
  <2> QED BY <2>3, <2>4
<1> HIDE DEF Kept
<1>5. Kept(Len(s), f[Len(s)])
  <2>0. Len(s) \in Nat
    BY <1>2
  <2>1. 0 \in N
    BY <2>0, <1>3
  <2>2. \A k \in 1..Len(s) : k - 1 \in N => k \in N
    BY <2>0, <1>4
  <2> HIDE DEF N
  <2>3. Len(s) \in N
    BY <2>0, <2>1, <2>2, Induction, SMTT(20)
  <2> QED BY <2>3 DEF N
<1>6. s # <<>> => Len(s) # 0
  OBVIOUS
<1> QED BY <1>1, <1>2, <1>5, <1>6 DEF Kept

-----------------------------------------------------------------------------
(* The invariant.                                                          *)

Places ==
  {"start", "top", "connect", "callback", "iterator", "next", "watch", "mixer", "audioIterator",
   "audio", "audioSolo", "events", "inputs", "solo", "stop", "release", "done",
   "crashed"}

Flags ==
  /\ up \in BOOLEAN /\ notifying \in BOOLEAN /\ running \in BOOLEAN /\ callback \in BOOLEAN
  /\ lost \in BOOLEAN /\ monitor \in BOOLEAN /\ read \in BOOLEAN /\ unheeded \in BOOLEAN
  /\ parted \in BOOLEAN

TypeOK ==
  /\ Flags
  /\ preview \in Inputs /\ solo \in Inputs \cup {Nobody}
  /\ pending \in Seq(Inputs) /\ inputEvts \in Seq(Inputs)
  /\ pc \in Places /\ switcher \in {"null", "live", "dead"}
  /\ todo \subseteq Inputs /\ cur \in Inputs \cup {Nobody}
  /\ pc \in {"watch", "audioSolo", "solo"} => cur \in Inputs
  /\ watched \in [Inputs -> {"none", "on", "left", "orphan"}]
  /\ tally \in [Inputs -> BOOLEAN] /\ audio \in [Inputs -> BOOLEAN]
  /\ missed \subseteq Inputs /\ moves \in Nat /\ faults \in Nat

On == {i \in Inputs : watched[i] = "on"}

\* Whose monitor asks to be called back, by the place of the thread.
Watching ==
  /\ switcher = "null" \/ pc \in {"connect", "callback", "iterator"} =>
       On = {} \/ pc \in {"release", "crashed"}
  /\ pc = "watch" => cur \notin todo
  /\ pc \in {"next", "watch"} => On = {i \in Inputs \ todo : pc = "watch" => i # cur}
  /\ pc \in {"mixer", "audioIterator", "audio", "audioSolo"} => On = Inputs
  /\ pc \in {"top", "events", "inputs", "solo", "stop"} /\ switcher # "null" => On = Inputs

\* When there is a switcher, and what is gone at the end.
Linked ==
  /\ switcher = "live" => up
  /\ notifying => pending # <<>>
  /\ pc = "connect" => switcher = "null"
  /\ pc \in Connecting \cup {"callback", "iterator"} => switcher # "null"
  /\ pc \in {"start", "release", "done", "crashed"} => ~callback /\ switcher = "null"

\* Who is left at the end, and that a handled disconnect leaves nobody.
Leftover ==
  /\ parted => pc \notin Connecting /\ \A i \in Inputs : watched[i] = "none"
  /\ \A i \in Inputs : watched[i] = "orphan" => pc \in {"done", "crashed"}
  /\ pc = "start" => pending = <<>> /\ \A i \in Inputs : watched[i] = "none"
  /\ pc = "done" => /\ \A i \in Inputs : watched[i] \in {"none", "orphan"}
                    /\ \A k \in DOMAIN pending : watched[pending[k]] = "orphan"

\* The monitor output is looked for in each connection, then the audio inputs.
Sounding ==
  /\ pc \in {"connect", "callback", "iterator", "next", "watch", "mixer"} => ~monitor
  /\ pc \in {"next", "watch", "mixer", "audioIterator"} => \A i \in On : ~audio[i]
  /\ pc \in {"audio", "audioSolo"} =>
       todo \subseteq Audible /\ \A i \in Inputs : audio[i] <=> i \in Audible \ todo
  /\ pc \in {"top", "events", "inputs", "solo"} /\ switcher # "null" /\ monitor =>
       \A i \in Inputs : audio[i] <=> i \in Audible

\* A callback for i is to come that has not read the tally yet.
Due(i) == \E k \in DOMAIN pending : pending[k] = i /\ (k = 1 => ~notifying)

\* A tally is right, or to be read again, or nobody was told.
Current ==
  switcher = "live" =>
    /\ \A i \in On : i \notin missed /\ ~Due(i) => tally[i] = (preview = i)
    /\ pc = "watch" /\ cur \notin missed => read = (preview = cur)

TalliesRight == \A i \in On : tally[i] = (preview = i)

SoloDue == IF preview \in Audible THEN preview ELSE Nobody

\* The output is on the preview, or about to be put there.
SoloRight == IF pc = "solo" THEN cur = preview ELSE solo = SoloDue

\* While the thread connects and the preview rests, every tally is right.
Unmoved ==
  switcher = "live" =>
    /\ pc \in Connecting /\ ~unheeded =>
         TalliesRight /\ (pc = "watch" => read = (preview = cur))
    /\ pc = "audioIterator" /\ monitor => solo = Nobody
    /\ pc = "audio" /\ monitor /\ ~unheeded =>
         solo = IF preview \in Audible \ todo THEN preview ELSE Nobody
    /\ pc = "audioSolo" /\ ~unheeded => cur = preview /\ cur \in Audible \ todo

\* The last event to be handled is that of the preview.
LastIsPreview ==
  /\ IF pending # <<>> THEN pending[Len(pending)] = preview
     ELSE inputEvts # <<>> /\ inputEvts[Len(inputEvts)] = preview
  /\ preview \in missed => Due(preview)

\* The output follows: either the preview has rested since the thread connected,
\* or its event is to come, or everything was handled.
Follows ==
  \/ TalliesRight /\ SoloRight
  \/ LastIsPreview
  \/ pending = <<>> /\ inputEvts = <<>> /\ SoloRight

Following ==
  switcher = "live" /\ monitor /\ pc \in {"top", "events", "inputs", "solo"} /\ ~unheeded
    => Follows

IInv ==
  TypeOK /\ Watching /\ Linked /\ Leftover /\ Sounding /\ Current /\ Unmoved /\ Following

-----------------------------------------------------------------------------
(* The steps that disturb several parts of the invariant.                   *)

\* A move is called back for, or the thread is connecting.
LEMMA StepPreviewMoves == IInv /\ (\E i \in Inputs : PreviewMoves(i)) => IInv'
<1> SUFFICES ASSUME IInv, NEW i \in Inputs, PreviewMoves(i) PROVE IInv'
  OBVIOUS
<1> DEFINE both == <<preview, i>>
           news == Only(both, Called)
<1>1. both \in Seq(Inputs) /\ both # <<>> /\ Len(both) = 2 /\ both[1] = preview /\ both[2] = i
  BY DEF IInv, TypeOK
<1>2. /\ news \in Seq(Inputs)
      /\ \A k \in DOMAIN news : news[k] \in Called
      /\ \A j \in {preview, i} : j \in Called => \E k \in DOMAIN news : news[k] = j
      /\ i \in Called => news # <<>> /\ news[Len(news)] = i
  <2>1. both \in Seq(Inputs)
    BY <1>1
  <2>2. 1 \in DOMAIN both /\ 2 \in DOMAIN both
    BY <1>1
  <2> HIDE DEF both
  <2>3. /\ news \in Seq(Inputs)
        /\ \A k \in DOMAIN news : news[k] \in Called
        /\ \A j \in DOMAIN both : both[j] \in Called => \E k \in DOMAIN news : news[k] = both[j]
        /\ both # <<>> /\ both[Len(both)] \in Called =>
             news # <<>> /\ news[Len(news)] = both[Len(both)]
    BY <2>1, OnlyKeeps
  <2> HIDE DEF news
  <2> QED BY <1>1, <2>2, <2>3
<1> HIDE DEF both, news
<1>3. pending' = pending \o news
  BY DEF both, news, PreviewMoves
<1>3a. pending \in Seq(Inputs)
  BY DEF IInv, TypeOK
<1>4. /\ pending \in Seq(Inputs) /\ pending' \in Seq(Inputs)
      /\ DOMAIN pending = 1..Len(pending) /\ DOMAIN news = 1..Len(news)
      /\ Len(pending) \in Nat /\ Len(news) \in Nat
      /\ DOMAIN pending' = 1..(Len(pending) + Len(news)) /\ Len(pending') = Len(pending) + Len(news)
      /\ \A k \in 1..Len(pending) : pending'[k] = pending[k]
      /\ \A k \in 1..Len(news) : pending'[Len(pending) + k] = news[k]
  BY <1>2, <1>3, <1>3a
<1> USE DEF PreviewMoves, queueVars, linkVars, localVars, IInv
<1>5. Flags'
  <2>1. unheeded' \in BOOLEAN
    OBVIOUS
  <2> QED BY <2>1, Zenon DEF TypeOK, Flags
<1>6. TypeOK'
  BY <1>4, <1>5 DEF TypeOK, Places
<1>7. Watching' /\ Sounding'
  BY DEF Watching, Sounding, On, Connecting
<1>8. pending # <<>> => pending' # <<>>
  BY <1>4
<1>9. Leftover'
  <2>1. pc = "done" => \A j \in Called : watched[j] = "orphan"
    BY DEF Linked, Leftover, Called
  <2>2. pc = "start" => Called = {}
    BY DEF Leftover, Called
  <2>3. pc = "start" => pending' = <<>>
    <3>1. pc = "start" => 1 \notin DOMAIN news
      BY <1>2, <2>2
    <3>2. pc = "start" => Len(news) = 0
      BY <1>4, <3>1
    <3>3. pc = "start" => Len(pending) = 0
      BY DEF Leftover
    <3> QED BY <1>4, <3>2, <3>3
  <2>4. pc = "done" => \A k \in DOMAIN pending' : watched[pending'[k]] = "orphan"
    <3> SUFFICES ASSUME pc = "done", NEW k \in DOMAIN pending'
                 PROVE  watched[pending'[k]] = "orphan"
      OBVIOUS
    <3>1. CASE k \in 1..Len(pending)
      BY <1>4, <3>1 DEF Leftover
    <3>2. CASE k \notin 1..Len(pending)
      <4>1. PICK m \in 1..Len(news) : k = Len(pending) + m
        <5>1. k \in 1..(Len(pending) + Len(news)) /\ Len(pending) \in Nat /\ Len(news) \in Nat
          BY <1>4
        <5>2. k - Len(pending) \in 1..Len(news) /\ k = Len(pending) + (k - Len(pending))
          BY <3>2, <5>1
        <5> QED BY <5>2
      <4>2. pending'[k] = news[m] /\ news[m] \in Called
        BY <1>2, <1>4, <4>1
      <4>3. \A j \in Called : watched[j] = "orphan"
        BY <2>1
      <4> QED BY <4>2, <4>3, Zenon
    <3> QED BY <3>1, <3>2
  <2> QED BY <2>3, <2>4 DEF Leftover
<1>10. Linked'
  BY <1>8 DEF Linked, Connecting
<1>11. ASSUME NEW j \in Inputs, Due(j) PROVE Due(j)'
  BY <1>4, <1>11 DEF Due
<1>12. ASSUME NEW j \in {preview, i}, j \in Called PROVE Due(j)'
  <2>1. PICK k \in 1..Len(news) : news[k] = j
    BY <1>2, <1>4, <1>12
  <2>2. pending'[Len(pending) + k] = j /\ Len(pending) + k \in DOMAIN pending'
    BY <1>4, <2>1
  <2>3. Len(pending) + k = 1 => ~notifying
    BY <1>4 DEF Linked
  <2> QED BY <2>2, <2>3 DEF Due
<1>13. switcher = "live" => \A j \in On : j \in Called
  BY DEF Linked, On, Called
<1>14. Current'
  BY <1>11, <1>12, <1>13 DEF Current, On, TypeOK, Watching
<1>15. Unmoved'
  BY DEF Unmoved, Connecting
<1>16. switcher = "live" /\ pc \in {"top", "events", "inputs", "solo"} => LastIsPreview'
  <2> SUFFICES ASSUME switcher = "live", pc \in {"top", "events", "inputs", "solo"} PROVE LastIsPreview'
    OBVIOUS
  <2>1. i \in Called
    BY <1>13 DEF Watching
  <2>2. pending' # <<>> /\ pending'[Len(pending')] = i
    <3>1. news # <<>> /\ news[Len(news)] = i
      BY <1>2, <2>1
    <3>2. Len(news) \in 1..Len(news)
      BY <1>2, <3>1
    <3>3. pending'[Len(pending) + Len(news)] = news[Len(news)]
      BY <1>4, <3>2
    <3>4. Len(pending') # 0
      BY <1>4, <3>2
    <3> QED BY <1>4, <3>1, <3>3, <3>4
  <2> QED BY <1>12, <2>1, <2>2 DEF LastIsPreview
<1>17. Following'
  BY <1>16 DEF Following, Follows
<1> QED BY <1>6, <1>7, <1>9, <1>10, <1>14, <1>15, <1>17

\* Notify sets the tally right.
LEMMA StepNotifyReads == IInv /\ NotifyReads => IInv'
<1> SUFFICES ASSUME IInv, NotifyReads PROVE IInv'
  OBVIOUS
<1> USE DEF NotifyReads, queueVars, linkVars, localVars, IInv
<1>1. Flags'
  BY Zenon DEF TypeOK, Flags
<1>2. TypeOK'
  BY <1>1 DEF TypeOK
<1>3. Watching' /\ Linked' /\ Leftover' /\ Sounding'
  BY DEF Watching, Linked, Leftover, Sounding, On, Connecting
<1>4. Current'
  BY DEF TypeOK, Current, On, Due, Watching, Linked
<1>5. Unmoved'
  BY DEF TypeOK, Unmoved, TalliesRight, On, Connecting
<1>6. Following'
  BY DEF TypeOK, Following, Follows, TalliesRight, SoloRight, SoloDue, LastIsPreview, Due, On, Watching
<1> QED BY <1>2, <1>3, <1>4, <1>5, <1>6

\* The event takes the place of its callback.
LEMMA StepNotifyPushes == IInv /\ NotifyPushes => IInv'
<1> SUFFICES ASSUME IInv, NotifyPushes PROVE IInv'
  OBVIOUS
<1> USE DEF NotifyPushes, monitorVars, linkVars, localVars, IInv
<1>1. /\ pending \in Seq(Inputs) /\ inputEvts \in Seq(Inputs) /\ pending # <<>>
      /\ Len(pending) \in Nat /\ Len(pending) >= 1 /\ Len(inputEvts) \in Nat
      /\ DOMAIN pending = 1..Len(pending) /\ Head(pending) = pending[1]
  BY DEF TypeOK, Linked
<1>2. /\ pending' \in Seq(Inputs) /\ DOMAIN pending' = 1..(Len(pending) - 1)
      /\ Len(pending') = Len(pending) - 1
      /\ \A k \in 1..(Len(pending) - 1) : pending'[k] = pending[k + 1]
  BY <1>1
<1>3. /\ inputEvts' \in Seq(Inputs) /\ inputEvts' # <<>>
      /\ Len(inputEvts') = Len(inputEvts) + 1
      /\ inputEvts'[Len(inputEvts) + 1] = pending[1]
  BY <1>1
<1>4. Flags'
  BY Zenon DEF TypeOK, Flags
<1>5. TypeOK'
  BY <1>2, <1>3, <1>4 DEF TypeOK
<1>6. ASSUME NEW i \in Inputs, Due(i) PROVE Due(i)'
  <2>1. PICK k \in 1..Len(pending) : pending[k] = i /\ k # 1
    BY <1>1, <1>6 DEF Due
  <2>2. k - 1 \in 1..(Len(pending) - 1) /\ pending'[k - 1] = i
    BY <1>1, <1>2, <2>1
  <2> QED BY <1>2, <2>2 DEF Due
<1>7. LastIsPreview => LastIsPreview'
  <2>1. CASE Len(pending) = 1
    <3>1. pending' = <<>>
      BY <1>2, <2>1
    <3> QED BY <1>1, <1>3, <1>6, <2>1, <3>1 DEF LastIsPreview, TypeOK
  <2>2. CASE Len(pending) # 1
    <3>1. pending' # <<>> /\ pending'[Len(pending')] = pending[Len(pending)]
      BY <1>1, <1>2, <2>2
    <3> QED BY <1>1, <1>6, <3>1 DEF LastIsPreview, TypeOK
  <2> QED BY <2>1, <2>2
<1>8. Current'
  BY <1>6 DEF Current, On
<1>9. Following'
  BY <1>1, <1>7 DEF Following, Follows, TalliesRight, On, SoloRight, SoloDue
<1>10. Leftover'
  BY <1>1, <1>2 DEF Leftover
<1> QED
  BY <1>1, <1>5, <1>8, <1>9, <1>10 DEF Watching, Linked, Sounding, Unmoved, On, TalliesRight

\* What a call of a destroyed monitor does is nothing to the thread: it is through.
LEMMA StepNotifyDestroyed == IInv /\ NotifyDestroyed => IInv'
<1> SUFFICES ASSUME IInv, NotifyDestroyed PROVE IInv'
  OBVIOUS
<1> USE DEF NotifyDestroyed, queueVars, monitorVars, linkVars, localVars, IInv
<1>1. pending \in Seq(Inputs) /\ pending # <<>> /\ Head(pending) \in Inputs
  BY DEF TypeOK
<1>2. /\ pending' \in Seq(Inputs)
      /\ \A k \in DOMAIN pending' : \E j \in DOMAIN pending : pending'[k] = pending[j]
  BY <1>1
<1>3. pc \in {"done", "crashed"} /\ pc' \in {"done", "crashed"} /\ (pc' = "done" => pc = "done")
  BY <1>1 DEF Leftover
<1>4. switcher = "null" /\ ~callback
  BY <1>3 DEF Linked
<1>5. Flags'
  BY Zenon DEF TypeOK, Flags
<1>6. TypeOK'
  BY <1>2, <1>3, <1>5 DEF TypeOK, Places
<1>7. Leftover'
  BY <1>2, <1>3 DEF Leftover, Connecting
<1>8. Watching' /\ Linked' /\ Sounding'
  BY <1>3, <1>4 DEF Watching, Linked, Sounding, On, Connecting
<1>9. Current' /\ Unmoved' /\ Following'
  BY <1>4 DEF Current, Unmoved, Following
<1> QED BY <1>6, <1>7, <1>8, <1>9

\* A new connection begins with empty queues.
LEMMA StepTop == IInv /\ Top => IInv'
<1> SUFFICES ASSUME IInv, Top PROVE IInv'
  OBVIOUS
<1> USE DEF Top, hwVars, queueVars, monitorVars, linkVars, IInv
<1>1. Flags'
  BY Zenon DEF TypeOK, Flags
<1>2. inputEvts' \in Seq(Inputs)
  <2>1. <<>> \in Seq(Inputs)
    OBVIOUS
  <2> QED BY <2>1 DEF TypeOK
<1>3. TypeOK'
  BY <1>1, <1>2 DEF TypeOK, Places
<1>4. Watching' /\ Linked' /\ Leftover' /\ Sounding'
  BY DEF Watching, Linked, Leftover, Sounding, On, Connecting
<1>5. Current' /\ Unmoved' /\ Following'
  BY DEF Current, Unmoved, Following, Follows, TalliesRight, SoloRight, SoloDue, LastIsPreview, Due,
         On, Connecting
<1> QED BY <1>3, <1>4, <1>5

\* What is left of the callbacks when the thread stops looking at S.
LEMMA Forgets ==
  ASSUME NEW S, TypeOK, notifying => pending # <<>>, Forget(S)
  PROVE  /\ pending' \in Seq(Inputs)
         /\ notifying => pending' # <<>> /\ Head(pending') = Head(pending)
         /\ \A k \in DOMAIN pending' : pending'[k] \notin S
         /\ \A i \in Inputs \ S, k \in DOMAIN pending :
              pending[k] = i /\ (k = 1 => ~notifying) =>
                \E j \in DOMAIN pending' : pending'[j] = i /\ (j = 1 => ~notifying)
<1> DEFINE K == Inputs \ S
           r == Only(pending, K)
<1>1. pending \in Seq(Inputs) /\ pending' = r
  BY DEF TypeOK, Forget
<1>2. /\ r \in Seq(Inputs)
      /\ \A k \in DOMAIN r : r[k] \in K
      /\ \A j \in DOMAIN pending : pending[j] \in K =>
           \E k \in DOMAIN r : r[k] = pending[j] /\ (j # 1 /\ pending[1] \in K => k # 1)
      /\ pending # <<>> /\ pending[1] \in K => r # <<>> /\ r[1] = pending[1]
  <2> HIDE DEF K
  <2> QED BY <1>1, OnlyKeeps
<1>3. notifying => pending[1] \in K
  BY <1>1 DEF Forget
<1>4. /\ pending # <<>> => Head(pending) = pending[1]
      /\ r # <<>> => Head(r) = r[1]
  BY <1>1, <1>2
<1> HIDE DEF r
<1>5. \A i \in Inputs \ S : i \in K
  OBVIOUS
<1>6. \A i \in K : i \in Inputs /\ i \notin S
  OBVIOUS
<1> HIDE DEF K
<1> QED BY <1>1, <1>2, <1>3, <1>4, <1>5, <1>6

\* The monitor of cur takes its place among those called back.
LEMMA StepWatch == IInv /\ Watch => IInv'
<1> SUFFICES ASSUME IInv, Watch PROVE IInv'
  OBVIOUS
<1> USE DEF IInv
<1>1. /\ pending' \in Seq(Inputs)
      /\ notifying => pending' # <<>> /\ Head(pending') = Head(pending)
      /\ \A k \in DOMAIN pending' : pending'[k] # cur
      /\ \A i \in Inputs : Due(i) /\ i # cur =>
           \E j \in DOMAIN pending' : pending'[j] = i /\ (j = 1 => ~notifying)
  BY Forgets DEF Watch, Linked, Due
<1> USE DEF Watch, linkVars, queueVars
<1> HIDE DEF Forget
<1>2. Flags'
  BY Zenon DEF TypeOK, Flags
<1>3. TypeOK' /\ cur \in Inputs
  <2>1. read \in BOOLEAN /\ cur \in Inputs
    BY DEF TypeOK, Flags
  <2> QED BY <1>1, <1>2, <2>1 DEF TypeOK, Places
<1>4. \A i \in Inputs : i # cur /\ Due(i) => Due(i)'
  BY <1>1, <1>3 DEF Due
<1>5. Watching'
  BY <1>3 DEF Watching, On, Linked, TypeOK, Connecting
<1>6. Linked'
  BY <1>1, <1>3 DEF Linked, TypeOK, Connecting
<1>7. Sounding'
  BY <1>3 DEF Sounding, On, TypeOK
<1>8. Current'
  BY <1>3, <1>4 DEF Current, On, TypeOK
<1>9. Unmoved'
  BY <1>3 DEF Unmoved, TalliesRight, On, Connecting, TypeOK
<1>10. Following'
  BY DEF Following
<1>11. Leftover'
  <2>1. ~parted
    BY DEF Leftover, Connecting
  <2> QED BY <1>3, <2>1 DEF Leftover, TypeOK, Connecting
<1> QED BY <1>3, <1>5, <1>6, <1>7, <1>8, <1>9, <1>10, <1>11

\* The audio input of the preview gets the output.
LEMMA StepAudioInput == IInv /\ AudioInput => IInv'
<1> SUFFICES ASSUME IInv, AudioInput PROVE IInv'
  OBVIOUS
<1>1. PICK i \in todo :
        /\ todo' = todo \ {i} /\ audio' = [audio EXCEPT ![i] = TRUE]
        /\ IF tally[i] /\ monitor THEN pc' = "audioSolo" /\ cur' = i ELSE UNCHANGED <<pc, cur>>
  BY DEF AudioInput
<1> USE DEF AudioInput, hwVars, queueVars, linkVars, IInv
<1>2. Flags'
  BY Zenon DEF TypeOK, Flags
<1>3. TypeOK' /\ i \in Inputs
  BY <1>1, <1>2 DEF TypeOK, Places
<1>4. Watching' /\ Linked' /\ Leftover'
  BY <1>1 DEF Watching, Linked, Leftover, On, Connecting, TypeOK
<1>5. Sounding'
  <2>1. todo \subseteq Audible /\ \A j \in Inputs : audio[j] <=> j \in Audible \ todo
    BY DEF Sounding
  <2>2. \A j \in Inputs : audio'[j] <=> j \in Audible \ todo'
    <3>1. \A j \in Inputs : audio'[j] = IF j = i THEN TRUE ELSE audio[j]
      BY <1>1 DEF TypeOK
    <3>2. i \in Audible /\ todo' = todo \ {i}
      BY <1>1, <2>1
    <3>3. \A j \in Inputs : j # i => (j \in Audible \ todo' <=> j \in Audible \ todo)
      BY <3>2
    <3> TAKE j \in Inputs
    <3>4. CASE j = i
      BY <3>1, <3>2, <3>4
    <3>5. CASE j # i
      BY <2>1, <3>1, <3>3, <3>5, Zenon
    <3> QED BY <3>4, <3>5
  <2> QED BY <1>1, <2>1, <2>2 DEF Sounding
<1>6. Current'
  BY <1>1 DEF Current, On, Due, TypeOK
<1>7. Unmoved'
  BY <1>1, <1>3 DEF TypeOK, Unmoved, TalliesRight, On, Connecting, Watching, Sounding
<1>8. Following'
  BY <1>1 DEF Following
<1> QED BY <1>3, <1>4, <1>5, <1>6, <1>7, <1>8

\* A disconnect destroys the monitors.
LEMMA StepSwitcherEvents == IInv /\ SwitcherEvents => IInv'
<1> SUFFICES ASSUME IInv, SwitcherEvents PROVE IInv'
  OBVIOUS
<1> USE DEF IInv, SwitcherEvents, monitorVars, linkVars, localVars
<1>1. Flags'
  BY Zenon DEF TypeOK, Flags
<1>2. CASE ~lost
  BY <1>1, <1>2 DEF TypeOK, Places, Watching, Linked, Leftover, Sounding, Current, Unmoved, Following, Follows, On, Due,
                    Connecting, TalliesRight, SoloRight, SoloDue, LastIsPreview
<1>3. CASE lost
  <2>1. pending' \in Seq(Inputs) /\ (notifying => pending' # <<>>)
    BY <1>3, Forgets DEF Clear, Linked
  <2>2. TypeOK'
    BY <1>1, <1>3, <2>1 DEF Clear, TypeOK, Places
  <2>3. Watching'
    BY <1>3 DEF Clear, TypeOK, Watching, On, Connecting
  <2>4. Linked'
    BY <1>3, <2>1 DEF Clear, TypeOK, Linked, Connecting
  <2>5. Sounding' /\ Current' /\ Unmoved' /\ Following'
    BY <1>3 DEF Clear, Sounding, Current, Unmoved, Following, Connecting
  <2>6. Leftover'
    BY <1>3 DEF Clear, Leftover, Connecting
  <2> QED BY <2>2, <2>3, <2>4, <2>5, <2>6
<1> QED BY <1>2, <1>3

\* The last event, that of the preview, finds its tally right.
LEMMA StepInputEvent == IInv /\ InputEvent => IInv'
<1> SUFFICES ASSUME IInv, InputEvent PROVE IInv'
  OBVIOUS
<1> USE DEF IInv, InputEvent, hwVars, monitorVars, linkVars
<1>1. Flags'
  BY Zenon DEF TypeOK, Flags
<1>2. /\ inputEvts \in Seq(Inputs) /\ Len(inputEvts) \in Nat /\ Len(inputEvts) # 0
      /\ Head(inputEvts) = inputEvts[1] /\ inputEvts[1] \in Inputs
      /\ inputEvts' \in Seq(Inputs) /\ Len(inputEvts') = Len(inputEvts) - 1
      /\ \A k \in 1..(Len(inputEvts) - 1) : inputEvts'[k] = inputEvts[k + 1]
  BY DEF TypeOK
<1>3. TypeOK'
  BY <1>1, <1>2 DEF TypeOK, Places
<1>4. \A i \in Inputs : Due(i)' = Due(i)
  BY DEF Due
<1>5. Watching' /\ Linked' /\ Leftover' /\ Sounding' /\ Current' /\ Unmoved'
  BY <1>4 DEF Watching, Linked, Leftover, Sounding, Current, Unmoved, On, Connecting, TalliesRight
<1>6. ASSUME (switcher = "live" /\ monitor /\ ~unheeded)' PROVE Follows'
  <2>1. switcher = "live" /\ monitor /\ ~unheeded /\ On = Inputs /\ preview \in Inputs
    BY <1>6 DEF Watching, TypeOK
  <2>2. CASE TalliesRight /\ SoloRight
    BY <1>2, <2>1, <2>2 DEF Follows, TalliesRight, SoloRight, SoloDue, On
  <2>3. CASE LastIsPreview
    <3>1. CASE pending = <<>> /\ Len(inputEvts) = 1
      <4>1. ~Due(preview) /\ preview \notin missed /\ inputEvts[1] = preview
        BY <1>2, <2>3, <3>1 DEF LastIsPreview, Due
      <4>2. tally[preview] /\ watched[preview] = "on"
        BY <2>1, <4>1 DEF Current, On, TypeOK
      <4>3. pc' = "solo" /\ cur' = preview
        BY <1>2, <2>1, <4>1, <4>2
      <4>4. inputEvts' = <<>>
        BY <1>2, <3>1
      <4> QED BY <3>1, <4>3, <4>4 DEF Follows, SoloRight
    <3>2. CASE pending # <<>> \/ Len(inputEvts) # 1
      <4>1. Len(inputEvts) # 1 =>
              inputEvts' # <<>> /\ inputEvts'[Len(inputEvts')] = inputEvts[Len(inputEvts)]
        <5>1. Len(inputEvts) # 1 => Len(inputEvts) - 1 \in 1..(Len(inputEvts) - 1)
          BY <1>2
        <5>2. inputEvts' # <<>> <=> Len(inputEvts') # 0
          BY <1>2
        <5> QED BY <1>2, <5>1, <5>2
      <4>2. LastIsPreview'
        BY <1>4, <2>1, <2>3, <3>2, <4>1 DEF LastIsPreview
      <4> QED BY <4>2 DEF Follows
    <3> QED BY <3>1, <3>2
  <2> QED BY <1>2, <2>1, <2>2, <2>3 DEF Following, Follows, Follows
<1>7. Following'
  BY <1>6 DEF Following
<1> QED BY <1>3, <1>5, <1>7

\* At the end the monitors go, but for those whose RemoveCallback fails.
LEMMA StepRelease == IInv /\ Release => IInv'
<1> SUFFICES ASSUME IInv, Release PROVE IInv'
  OBVIOUS
<1> USE DEF IInv, linkVars, localVars, queueVars
<1>0. pc = "release" /\ switcher = "null" /\ ~callback
      /\ UNCHANGED <<up, preview, solo, notifying, unheeded, moves, faults, queueVars, linkVars,
                     localVars, running>>
  BY DEF Release, Linked
<1>1. Flags'
  BY <1>0, Zenon DEF TypeOK, Flags
<1>2. Current' /\ Unmoved' /\ Following'
  BY <1>0 DEF Current, Unmoved, Following
<1>3. CASE pc' = "crashed" /\ UNCHANGED <<monitorVars, pending>>
  BY <1>0, <1>1, <1>2, <1>3
  DEF monitorVars, TypeOK, Places, Watching, Linked, Leftover, Sounding, On, Connecting
<1>4. ASSUME pc' = "done",
             NEW failed \in SUBSET {i \in Inputs : watched[i] # "none"},
             Forget(Inputs \ failed),
             watched' = [i \in Inputs |-> IF i \in failed THEN "orphan" ELSE "none"],
             tally' = [i \in Inputs |-> FALSE], audio' = [i \in Inputs |-> FALSE],
             missed' = {}
      PROVE  IInv'
  <2>1. /\ pending' \in Seq(Inputs) /\ (notifying => pending' # <<>>)
        /\ \A k \in DOMAIN pending' : pending'[k] \notin Inputs \ failed
    BY <1>4, Forgets DEF Linked
  <2>2. \A k \in DOMAIN pending' : pending'[k] \in Inputs /\ watched'[pending'[k]] = "orphan"
    BY <1>4, <2>1
  <2>3. TypeOK'
    BY <1>0, <1>1, <1>4, <2>1 DEF TypeOK, Places
  <2>4. Leftover'
    BY <1>0, <1>4, <2>2 DEF Leftover, Connecting
  <2>5. Watching' /\ Linked' /\ Sounding'
    BY <1>0, <1>4, <2>1 DEF Watching, Linked, Sounding, On, Connecting
  <2> QED BY <1>2, <2>3, <2>4, <2>5
<1> QED BY <1>3, <1>4 DEF Release

-----------------------------------------------------------------------------
(* The other steps, and the theorems.                                       *)

Step ==
  \/ Start \/ LinkLost \/ LinkBack \/ ConnectTo \/ AddCallback \/ InputIterator
  \/ ReadTally \/ InputsDone \/ Mixer \/ AudioIterator \/ AudioDone
  \/ SetAudioInputMonitorSolo \/ InputEventsDone \/ Destroy \/ Stop

LEMMA OtherSteps == IInv /\ Step => IInv'
<1> SUFFICES ASSUME IInv, Step PROVE IInv'
  OBVIOUS
<1> USE ConstantsAssumption
    DEF ConstantsAssumption, IInv, hwVars, queueVars, monitorVars, linkVars, localVars
<1>1. Flags'
  <2> USE DEF TypeOK, Flags, GiveUp, CouldFail, Fault
  <2>1. CASE \/ Start \/ LinkLost \/ LinkBack \/ ConnectTo \/ AddCallback \/ InputIterator
             \/ ReadTally \/ InputsDone
    BY <2>1, ZenonT(60)
    DEF Start, LinkLost, LinkBack, ConnectTo, AddCallback, InputIterator, ReadTally, InputsDone
  <2>2. CASE \/ Mixer \/ AudioIterator \/ AudioDone \/ SetAudioInputMonitorSolo
             \/ InputEventsDone \/ Destroy \/ Stop
    BY <2>2, ZenonT(60)
    DEF Mixer, AudioIterator, AudioDone, SetAudioInputMonitorSolo, InputEventsDone, Destroy, Stop
  <2> QED BY <2>1, <2>2 DEF Step
<1> USE <1>1 DEF TypeOK, Places, Watching, Linked, Leftover, Sounding, Current, Unmoved, Following, Follows, On,
                 Due, Connecting, TalliesRight, SoloRight, SoloDue, LastIsPreview
<1>2. CASE LinkLost
  BY <1>2 DEF LinkLost, Fault
<1>3. CASE LinkBack
  BY <1>3 DEF LinkBack
<1>4. CASE ConnectTo
  BY <1>4 DEF ConnectTo, Fault
<1>5. CASE AddCallback
  BY <1>5 DEF AddCallback, CouldFail, Fault
<1>6. CASE InputIterator
  BY <1>6 DEF InputIterator, GiveUp, CouldFail, Fault
<1>7. CASE ReadTally
  BY <1>7 DEF ReadTally
<1>8. CASE InputsDone
  BY <1>8 DEF InputsDone
<1>9. CASE Mixer
  BY <1>9 DEF Mixer, GiveUp, CouldFail, Fault
<1>10. CASE AudioIterator
  BY <1>10 DEF AudioIterator, GiveUp, CouldFail, Fault
<1>11. CASE AudioDone
  BY <1>11 DEF AudioDone
<1>12. CASE SetAudioInputMonitorSolo
  BY <1>12 DEF SetAudioInputMonitorSolo, SoloOf
<1>13. CASE InputEventsDone
  BY <1>13 DEF InputEventsDone
<1>14. CASE Destroy
  BY <1>14 DEF Destroy
<1>15. CASE Stop
  BY <1>15 DEF Stop
<1>16. CASE Start
  BY <1>16 DEF Start, Fault
<1> QED
  BY <1>2, <1>3, <1>4, <1>5, <1>6, <1>7, <1>8, <1>9, <1>10, <1>11, <1>12, <1>13, <1>14,
     <1>15, <1>16 DEF Step

LEMMA Invariant == Spec => []IInv
<1>1. Init => IInv
  <2> SUFFICES ASSUME Init PROVE IInv
    OBVIOUS
  <2> USE DEF Init
  <2>1. Flags
    BY Zenon DEF Flags
  <2>2. <<>> \in Seq(Inputs)
    OBVIOUS
  <2>3. TypeOK
    BY <2>1, <2>2 DEF TypeOK, Places
  <2>4. Watching /\ Linked /\ Leftover /\ Sounding /\ Current /\ Unmoved /\ Following
    BY DEF Watching, Linked, Leftover, Sounding, Current, Unmoved, Following, On, Connecting
  <2> QED BY <2>3, <2>4 DEF IInv
<1>2. IInv /\ [Next]_vars => IInv'
  <2> SUFFICES ASSUME IInv, [Next]_vars PROVE IInv'
    OBVIOUS
  <2>1. CASE UNCHANGED vars
    BY <2>1
    DEF vars, hwVars, queueVars, monitorVars, linkVars, localVars, IInv, TypeOK, Flags, Watching, Linked,
        Leftover, Sounding, Current, Unmoved, Following, Follows, On, Due, TalliesRight, SoloRight, SoloDue,
        LastIsPreview
  <2>2. CASE Next
    BY <2>2, StepPreviewMoves, StepNotifyReads, StepNotifyPushes, StepNotifyDestroyed, StepTop, StepWatch, StepAudioInput,
       StepSwitcherEvents, StepInputEvent, StepRelease, OtherSteps
    DEF Next, Library, AtemCtrlFn, Step
  <2> QED BY <2>1, <2>2
<1> QED BY <1>1, <1>2, PTL DEF Spec

\* The variables have their types, whatever the thread and the library do: the
\* input being handled is one of the switcher's wherever the thread uses it.
THEOREM TypeCorrect == Spec => []TypeOK
<1>1. IInv => TypeOK
  BY DEF IInv
<1> QED BY <1>1, Invariant, PTL

\* What the switcher told is what the monitors hold, and once everything has been
\* handled the output is on the preview, for any inputs, moves and faults
\* (InputMonitor::Notify, atemCtrlFn).
THEOREM MonitorsRightHolds == Spec => []MonitorsRight
<1>1. IInv => TallyCurrent
  BY DEF IInv, TallyCurrent, Current, On, Due
<1>2. IInv => SoloFollows
  BY DEF IInv, SoloFollows, Following, Follows, LastIsPreview, SoloRight, SoloDue
<1> QED BY <1>1, <1>2, Invariant, PTL DEF MonitorsRight

\* After the destructor's join the switcher calls nobody back, and an input only the
\* monitor that was destroyed behind CoUninitialize(); not even that one after a last
\* connection whose disconnect was handled (AtemClass::impl::~impl, atemCtrlFn).
THEOREM QuietWhenDoneHolds == Spec => []QuietWhenDone
<1>1. IInv => QuietWhenDone
  BY DEF IInv, QuietWhenDone, Linked, Leftover
<1> QED BY <1>1, Invariant, PTL

=============================================================================
