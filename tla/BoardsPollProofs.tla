--------------------------- MODULE BoardsPollProofs ---------------------------
(***************************************************************************)
(* Proofs about BoardsPoll, for any number of boards, changes and faults   *)
(* and any length of a millisecond.                                        *)
(***************************************************************************)
EXTENDS BoardsPoll, WellFoundedInduction, TLAPS

-----------------------------------------------------------------------------
(* Numbers.  The library's induction theorems take an operator, which the  *)
(* provers here cannot instantiate; that < on Nat is well founded says the *)
(* same of a set of numbers.                                               *)

LEMMA Least == ASSUME NEW N \in SUBSET Nat, N # {} PROVE \E n \in N : \A m \in N : n <= m
<1>1. PICK n \in N : \A m \in N : <<m, n>> \notin OpToRel(<, Nat)
  BY NatLessThanWellFounded, WFMin
<1>2. \A m \in N : ~(m < n)
  BY <1>1 DEF OpToRel
<1> QED BY <1>2

LEMMA Induction ==
  ASSUME NEW n \in Nat, NEW N, 0 \in N, \A k \in 1..n : k - 1 \in N => k \in N
  PROVE  \A k \in 0..n : k \in N
<1> DEFINE M == {j \in 0..n : j \notin N}
<1> SUFFICES ASSUME M # {} PROVE FALSE
  OBVIOUS
<1>0. M \in SUBSET Nat
  OBVIOUS
<1>1. PICK k \in M : \A m \in M : k <= m
  <2> HIDE DEF M
  <2> QED BY <1>0, Least
<1>2. k # 0 /\ k - 1 \in 0..n
  BY <1>1
<1>3. k - 1 \in N
  BY <1>1, <1>2
<1> QED BY <1>1, <1>2, <1>3

\* A number rounded down to a multiple is not larger.
LEMMA Rounding == ASSUME NEW x \in Nat, NEW m \in Nat \ {0}
                  PROVE  x \div m \in Nat /\ (x \div m) * m <= x
<1>1. x \div m \in Int /\ x = m * (x \div m) + (x % m) /\ 0 <= x % m
  OBVIOUS
<1>2. x \div m >= 0
  OBVIOUS
<1>3. m * (x \div m) = (x \div m) * m
  OBVIOUS
<1> QED BY <1>1, <1>2, <1>3

-----------------------------------------------------------------------------
(* The invariant.                                                          *)

Entry == [upd : Nat, val : [Fields -> Nat]]

Lists == UNION {[D -> Entry] : D \in SUBSET Boards}

\* What GetBoards reads next.
Place ==
  /\ at \in (1..(NBoards + 1)) \X (0..3)
  /\ at[1] \notin Boards => at[2] = 0

BoardTypes ==
  /\ now \in Nat /\ known \subseteq Boards
  /\ data \in [Boards -> [Fields -> Nat]] /\ upd \in [Boards -> Nat]

TypeOK ==
  /\ BoardTypes
  /\ pc \in {"none", "time", "scan", "decide", "replied"}
  /\ lastId \in Nat /\ elapsed \in BOOLEAN /\ t0 \in Nat /\ late \in BOOLEAN
  /\ Place /\ snap \in Lists /\ reply \in [ts : Nat, boards : Lists]
  /\ last_id \in Nat /\ shown \in Lists
  /\ updates \in Nat /\ faults \in Nat /\ reboots \in Nat

\* Nothing is dated later than the clock, which is not set back.
Dated(L) == \A m \in DOMAIN L : L[m].upd <= now

Past ==
  /\ \A b \in Boards : upd[b] <= now
  /\ Dated(snap) /\ Dated(reply.boards) /\ Dated(shown)
  /\ t0 <= now /\ reply.ts * Ms <= now /\ last_id * Ms <= now

\* The list L lacks what a timed field of b holds.
Lacks(L, b) == b \notin DOMAIN L \/ \E f \in Timed : L[b].val[f] # data[b][f]

\* b's update time is later than that of every board read before it, and than its
\* own in the list.
Marked(L, b) == \A m \in DOMAIN L : m <= b => L[m].upd < upd[b]

\* The boards read so far, and the one being read.
Passed(b) == b < at[1] \/ (b = at[1] /\ at[2] # 0)

\* What GetBoards has read of b, and no longer is so, is marked.
Scanned(b) ==
  /\ b < at[1] /\ Lacks(snap, b) => Marked(snap, b)
  /\ b < at[1] /\ b \notin DOMAIN snap => t0 < upd[b]
  /\ b = at[1] /\ (\E f \in Timed : f < at[2] /\ snap[b].val[f] # data[b][f]) => Marked(snap, b)

Scanning ==
  /\ \A m \in DOMAIN snap : Passed(m)
  /\ at[2] # 0 => at[1] \in DOMAIN snap
  /\ pc \notin {"scan", "decide"} => snap = <<>>
  /\ pc = "decide" => at[1] \notin Boards
  /\ pc \in {"scan", "decide"} => \A b \in known : Scanned(b)

\* The change that list L of time ts lacks comes after ts, or is hidden.
Behind(L, ts) ==
  \A b \in known :
    Lacks(L, b) =>
      /\ Marked(L, b)
      /\ ts * Ms <= upd[b] \/ \E c \in DOMAIN L : c > b /\ L[c].upd > upd[b]

Covered ==
  /\ pc = "replied" => Behind(reply.boards, reply.ts)
  /\ Behind(shown, last_id)

Right == Past /\ Scanning /\ Covered

IInv == TypeOK /\ (reboots = 0 => Right)

-----------------------------------------------------------------------------
(* Lists of boards.                                                        *)

LEMMA ListFacts ==
  ASSUME NEW L \in Lists
  PROVE  /\ DOMAIN L \subseteq Boards
         /\ \A m \in DOMAIN L : L[m] \in Entry
         /\ DOMAIN L = {} => L = <<>>
<1>1. PICK D \in SUBSET Boards : L \in [D -> Entry]
  BY DEF Lists
<1>2. DOMAIN L = {} => L = <<>>
  BY <1>1
<1> QED BY <1>1, <1>2

LEMMA EmptyList == <<>> \in Lists /\ DOMAIN <<>> = {}
<1>1. <<>> \in [{} -> Entry]
  OBVIOUS
<1> QED BY <1>1 DEF Lists

\* A board is added to the list, or its entry replaced.
LEMMA ListExtended ==
  ASSUME NEW L \in Lists, NEW b \in Boards, NEW e \in Entry
  PROVE  LET M == Extend(L, b, e)
         IN  /\ M \in Lists /\ DOMAIN M = DOMAIN L \cup {b} /\ M[b] = e
             /\ \A m \in DOMAIN L : m # b => M[m] = L[m]
<1> DEFINE M == Extend(L, b, e)
<1>1. DOMAIN L \subseteq Boards /\ \A m \in DOMAIN L : L[m] \in Entry
  BY ListFacts
<1>2. M \in [DOMAIN L \cup {b} -> Entry]
  BY <1>1 DEF Extend
<1>3. DOMAIN L \cup {b} \in SUBSET Boards
  BY <1>1
<1>4. M \in Lists
  BY <1>2, <1>3 DEF Lists
<1> QED BY <1>4 DEF Extend

\* The latest update time of a list.
LEMMA LatestExists ==
  ASSUME snap \in Lists, snap # <<>>
  PROVE  \E c \in DOMAIN snap : MaxUpd = snap[c].upd /\ \A m \in DOMAIN snap : snap[m].upd <= MaxUpd
<1> USE NumbersAssumption DEF NumbersAssumption
<1>1. /\ DOMAIN snap \subseteq 1..NBoards /\ DOMAIN snap # {}
      /\ \A m \in DOMAIN snap : snap[m].upd \in Nat
  BY ListFacts DEF Entry, Boards
<1> DEFINE N == {k \in 0..NBoards : \E n \in Nat : \A m \in DOMAIN snap : m <= k => snap[m].upd <= n}
           U == {n \in Nat : \A m \in DOMAIN snap : snap[m].upd <= n}
<1>2. 0 \in N
  BY <1>1
<1>3. ASSUME NEW k \in 1..NBoards, k - 1 \in N PROVE k \in N
  <2>1. PICK n \in Nat : \A m \in DOMAIN snap : m <= k - 1 => snap[m].upd <= n
    BY <1>3
  <2>2. CASE k \in DOMAIN snap /\ snap[k].upd > n
    <3>1. \A m \in DOMAIN snap : m <= k => snap[m].upd <= snap[k].upd
      BY <1>1, <2>1, <2>2
    <3>2. \E x \in Nat : \A m \in DOMAIN snap : m <= k => snap[m].upd <= x
      BY <1>1, <2>2, <3>1
    <3> QED BY <3>2
  <2>3. CASE ~(k \in DOMAIN snap /\ snap[k].upd > n)
    <3>1. \A m \in DOMAIN snap : m <= k => snap[m].upd <= n
      BY <1>1, <2>1, <2>3
    <3> QED BY <3>1
  <2> QED BY <2>2, <2>3
<1>4. NBoards \in N
  <2> HIDE DEF N
  <2>1. \A k \in 1..NBoards : k - 1 \in N => k \in N
    BY <1>3
  <2> QED BY <1>2, <2>1, Induction
<1>5. U \in SUBSET Nat /\ U # {}
  <2>1. PICK n \in Nat : \A m \in DOMAIN snap : m <= NBoards => snap[m].upd <= n
    BY <1>4
  <2>2. \A m \in DOMAIN snap : snap[m].upd <= n
    BY <1>1, <2>1
  <2> QED BY <2>2
<1>6. PICK n \in U : \A x \in U : n <= x
  <2> HIDE DEF U
  <2> QED BY <1>5, Least
<1>7. \E c \in DOMAIN snap : snap[c].upd = n
  <2> SUFFICES ASSUME \A c \in DOMAIN snap : snap[c].upd # n PROVE FALSE
    OBVIOUS
  <2>1. n \in Nat /\ \A m \in DOMAIN snap : snap[m].upd < n
    BY <1>1, <1>6
  <2>2. n - 1 \in U
    BY <1>1, <2>1
  <2> QED BY <1>6, <2>1, <2>2
<1> DEFINE times == {snap[m].upd : m \in DOMAIN snap}
<1>8. n \in times /\ \A x \in times : x <= n
  BY <1>6, <1>7
<1>9. MaxUpd = CHOOSE t \in times : \A u \in times : u <= t
  BY DEF MaxUpd
<1> HIDE DEF times
<1>10. MaxUpd \in times /\ \A u \in times : u <= MaxUpd
  BY <1>8, <1>9
<1> QED BY <1>10 DEF times

-----------------------------------------------------------------------------
(* The types.                                                              *)

LEMMA PlaceKept ==
  ASSUME Place, \/ at' = at \/ at' = <<1, 0>>
                \/ at[1] \in Boards /\ (at' = After(at) \/ at' = <<at[1] + 1, 0>>)
  PROVE  Place'
<1> USE NumbersAssumption DEF NumbersAssumption, Place, Boards, After
<1>1. CASE at' = at
  BY <1>1
<1>2. CASE at' = <<1, 0>>
  BY <1>2
<1>3. CASE at[1] \in Boards /\ (at' = After(at) \/ at' = <<at[1] + 1, 0>>)
  <2>1. \E x, y : at = <<x, y>> /\ x \in 1..NBoards /\ y \in 0..3
    BY <1>3
  <2> QED BY <1>3, <2>1
<1> QED BY <1>1, <1>2, <1>3

LEMMA BoardTypesKept == BoardTypes /\ [Next]_vars => BoardTypes'
<1> SUFFICES ASSUME BoardTypes, [Next]_vars PROVE BoardTypes'
  OBVIOUS
<1> USE NumbersAssumption DEF NumbersAssumption, BoardTypes
<1>1. ASSUME NEW b \in Boards, BoardAppears(b) PROVE BoardTypes'
  BY <1>1 DEF BoardAppears
<1>2. ASSUME NEW b \in Boards, NEW f \in Fields, BoardChanges(b, f) PROVE BoardTypes'
  <2>1. data' \in [Boards -> [Fields -> Nat]]
    BY <1>2 DEF BoardChanges
  <2> QED BY <1>2, <2>1 DEF BoardChanges, Stamp
<1>3. CASE StartAgain /\ (UNCHANGED now \/ now' = 1)
  BY <1>3 DEF StartAgain, Fresh
<1>4. CASE UNCHANGED boardVars /\ (UNCHANGED now \/ now' = now + 1)
  BY <1>4 DEF boardVars
<1> QED
  BY <1>1, <1>2, <1>3, <1>4
  DEF Next, Handler, vars, boardVars, Tick, PageAsks, PageHears, ReplyLost, Restart, Reboot, TenSeconds,
      ReadClock, ReadTime, ReadField, ScanDone, Decide

LEMMA TypesKept == TypeOK /\ [Next]_vars => TypeOK'
<1> SUFFICES ASSUME TypeOK, [Next]_vars PROVE TypeOK'
  OBVIOUS
<1> USE NumbersAssumption DEF NumbersAssumption, TypeOK
<1>1. BoardTypes'
  BY BoardTypesKept
<1>2. Place'
  <2>1. \/ at' = at \/ at' = <<1, 0>>
        \/ at[1] \in Boards /\ (at' = After(at) \/ at' = <<at[1] + 1, 0>>)
    BY DEF Next, Handler, vars, boardVars, handlerVars, Tick, BoardAppears, BoardChanges, PageAsks,
           PageHears, ReplyLost, Restart, Reboot, RequestEnds, StartAgain, TenSeconds, ReadClock, ReadTime,
           ReadField, ScanDone, Decide
  <2> QED BY <2>1, PlaceKept
<1>3. elapsed' \in BOOLEAN /\ late' \in BOOLEAN
  BY ZenonT(30)
  DEF Next, Handler, vars, boardVars, handlerVars, Tick, BoardAppears, BoardChanges, PageAsks, PageHears,
      ReplyLost, Restart, Reboot, RequestEnds, StartAgain, TenSeconds, ReadClock, ReadTime, ReadField,
      ScanDone, Decide
<1>4. <<>> \in Lists /\ Nothing \in [ts : Nat, boards : Lists] /\ last_id * Ms + Ms \in Nat
  <2>1. \A x, y \in Nat : x * y \in Nat
    OBVIOUS
  <2> QED BY EmptyList, <2>1 DEF Nothing
<1> USE <1>1, <1>2, <1>3, <1>4 DEF handlerVars, pageVars
<1>5. CASE Tick \/ (\E b \in Boards : BoardAppears(b)) \/ (\E b \in Boards, f \in Fields : BoardChanges(b, f))
  BY <1>5, SMTT(20) DEF Tick, BoardAppears, BoardChanges, boardVars
<1>6. CASE PageAsks \/ PageHears \/ ReplyLost \/ Restart \/ Reboot
  BY <1>6 DEF PageAsks, PageHears, ReplyLost, Restart, Reboot, RequestEnds, StartAgain, boardVars
<1>7. CASE TenSeconds \/ ReadClock \/ ScanDone
  BY <1>7 DEF TenSeconds, ReadClock, ScanDone, boardVars, BoardTypes
<1>8. CASE ReadTime
  <2>1. at[1] \in Boards => Read(at[1]) \in Lists
    <3> SUFFICES ASSUME at[1] \in Boards PROVE Read(at[1]) \in Lists
      OBVIOUS
    <3>1. [upd |-> upd[at[1]], val |-> Fresh] \in Entry
      BY DEF Entry, BoardTypes, Fresh
    <3> QED BY <3>1, ListExtended DEF Read
  <2> QED BY <1>8, <2>1 DEF ReadTime, boardVars
<1>9. CASE ReadField
  <2>1. snap' \in Lists
    <3> DEFINE b == at[1]
               e == [snap[b] EXCEPT !.val[at[2]] = data[b][at[2]]]
    <3>1. CASE b \in DOMAIN snap
      <4>1. snap[b] \in Entry /\ at[2] \in Fields /\ data[b][at[2]] \in Nat
        <5>1. at[1] \in Boards /\ at[2] # 0 /\ at[2] \in 0..3
          BY <1>9 DEF ReadField, Place
        <5>2. at[2] \in Fields
          BY <5>1 DEF Fields
        <5> QED BY <3>1, <5>1, <5>2, ListFacts DEF BoardTypes
      <4>2. e \in Entry
        BY <4>1 DEF Entry
      <4>3. snap' = [snap EXCEPT ![b] = e]
        BY <1>9 DEF ReadField
      <4>4. PICK D \in SUBSET Boards : snap \in [D -> Entry]
        BY DEF Lists
      <4> HIDE DEF e
      <4>5. snap' \in [D -> Entry]
        BY <4>2, <4>3, <4>4
      <4> QED BY <4>5 DEF Lists
    <3>2. CASE b \notin DOMAIN snap
      <4>1. snap' = snap
        <5>1. snap' = [snap EXCEPT ![b].val[at[2]] = data[b][at[2]]]
          BY <1>9 DEF ReadField
        <5>2. snap = [m \in DOMAIN snap |-> snap[m]]
          BY DEF Lists
        <5> QED BY <3>2, <5>1, <5>2
      <4> QED BY <4>1
    <3> QED BY <3>1, <3>2
  <2> QED BY <1>9, <2>1 DEF ReadField, boardVars
<1>10. CASE Decide
  <2>1. ASSUME snap # <<>> PROVE MaxUpd \in Nat
    BY <2>1, LatestExists, ListFacts DEF Entry
  <2>2. (IF snap = <<>> THEN TimeOfRound ELSE MaxUpd) \div Ms \in Nat
    <3>1. IF snap = <<>> THEN TimeOfRound \in Nat ELSE MaxUpd \in Nat
      BY <2>1 DEF TimeOfRound
    <3> QED BY <3>1, Rounding
  <2>3. reply' \in [ts : Nat, boards : Lists]
    BY <1>10, <2>2 DEF Decide
  <2>4. snap' \in Lists /\ t0' \in Nat
    BY <1>10 DEF Decide
  <2> QED BY <1>10, <2>3, <2>4 DEF Decide, boardVars
<1>11. CASE UNCHANGED vars
  BY <1>11 DEF vars, boardVars
<1> QED BY <1>5, <1>6, <1>7, <1>8, <1>9, <1>10, <1>11 DEF Next, Handler

-----------------------------------------------------------------------------
(* The boards change.                                                      *)

ListTyped(L) == DOMAIN L \subseteq Boards /\ \A m \in DOMAIN L : L[m].upd \in Nat

LEMMA Numbers ==
  ASSUME TypeOK
  PROVE  /\ ListTyped(snap) /\ ListTyped(reply.boards) /\ ListTyped(shown)
         /\ reply.ts * Ms \in Nat /\ last_id * Ms \in Nat
         /\ \A b \in Boards : b \in Nat /\ upd[b] \in Nat
         /\ at[1] \in Nat /\ at[2] \in 0..3 /\ at[1] <= NBoards + 1
         /\ (at[1] \notin Boards => at[1] = NBoards + 1 /\ at[2] = 0)
<1> USE NumbersAssumption DEF NumbersAssumption, TypeOK
<1>1. \A L \in Lists : ListTyped(L)
  BY ListFacts DEF ListTyped, Entry
<1>2. \A x, y \in Nat : x * y \in Nat
  OBVIOUS
<1>3. reply.boards \in Lists /\ reply.ts \in Nat
  OBVIOUS
<1>4. \A b \in Boards : b \in Nat /\ upd[b] \in Nat
  BY DEF BoardTypes, Boards
<1>5. /\ at[1] \in Nat /\ at[2] \in 0..3 /\ at[1] <= NBoards + 1
      /\ (at[1] \notin Boards => at[1] = NBoards + 1 /\ at[2] = 0)
  BY DEF Place, Boards
<1> QED BY <1>1, <1>2, <1>3, <1>4, <1>5

\* What the changes have in common: a board that changed is dated at the new time.
Moves ==
  /\ now' = now + 1
  /\ \A b \in Boards :
       \/ upd'[b] = now + 1
       \/ /\ upd'[b] = upd[b] /\ (b \in known' => b \in known)
          /\ \A f \in Timed : data'[b][f] = data[b][f]
  /\ UNCHANGED <<pc, handlerVars, pageVars, reboots>>

LEMMA ChangesMove ==
  ASSUME TypeOK, \/ \E b \in Boards : BoardAppears(b)
                 \/ \E b \in Boards, f \in Fields : BoardChanges(b, f)
  PROVE  Moves
<1>1. ASSUME NEW b \in Boards, BoardAppears(b) PROVE Moves
  BY <1>1 DEF TypeOK, BoardTypes, BoardAppears, Moves
<1>2. ASSUME NEW b \in Boards, NEW f \in Fields, BoardChanges(b, f) PROVE Moves
  <2>1. \A c \in Boards : \A g \in Fields : c # b \/ g # f => data'[c][g] = data[c][g]
    BY <1>2 DEF TypeOK, BoardTypes, BoardChanges
  <2>2. \A c \in Boards : upd'[c] = IF c = b /\ f \in Timed THEN now + 1 ELSE upd[c]
    BY <1>2 DEF TypeOK, BoardTypes, BoardChanges, Stamp
  <2> QED BY <1>2, <2>1, <2>2 DEF BoardChanges, Moves, Timed, Fields
<1> QED BY <1>1, <1>2

\* A list that is behind stays behind.
LEMMA BehindStays ==
  ASSUME TypeOK, Moves, Past, known' \subseteq Boards,
         NEW L, ListTyped(L), Dated(L), NEW ts, ts * Ms \in Nat, ts * Ms <= now, Behind(L, ts)
  PROVE  \A b \in known' :
           b \notin DOMAIN L \/ (\E f \in Timed : L[b].val[f] # data'[b][f]) =>
             /\ \A m \in DOMAIN L : m <= b => L[m].upd < upd'[b]
             /\ ts * Ms <= upd'[b] \/ \E c \in DOMAIN L : c > b /\ L[c].upd > upd'[b]
<1> SUFFICES ASSUME NEW b \in known',
                    b \notin DOMAIN L \/ \E f \in Timed : L[b].val[f] # data'[b][f]
             PROVE  /\ \A m \in DOMAIN L : m <= b => L[m].upd < upd'[b]
                    /\ ts * Ms <= upd'[b] \/ \E c \in DOMAIN L : c > b /\ L[c].upd > upd'[b]
  OBVIOUS
<1>1. now \in Nat /\ \A m \in DOMAIN L : L[m].upd \in Nat /\ L[m].upd <= now
  BY DEF TypeOK, BoardTypes, ListTyped, Dated
<1>2. CASE upd'[b] = now + 1
  BY <1>1, <1>2
<1>3. CASE /\ upd'[b] = upd[b] /\ b \in known
           /\ \A f \in Timed : data'[b][f] = data[b][f]
  <2>1. Lacks(L, b)
    BY <1>3 DEF Lacks
  <2> QED BY <1>3, <2>1 DEF Behind, Marked
<1> QED BY <1>2, <1>3 DEF Moves

LEMMA BoardsMove ==
  ASSUME TypeOK, TypeOK', Right, Moves
  PROVE  Right'
<1>1. now \in Nat /\ now' = now + 1 /\ known' \subseteq Boards
  BY DEF TypeOK, BoardTypes, Moves
<1>2. Past'
  <2>1. \A L : Dated(L) /\ ListTyped(L) => \A m \in DOMAIN L : L[m].upd <= now + 1
    BY <1>1 DEF Dated, ListTyped
  <2>2. Dated(snap)' /\ Dated(reply.boards)' /\ Dated(shown)'
    BY <1>1, <2>1, Numbers DEF Right, Past, Dated, Moves, handlerVars, pageVars
  <2>3. \A b \in Boards : upd'[b] <= now + 1
    BY <1>1, Numbers DEF Right, Past, Moves
  <2>4. t0' <= now + 1 /\ (reply.ts * Ms)' <= now + 1 /\ (last_id * Ms)' <= now + 1
    <3>1. t0 \in Nat /\ t0 <= now /\ reply.ts * Ms <= now /\ last_id * Ms <= now
      BY DEF TypeOK, Right, Past
    <3>2. t0' = t0 /\ (reply.ts * Ms)' = reply.ts * Ms /\ (last_id * Ms)' = last_id * Ms
      BY DEF Moves, handlerVars, pageVars
    <3> QED BY <1>1, <3>1, <3>2, Numbers
  <2> QED BY <1>1, <2>2, <2>3, <2>4 DEF Past
<1>3. Covered'
  <2>1. Behind(shown, last_id)'
    BY <1>1, Numbers, BehindStays DEF Right, Past, Covered, Moves, pageVars, Behind, Lacks, Marked
  <2>2. pc = "replied" => Behind(reply.boards, reply.ts)'
    BY <1>1, Numbers, BehindStays DEF Right, Past, Covered, Moves, handlerVars, Behind, Lacks, Marked
  <2> QED BY <2>1, <2>2 DEF Covered, Moves
<1>4. Scanning'
  <2>1. UNCHANGED <<pc, at, snap, t0>>
    BY DEF Moves, handlerVars
  <2>2. ASSUME pc \in {"scan", "decide"}, NEW b \in known' PROVE Scanned(b)'
    <3>1. b \in Boards /\ \A m \in DOMAIN snap : snap[m].upd \in Nat /\ snap[m].upd <= now
      BY <1>1, Numbers DEF Right, Past, Dated, ListTyped
    <3>2. CASE upd'[b] = now + 1
      <4>1. t0 < upd'[b] /\ \A m \in DOMAIN snap : snap[m].upd < upd'[b]
        BY <1>1, <3>1, <3>2 DEF Right, Past, TypeOK
      <4> QED BY <2>1, <4>1 DEF Scanned, Marked
    <3>3. CASE /\ upd'[b] = upd[b] /\ b \in known
               /\ \A f \in Timed : data'[b][f] = data[b][f]
      <4>1. Scanned(b)
        BY <2>2, <3>3 DEF Right, Scanning
      <4>2. /\ Marked(snap, b)' = Marked(snap, b)
            /\ Lacks(snap, b)' => Lacks(snap, b)
            /\ \A f \in Timed : (snap[b].val[f] # data[b][f])' => snap[b].val[f] # data[b][f]
        BY <2>1, <3>3 DEF Marked, Lacks
      <4> QED BY <2>1, <3>3, <4>1, <4>2 DEF Scanned
    <3> QED BY <3>1, <3>2, <3>3 DEF Moves
  <2> QED BY <2>1, <2>2 DEF Right, Scanning, Passed
<1> QED BY <1>2, <1>3, <1>4 DEF Right

-----------------------------------------------------------------------------
(* GetBoards reads.                                                        *)

LEMMA ScanBegins ==
  ASSUME TypeOK, Right, ReadClock
  PROVE  Right'
<1> USE DEF Right, ReadClock, boardVars, pageVars
<1>1. Past'
  BY EmptyList DEF Past, Dated, TypeOK, BoardTypes
<1>2. Covered'
  BY DEF Covered, Behind, Lacks, Marked
<1>3. at'[1] = 1 /\ at'[2] = 0 /\ DOMAIN snap' = {}
  BY EmptyList
<1>4. \A b \in known : Scanned(b)'
  <2>1. \A b \in known : b \in Nat /\ ~(b < 1)
    BY NumbersAssumption DEF NumbersAssumption, TypeOK, BoardTypes, Boards
  <2> QED BY <1>3, <2>1 DEF Scanned, Timed
<1> QED BY <1>1, <1>2, <1>3, <1>4 DEF Scanning

LEMMA TimeRead ==
  ASSUME TypeOK, Right, ReadTime
  PROVE  Right'
<1> USE DEF Right, ReadTime, boardVars, pageVars
<1> DEFINE b == at[1]
<1>0. b \in Boards /\ b \in Nat /\ at[2] = 0 /\ at' \in {<<b, 1>>, <<b + 1, 0>>}
  BY Numbers DEF After
<1>1. Covered'
  BY DEF Covered, Behind, Lacks, Marked
<1>2. CASE b \notin known
  <2>1. at'[1] = b + 1 /\ at'[2] = 0 /\ snap' = snap
    BY <1>2
  <2>2. Past'
    BY <2>1 DEF Past, Dated
  <2>3. ASSUME NEW c \in known PROVE Scanned(c)'
    <3>1. Scanned(c) /\ c \in Nat /\ c # b
      BY <1>2, Numbers DEF Scanning, TypeOK, BoardTypes
    <3>2. c < b + 1 => c < b
      BY <1>0, <3>1
    <3> QED BY <2>1, <3>1, <3>2 DEF Scanned, Lacks, Marked, Timed
  <2>4. \A m \in DOMAIN snap : Passed(m)'
    BY <1>0, <2>1, Numbers DEF Scanning, Passed, ListTyped
  <2> QED BY <1>1, <2>1, <2>2, <2>3, <2>4 DEF Scanning
<1>3. CASE b \in known
  <2> DEFINE e == [upd |-> upd[b], val |-> Fresh]
  <2>1. at'[1] = b /\ at'[2] = 1 /\ snap' = Extend(snap, b, e)
    BY <1>0, <1>3 DEF After, Read
  <2>2. b \notin DOMAIN snap
    BY <1>0 DEF Scanning, Passed
  <2>3. DOMAIN snap' = DOMAIN snap \cup {b} /\ snap'[b] = e
        /\ \A m \in DOMAIN snap : snap'[m] = snap[m]
    BY <2>1, <2>2 DEF Extend
  <2>4. Past'
    <3>1. \A m \in DOMAIN snap' : snap'[m].upd <= now
      BY <1>0, <2>3 DEF Past, Dated
    <3> QED BY <3>1 DEF Past, Dated
  <2>5. ASSUME NEW c \in known PROVE Scanned(c)'
    <3>1. Scanned(c) /\ c \in Nat
      BY Numbers DEF Scanning, TypeOK, BoardTypes
    <3>2. CASE c < b
      <4>1. c \in DOMAIN snap' <=> c \in DOMAIN snap
        BY <1>0, <2>3, <3>1, <3>2
      <4>2. Lacks(snap, c)' => Lacks(snap, c)
        BY <2>3, <4>1 DEF Lacks
      <4>3. Marked(snap, c) => Marked(snap, c)'
        BY <1>0, <2>3, <3>1, <3>2 DEF Marked
      <4> QED BY <1>0, <2>1, <3>1, <3>2, <4>1, <4>2, <4>3 DEF Scanned
    <3>3. CASE ~(c < b)
      BY <2>1, <3>3 DEF Scanned, Timed
    <3> QED BY <3>2, <3>3
  <2>6. \A m \in DOMAIN snap' : Passed(m)'
    BY <1>0, <2>1, <2>2, <2>3 DEF Scanning, Passed
  <2> QED BY <1>1, <2>1, <2>3, <2>4, <2>5, <2>6 DEF Scanning
<1> QED BY <1>2, <1>3

LEMMA FieldRead ==
  ASSUME TypeOK, Right, ReadField
  PROVE  Right'
<1> USE DEF Right, ReadField, boardVars, pageVars
<1> DEFINE b == at[1]
           g == at[2]
           e == [snap[b] EXCEPT !.val[g] = data[b][g]]
<1>0. b \in Boards /\ b \in Nat /\ g \in 1..3 /\ b \in DOMAIN snap
  BY Numbers DEF Scanning
<1>1. Covered'
  BY DEF Covered, Behind, Lacks, Marked
<1>2. snap \in Lists /\ snap[b] \in Entry /\ g \in Fields
  BY <1>0, ListFacts DEF TypeOK, Fields
<1>3. /\ DOMAIN snap' = DOMAIN snap /\ snap'[b] = e
      /\ \A m \in DOMAIN snap : m # b => snap'[m] = snap[m]
  <2>1. PICK D \in SUBSET Boards : snap \in [D -> Entry]
    BY <1>2 DEF Lists
  <2>2. snap' = [snap EXCEPT ![b] = e]
    OBVIOUS
  <2> HIDE DEF e
  <2> QED BY <1>0, <2>1, <2>2
<1>4. /\ e.upd = snap[b].upd /\ e.val[g] = data[b][g]
      /\ \A f \in Fields : f # g => e.val[f] = snap[b].val[f]
  BY <1>2 DEF Entry
<1> HIDE DEF e
<1>5. \A m \in DOMAIN snap : snap'[m].upd = snap[m].upd
  BY <1>3, <1>4
<1>6. Past'
  <2>1. Dated(snap)'
    BY <1>3, <1>5 DEF Past, Dated
  <2> QED BY <2>1 DEF Past, Dated
<1>7. (at'[1] = b /\ at'[2] = g + 1 /\ g # 3) \/ (at'[1] = b + 1 /\ at'[2] = 0 /\ g = 3)
  BY <1>0 DEF After
<1>8. \A c \in known : Marked(snap, c) => Marked(snap, c)'
  BY <1>3, <1>5 DEF Marked
<1>9. ASSUME NEW c \in known PROVE Scanned(c)'
  <2>1. Scanned(c) /\ c \in Nat
    BY Numbers DEF Scanning, TypeOK, BoardTypes
  <2>2. CASE c < b
    <3>1. Lacks(snap, c)' => Lacks(snap, c)
      BY <1>0, <1>3, <2>1, <2>2 DEF Lacks
    <3>2. c < at'[1] /\ c # at'[1] /\ c < at[1]
      BY <1>0, <1>7, <2>1, <2>2
    <3>3. (c \notin DOMAIN snap)' => c \notin DOMAIN snap
      BY <1>3
    <3> HIDE DEF ReadField
    <3>4. t0' = t0 /\ upd' = upd
      BY DEF ReadField
    <3> QED BY <1>8, <2>1, <3>1, <3>2, <3>3, <3>4 DEF Scanned
  <2>3. CASE c = b
    <3>1. ASSUME NEW f \in Timed, f <= g, snap'[b].val[f] # data[b][f]
          PROVE  f < g /\ snap[b].val[f] # data[b][f]
      BY <1>0, <1>3, <1>4, <3>1 DEF Timed, Fields
    <3>2. (\E f \in Timed : f <= g /\ snap'[b].val[f] # data[b][f]) => Marked(snap, c)'
      BY <1>8, <2>1, <2>3, <3>1 DEF Scanned
    <3>3. CASE g # 3
      BY <1>0, <1>7, <2>3, <3>2, <3>3 DEF Scanned, Timed
    <3>4. CASE g = 3
      <4>1. Lacks(snap, c)' => \E f \in Timed : f <= g /\ snap'[b].val[f] # data[b][f]
        BY <1>0, <1>3, <2>3, <3>4 DEF Lacks, Timed
      <4> QED BY <1>0, <1>3, <1>7, <2>3, <3>2, <3>4, <4>1 DEF Scanned
    <3> QED BY <3>3, <3>4
  <2>4. CASE c > b
    BY <1>0, <1>7, <2>1, <2>4 DEF Scanned, Timed
  <2> QED BY <1>0, <2>1, <2>2, <2>3, <2>4
<1>10. \A m \in DOMAIN snap' : Passed(m)'
  BY <1>0, <1>3, <1>7, Numbers DEF Scanning, Passed, ListTyped
<1> QED BY <1>0, <1>1, <1>3, <1>6, <1>7, <1>9, <1>10 DEF Scanning

\* What is answered is behind what is left out of it.
LEMMA Decides ==
  ASSUME TypeOK, Right, Decide
  PROVE  Right'
<1> USE DEF Right, boardVars, pageVars
<1> DEFINE ts == (IF snap = <<>> THEN TimeOfRound ELSE MaxUpd) \div Ms
<1>1. Scanning'
  BY EmptyList DEF Decide, Scanning
<1>2. Behind(shown, last_id)'
  BY DEF Decide, Covered, Behind, Lacks, Marked
<1>3. pc = "decide" /\ at[1] = NBoards + 1 /\ now \in Nat /\ t0 \in Nat
  BY Numbers DEF Decide, Scanning, TypeOK, BoardTypes
<1>4. ASSUME NEW b \in known
      PROVE  /\ Lacks(snap, b) => Marked(snap, b)
             /\ b \notin DOMAIN snap => t0 < upd[b]
  <2>1. Scanned(b) /\ b < at[1]
    BY <1>3, NumbersAssumption DEF NumbersAssumption, Scanning, TypeOK, BoardTypes, Boards
  <2> QED BY <2>1 DEF Scanned
<1>5. ts * Ms <= now /\ ts \in Nat /\ Behind(snap, ts)
  <2>1. CASE snap = <<>>
    <3>1. ts * Ms <= t0 /\ ts \in Nat /\ ts * Ms \in Nat
      <4>1. ts = t0 \div Ms
        BY <2>1 DEF TimeOfRound
      <4>2. \A x, y \in Nat : x * y \in Nat
        OBVIOUS
      <4> HIDE DEF ts
      <4> QED BY <1>3, <4>1, <4>2, Rounding, NumbersAssumption DEF NumbersAssumption
    <3> HIDE DEF ts
    <3>2. \A b \in known : upd[b] \in Nat /\ t0 < upd[b]
      BY <1>4, <2>1, EmptyList, Numbers DEF TypeOK, BoardTypes
    <3>3. t0 <= now
      BY DEF Past
    <3>4. \A b \in known : ts * Ms <= upd[b]
      BY <1>3, <3>1, <3>2
    <3> QED BY <1>3, <1>4, <3>1, <3>3, <3>4 DEF Behind
  <2>2. CASE snap # <<>>
    <3>1. PICK c \in DOMAIN snap : MaxUpd = snap[c].upd
      BY <2>2, LatestExists DEF TypeOK
    <3>2. MaxUpd \in Nat /\ MaxUpd <= now /\ c \in Nat
      BY <3>1, Numbers DEF Past, Dated, ListTyped
    <3>3. ts * Ms <= MaxUpd /\ ts \in Nat /\ ts * Ms \in Nat
      <4>1. ts = MaxUpd \div Ms
        BY <2>2
      <4>2. \A x, y \in Nat : x * y \in Nat
        OBVIOUS
      <4> HIDE DEF ts
      <4> QED BY <3>2, <4>1, <4>2, Rounding, NumbersAssumption DEF NumbersAssumption
    <3> HIDE DEF ts
    <3>4. ASSUME NEW b \in known, Lacks(snap, b)
          PROVE  ts * Ms <= upd[b] \/ \E d \in DOMAIN snap : d > b /\ snap[d].upd > upd[b]
      <4>1. b \in Nat /\ upd[b] \in Nat /\ Marked(snap, b)
        BY <1>4, <3>4, Numbers DEF TypeOK, BoardTypes
      <4>2. CASE c <= b
        BY <3>1, <3>2, <3>3, <4>1, <4>2 DEF Marked
      <4>3. CASE c > b
        BY <3>1, <3>2, <3>3, <4>1, <4>3
      <4> QED BY <3>2, <4>1, <4>2, <4>3
    <3> QED BY <1>3, <1>4, <3>2, <3>3, <3>4 DEF Behind
  <2> QED BY <2>1, <2>2
<1> HIDE DEF ts
<1>6. IF Answers THEN reply' = [boards |-> snap, ts |-> ts] /\ pc' = "replied"
      ELSE reply' = reply /\ pc' = "time"
  BY DEF Decide, ts
<1>7. UNCHANGED <<now, known, data, upd, last_id, shown>> /\ snap' = <<>> /\ t0' = 0
  BY DEF Decide
<1>8. CASE Answers
  <2>1. reply'.boards = snap /\ reply'.ts = ts
    BY <1>6, <1>8
  <2>2. Past'
    BY <1>3, <1>5, <1>7, <2>1, EmptyList DEF Past, Dated
  <2>3. Behind(reply.boards, reply.ts)'
    BY <1>5, <1>7, <2>1 DEF Behind, Lacks, Marked
  <2> QED BY <1>1, <1>2, <2>2, <2>3 DEF Covered
<1>9. CASE ~Answers
  <2>1. Past'
    BY <1>3, <1>6, <1>7, <1>9, EmptyList DEF Past, Dated
  <2> QED BY <1>1, <1>2, <1>6, <1>9, <2>1 DEF Covered
<1> QED BY <1>8, <1>9

-----------------------------------------------------------------------------
(* The other steps, and the theorems.                                      *)

LEMMA RequestsKeep ==
  ASSUME TypeOK, Right, \/ PageAsks \/ PageHears \/ ReplyLost \/ TenSeconds \/ ScanDone
                        \/ Tick \/ UNCHANGED vars
  PROVE  Right'
<1> USE DEF Right, boardVars, pageVars, handlerVars, Past, Dated, Scanning, Scanned, Passed, Covered, Behind,
            Lacks, Marked
<1>0. now \in Nat /\ t0 \in Nat
  BY DEF TypeOK, BoardTypes
<1>1. CASE PageAsks
  BY <1>1 DEF PageAsks
<1>2. CASE TenSeconds \/ UNCHANGED vars
  BY <1>2 DEF TenSeconds, vars
<1>3. CASE ScanDone
  BY <1>3 DEF ScanDone
<1>4. CASE Tick
  <2> USE DEF Tick
  <2>1. /\ \A L : ListTyped(L) /\ Dated(L) => \A m \in DOMAIN L : L[m].upd <= now + 1
        /\ \A x \in Nat : x <= now => x <= now + 1
    BY <1>0 DEF ListTyped
  <2>2. now' = now + 1 /\ UNCHANGED <<boardVars, pc, handlerVars, pageVars>>
    BY <1>4
  <2>3. Past'
    BY <1>0, <2>1, <2>2, Numbers
  <2>4. Scanning' /\ Covered'
    BY <2>2
  <2> QED BY <2>3, <2>4
<1>5. CASE PageHears \/ ReplyLost
  <2>1. snap' = <<>> /\ t0' = 0 /\ reply'.boards = <<>> /\ reply'.ts = 0 /\ at' = <<1, 0>>
    BY <1>5 DEF PageHears, ReplyLost, RequestEnds, Nothing
  <2>2. 0 * Ms = 0
    BY NumbersAssumption DEF NumbersAssumption
  <2>3. at'[2] = 0 /\ pc' = "none" /\ UNCHANGED <<now, known, data, upd>>
    BY <1>5, <2>1 DEF PageHears, ReplyLost, RequestEnds
  <2>4. Behind(shown, last_id)' /\ Dated(shown)' /\ last_id' * Ms <= now
    BY <1>5, <2>3 DEF PageHears, ReplyLost
  <2> QED BY <1>0, <2>1, <2>2, <2>3, <2>4, EmptyList
<1> QED BY <1>1, <1>2, <1>3, <1>4, <1>5

LEMMA RestartKeeps ==
  ASSUME TypeOK, Right, Restart
  PROVE  Right'
<1> USE DEF Right, Restart, StartAgain, pageVars
<1>1. snap' = <<>> /\ t0' = 0 /\ reply'.boards = <<>> /\ reply'.ts = 0 /\ at' = <<1, 0>>
  BY DEF RequestEnds, Nothing
<1>2. 0 * Ms = 0 /\ now \in Nat
  BY NumbersAssumption DEF NumbersAssumption, TypeOK, BoardTypes
<1>3. at'[2] = 0 /\ pc' = "none" /\ now' = now /\ known' = {} /\ \A b \in Boards : upd'[b] = 0
  BY <1>1 DEF RequestEnds
<1>4. Past'
  BY <1>1, <1>2, <1>3, EmptyList DEF Past, Dated
<1> QED BY <1>1, <1>3, <1>4, EmptyList DEF Scanning, Covered, Behind

LEMMA Invariant == Spec => []IInv
<1>1. Init => IInv
  <2> SUFFICES ASSUME Init PROVE IInv
    OBVIOUS
  <2> USE NumbersAssumption, EmptyList DEF NumbersAssumption, Init, Nothing, Fresh
  <2>1. elapsed \in BOOLEAN /\ late \in BOOLEAN
    BY Zenon
  <2>2. Place
    BY DEF Place, Boards
  <2>3. TypeOK
    BY <2>1, <2>2 DEF TypeOK, BoardTypes
  <2>4. 0 * Ms = 0
    OBVIOUS
  <2>5. Past
    BY <2>4 DEF Past, Dated
  <2>6. Scanning /\ Covered
    BY DEF Scanning, Covered, Behind
  <2> QED BY <2>3, <2>5, <2>6 DEF IInv, Right
<1>2. IInv /\ [Next]_vars => IInv'
  <2> SUFFICES ASSUME IInv, [Next]_vars PROVE IInv'
    OBVIOUS
  <2>1. TypeOK /\ TypeOK'
    BY TypesKept DEF IInv
  <2>2. ASSUME reboots' = 0 PROVE Right'
    <3>1. CASE Reboot
      BY <2>1, <2>2, <3>1 DEF Reboot, TypeOK
    <3>2. CASE ~Reboot
      <4>1. reboots' = reboots
        BY <3>2
        DEF Next, Handler, vars, Tick, BoardAppears, BoardChanges, PageAsks, PageHears, ReplyLost,
            Restart, TenSeconds, ReadClock, ReadTime, ReadField, ScanDone, Decide
      <4>2. Right
        BY <2>2, <4>1 DEF IInv
      <4> QED
        BY <2>1, <3>2, <4>2, ChangesMove, BoardsMove, ScanBegins, TimeRead, FieldRead, Decides, RequestsKeep,
           RestartKeeps
        DEF Next, Handler
    <3> QED BY <3>1, <3>2
  <2> QED BY <2>1, <2>2 DEF IInv
<1> QED BY <1>1, <1>2, PTL DEF Spec

\* The variables keep their types, however the clock is set: GetBoards reads a board
\* of the configuration and one of its fields, or is through.
THEOREM TypeCorrect == Spec => []TypeOK
<1>1. IInv => TypeOK
  BY DEF IInv
<1> QED BY <1>1, Invariant, PTL

\* Whatever changes while GetBoards reads, and whatever replies are lost, a board's
\* entry on the page is never marked as recent as a change it lacks.
THEOREM SnapshotCoversHolds == Spec => []SnapshotCovers
<1>1. IInv => SnapshotCovers
  <2> SUFFICES ASSUME IInv, NEW b \in known \cap DOMAIN shown, Outdated(b), ~(reboots > 0)
               PROVE  upd[b] > shown[b].upd
    BY DEF SnapshotCovers
  <2>1. TypeOK /\ Right
    BY DEF IInv, TypeOK
  <2>2. b \in Nat /\ upd[b] \in Nat /\ shown[b].upd \in Nat
    BY <2>1, Numbers DEF TypeOK, BoardTypes, ListTyped
  <2>3. Marked(shown, b)
    BY <2>1 DEF Right, Covered, Behind, Lacks, Outdated
  <2> QED BY <2>2, <2>3 DEF Marked
<1> QED BY <1>1, Invariant, PTL

\* A change the page lacks is not older than the millisecond its last_id names: the
\* next poll may pass over one of that millisecond, or of the first tick of the
\* next, or one that a later change of a board further down the list hides
\* (GetNotificationsLongPoling).
THEOREM OnlyTheSameMsHolds == Spec => []OnlyTheSameMs
<1>1. IInv => OnlyTheSameMs
  <2> SUFFICES ASSUME IInv, NEW b \in known, Outdated(b), ~(reboots > 0)
               PROVE  \/ upd[b] >= last_id * Ms
                      \/ \E c \in DOMAIN shown : c > b /\ shown[c].upd > upd[b]
    BY DEF OnlyTheSameMs
  <2>1. TypeOK /\ Right
    BY DEF IInv, TypeOK
  <2>2. last_id * Ms <= upd[b] \/ \E c \in DOMAIN shown : c > b /\ shown[c].upd > upd[b]
    BY <2>1 DEF Right, Covered, Behind, Lacks, Outdated
  <2>3. last_id * Ms \in Nat /\ upd[b] \in Nat
    BY <2>1, Numbers DEF TypeOK, BoardTypes
  <2> QED BY <2>2, <2>3
<1> QED BY <1>1, Invariant, PTL

=============================================================================
