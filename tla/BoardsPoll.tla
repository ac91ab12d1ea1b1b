------------------------------ MODULE BoardsPoll ------------------------------
(***************************************************************************)
(* How the web page learns of changes: ControllerClass::GetBoards and      *)
(* GetNotificationsLongPoling (LogoControl/ControllerClass.cpp), and the   *)
(* page's loop (LogoControl/content/index.html), against boards whose      *)
(* fields change under their own lock (LogoClass.h, UpdateData).           *)
(*                                                                         *)
(* Abstractions.  A field's value is the number of times it changed.  The  *)
(* clock counts ticks of 100 ns, Ms of them in a "millisecond"; an update  *)
(* takes at least a tick, and ten seconds are not counted but announced    *)
(* (TenSeconds), at any time while a request is served.  One page polls:   *)
(* requests share nothing but veclock, which only orders the reads.        *)
(***************************************************************************)
EXTENDS Integers, FiniteSets

CONSTANTS
  NBoards,       \* the boards of the configuration, in order
  Ms,            \* ticks in a millisecond (10000 in the code)
  MaxTime,       \* bound: the clock
  MaxUpdates,    \* bound: changes of fields
  MaxFaults,     \* bound: lost replies and restarts of the service
  MaxReboots     \* bound: restarts of the computer, which set the clock back

ASSUME NumbersAssumption ==
  /\ NBoards \in Nat \ {0} /\ Ms \in Nat \ {0} /\ MaxTime \in Nat \ {0}
  /\ MaxUpdates \in Nat /\ MaxFaults \in Nat /\ MaxReboots \in Nat

Boards == 1..NBoards

\* The order in which GetBoards reads a board's fields after its update time:
\* path 1, path 2, then the fields UpdateDataNOLT stores without a time.
Fields == 1..3
Timed == {1, 2}

Fresh == [f \in Fields |-> 0]             \* a board nobody told anything yet

VARIABLES
  now,       \* ClockHighRes::get_time()
  known,     \* the boards whose Id() is not empty
  data,      \* data[b][f]
  upd,       \* last_update_time
  pc,        \* the request: "none", "time", "scan", "decide", "replied"
  lastId,    \* lastId of the handler
  elapsed,   \* ten seconds have passed since start_time
  t0,        \* the local now of the round
  late,      \* now - start_time >= 10 s, with that now
  at,        \* <<board, field>> GetBoards reads next; field 0 is the time
  snap,      \* boards, as far as they are read
  reply,     \* timeStampMs and boards of the reply
  last_id,   \* the page's last_id
  shown,     \* what the page shows
  updates, faults, reboots

boardVars == <<known, data, upd, updates>>
handlerVars == <<lastId, elapsed, t0, late, at, snap, reply>>
pageVars == <<last_id, shown>>
vars == <<now, boardVars, pc, handlerVars, pageVars, faults, reboots>>

Nothing == [ts |-> 0, boards |-> <<>>]

Init ==
  /\ now = 1
  /\ known = {}
  /\ data = [b \in Boards |-> Fresh] /\ upd = [b \in Boards |-> 0]
  /\ pc = "none"
  /\ lastId = 0 /\ elapsed = FALSE /\ t0 = 0 /\ late = FALSE
  /\ at = <<1, 0>> /\ snap = <<>> /\ reply = Nothing
  /\ last_id = 0 /\ shown = <<>>
  /\ updates = 0 /\ faults = 0 /\ reboots = 0

-----------------------------------------------------------------------------
(* The boards.                                                             *)

Tick ==
  /\ now < MaxTime /\ now' = now + 1
  /\ UNCHANGED <<boardVars, pc, handlerVars, pageVars, faults, reboots>>

\* The first device info: UpdateData(uuid, cardUUID).
BoardAppears(b) ==
  /\ b \notin known /\ now < MaxTime
  /\ now' = now + 1
  /\ known' = known \cup {b} /\ upd' = [upd EXCEPT ![b] = now']
  /\ UNCHANGED <<data, pc, handlerVars, pageVars, updates, faults, reboots>>

\* UpdateData stores the time with the value, UpdateDataNOLT does not.
Stamp(b, f) == IF f \in Timed THEN [upd EXCEPT ![b] = now'] ELSE upd

BoardChanges(b, f) ==
  /\ b \in known /\ now < MaxTime /\ updates < MaxUpdates
  /\ now' = now + 1 /\ updates' = updates + 1
  /\ data' = [data EXCEPT ![b][f] = @ + 1]
  /\ upd' = Stamp(b, f)
  /\ UNCHANGED <<known, pc, handlerVars, pageVars, faults, reboots>>

-----------------------------------------------------------------------------
(* The page.                                                               *)

\* GetInfoNotifications.  The handler starts: lastId is one millisecond past
\* last_id, or 0 when that is ten seconds or more away from start_time.
PageAsks ==
  /\ pc = "none"
  /\ pc' = "time"
  /\ lastId' \in {last_id * Ms + Ms, 0}
  /\ elapsed' = FALSE
  /\ UNCHANGED <<now, boardVars, t0, late, at, snap, reply, pageVars, faults, reboots>>

\* The handler's locals go with the request.
RequestEnds ==
  /\ pc' = "none"
  /\ lastId' = 0 /\ elapsed' = FALSE /\ t0' = 0 /\ late' = FALSE
  /\ at' = <<1, 0>> /\ snap' = <<>> /\ reply' = Nothing

\* notifReqListener
PageHears ==
  /\ pc = "replied"
  /\ shown' = reply.boards /\ last_id' = reply.ts
  /\ RequestEnds
  /\ UNCHANGED <<now, boardVars, faults, reboots>>

\* notifFailed: the request is made again.
ReplyLost ==
  /\ pc # "none" /\ faults < MaxFaults /\ faults' = faults + 1
  /\ RequestEnds
  /\ UNCHANGED <<now, boardVars, pageVars, reboots>>

\* What starting the service again does to the program: every LogoClass is new,
\* a request under way fails.  The page keeps what it has.
StartAgain ==
  /\ known' = {}
  /\ data' = [b \in Boards |-> Fresh] /\ upd' = [b \in Boards |-> 0]
  /\ RequestEnds
  /\ UNCHANGED <<updates, pageVars>>

Restart ==
  /\ faults < MaxFaults /\ faults' = faults + 1
  /\ StartAgain
  /\ UNCHANGED <<now, reboots>>

\* The steady clock counts from the start of the computer.
Reboot ==
  /\ reboots < MaxReboots /\ reboots' = reboots + 1
  /\ now' = 1
  /\ StartAgain
  /\ UNCHANGED faults

-----------------------------------------------------------------------------
(* GetNotificationsLongPoling and the GetBoards it calls.                  *)

TenSeconds ==
  /\ pc \notin {"none", "replied"} /\ ~elapsed
  /\ elapsed' = TRUE
  /\ UNCHANGED <<now, boardVars, pc, lastId, t0, late, at, snap, reply, pageVars, faults, reboots>>

\* Seeded fault: the clock is read after GetBoards.
TimeOfDecision == now

TimeOfRound == t0

\* auto now = get_time(); GetBoards begins.
ReadClock ==
  /\ pc = "time"
  /\ t0' = now /\ late' = elapsed
  /\ at' = <<1, 0>> /\ snap' = <<>>
  /\ pc' = "scan"
  /\ UNCHANGED <<now, boardVars, lastId, elapsed, reply, pageVars, faults, reboots>>

\* The next field of the board, then the next board.
After(p) == IF p[2] = 3 THEN <<p[1] + 1, 0>> ELSE <<p[1], p[2] + 1>>

Extend(fn, x, v) == [y \in DOMAIN fn \cup {x} |-> IF y = x THEN v ELSE fn[y]]

Read(b) == Extend(snap, b, [upd |-> upd[b], val |-> Fresh])

\* A board without an id is skipped; of another the update time is read first.
ReadTime ==
  /\ pc = "scan" /\ at[1] \in Boards /\ at[2] = 0
  /\ IF at[1] \in known
       THEN at' = After(at) /\ snap' = Read(at[1])
       ELSE at' = <<at[1] + 1, 0>> /\ UNCHANGED snap
  /\ UNCHANGED <<now, boardVars, pc, lastId, elapsed, t0, late, reply, pageVars, faults, reboots>>

\* Seeded fault: the update time is read again with every field.
ReadFieldAndTime ==
  /\ pc = "scan" /\ at[1] \in Boards /\ at[2] # 0
  /\ snap' = [snap EXCEPT ![at[1]].val[at[2]] = data[at[1]][at[2]],
                          ![at[1]].upd = upd[at[1]]]
  /\ at' = After(at)
  /\ UNCHANGED <<now, boardVars, pc, lastId, elapsed, t0, late, reply, pageVars, faults, reboots>>

\* Each field under the board's lock, one after the other.
ReadField ==
  /\ pc = "scan" /\ at[1] \in Boards /\ at[2] # 0
  /\ snap' = [snap EXCEPT ![at[1]].val[at[2]] = data[at[1]][at[2]]]
  /\ at' = After(at)
  /\ UNCHANGED <<now, boardVars, pc, lastId, elapsed, t0, late, reply, pageVars, faults, reboots>>

ScanDone ==
  /\ pc = "scan" /\ at[1] \notin Boards
  /\ pc' = "decide"
  /\ UNCHANGED <<now, boardVars, handlerVars, pageVars, faults, reboots>>

MaxUpd ==
  LET times == {snap[b].upd : b \in DOMAIN snap}
  IN  CHOOSE t \in times : \A u \in times : u <= t

\* Seeded fault: ten seconds do not end the wait.
WaitsForNews == IF snap = <<>> THEN lastId = 0 ELSE MaxUpd > lastId

Answers == IF snap = <<>> THEN late \/ lastId = 0 ELSE MaxUpd > lastId \/ late

Decide ==
  /\ pc = "decide"
  /\ IF Answers
       THEN /\ reply' = [boards |-> snap,
                         ts |-> (IF snap = <<>> THEN TimeOfRound ELSE MaxUpd) \div Ms]
            /\ pc' = "replied"
       ELSE pc' = "time" /\ UNCHANGED reply
  /\ snap' = <<>> /\ at' = <<1, 0>> /\ t0' = 0 /\ late' = FALSE
  /\ UNCHANGED <<now, boardVars, lastId, elapsed, pageVars, faults, reboots>>

-----------------------------------------------------------------------------
Handler == ReadClock \/ ReadTime \/ ReadField \/ ScanDone \/ Decide

Next ==
  \/ Tick
  \/ \E b \in Boards : BoardAppears(b)
  \/ \E b \in Boards, f \in Fields : BoardChanges(b, f)
  \/ PageAsks \/ PageHears \/ ReplyLost \/ Restart \/ Reboot
  \/ TenSeconds \/ Handler

Spec == Init /\ [][Next]_vars

\* The page asks again and again, the handler's thread runs, and ten seconds
\* pass while it loops.
FairSpec == Spec /\ WF_vars(Handler \/ PageAsks \/ PageHears) /\ WF_vars(TenSeconds)

-----------------------------------------------------------------------------
(* Properties.                                                             *)

\* The page does not show what the board's timed fields hold now.
Outdated(b) ==
  \/ b \notin DOMAIN shown
  \/ \E f \in Timed : shown[b].val[f] # data[b][f]

\* GetBoards reads last_update_time before the paths: whatever changes while it
\* reads, a board's entry is never marked as recent as a change it lacks, as long
\* as the clock is not set back.
SnapshotCovers ==
  \A b \in known \cap DOMAIN shown :
    Outdated(b) => upd[b] > shown[b].upd \/ reboots > 0

\* The rounding of timeStampMs and the time an empty list is given: a change the
\* page lacks is never older than the millisecond last_id names.  The next poll
\* answers at once to what is later than the first tick of the millisecond after
\* it (lastId is rounded up and compared with >), so that only a change of that
\* millisecond or that one tick can be passed over until the ten seconds are up.
\* Two things hide an older one all the same: a later change of a board that
\* GetBoards read after this one, which stands for the whole list, and a clock
\* set back.
OnlyTheSameMs ==
  \A b \in known :
    Outdated(b) =>
      \/ upd[b] >= last_id * Ms
      \/ \E c \in DOMAIN shown : c > b /\ shown[c].upd > upd[b]
      \/ reboots > 0

\* The ten seconds after which the handler answers in any case: what the times
\* cannot tell (two changes in a millisecond, a change of one board hidden by a
\* later one of another, a field without a time, a clock set back) reaches the
\* page all the same.
EventuallyShown ==
  <>[](DOMAIN shown = known /\ \A b \in known : shown[b].val = data[b])

=============================================================================
