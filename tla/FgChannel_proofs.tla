--------------------------- MODULE FgChannel_proofs ---------------------------
(***************************************************************************)
(* Type correctness, that a fed generator is never left without its        *)
(* watchdog (Watched), that SAFTLIB is asked for polynomials before the    *)
(* level is below the threshold (RefillInTime), and that the generator     *)
(* gets them one after the other (InOrder), for every size of the buffer   *)
(* and any number of runs and polynomials.                                 *)
(***************************************************************************)
EXTENDS FgChannel, TLAPS

On == hw \in {"running", "silent"}

\* The steps of the main task between switching the watchdog off and STATE_STOPPED.
Stopping == at \in {"fgIsStarted", "irqDisable", "stopSignal", "stopState"}

\* Only wdtPoll() switches the watchdog of a fed generator off, and goes on to stop it.
WatchedOrStopping ==
  On /\ fgIsStarted /\ loaded /\ timeout = "off" => Stopping

\* Where the main task is tells what it does.
JobOfStep ==
  /\ Stopping \/ at = "wdtDisable" => job = "watchdog"
  /\ at \in {"flush", "disarm", "unwatch"} => hw = "off"

\* A generator whose interrupt is pending has not got its next polynomial, and
\* the FG task gives it one only after it has taken the interrupt.
AskedIsEmpty ==
  /\ irq # "none" /\ On => ~loaded
  /\ fg = "feed" => irq = "none"

IInv == WatchedOrStopping /\ JobOfStep /\ AskedIsEmpty

LEMMA InitIInv == Init => IInv
BY DEF Init, IInv, On, Stopping, WatchedOrStopping, JobOfStep, AskedIsEmpty, fgIsStarted

\* handleAdacFg(): a start makes the channel ACTIVE before it is fed, and what
\* feeds it sets the watchdog.
LEMMA FgTaskIInv == IInv /\ FgTask => IInv'
<1> SUFFICES ASSUME IInv, FgTask PROVE IInv'
  OBVIOUS
<1> USE DEF IInv, On, Stopping, WatchedOrStopping, JobOfStep, AskedIsEmpty, fgIsStarted,
            main, gen, lib
<1>1. CASE HandleStop
  BY <1>1 DEF HandleStop
<1>2. CASE HandleRunning
  BY <1>2 DEF HandleRunning
<1>3. CASE feedAdacFg
  BY <1>3 DEF feedAdacFg, wdtReset
<1>4. CASE Starve
  BY <1>4 DEF Starve
<1> QED
  BY <1>1, <1>2, <1>3, <1>4 DEF FgTask

\* The main task.
LEMMA MainTaskIInv == IInv /\ MainTask => IInv'
<1> SUFFICES ASSUME IInv, MainTask PROVE IInv'
  OBVIOUS
<1> USE DEF IInv, On, Stopping, WatchedOrStopping, JobOfStep, AskedIsEmpty, fgIsStarted,
            gen, lib, Goto, Late, Step, Return
<1>1. CASE Command
  BY <1>1 DEF Command
<1>2. CASE wdtPoll
  BY <1>2 DEF wdtPoll, TimedOut, wdtDisable, WdtIgnore, WdtStop
<1>3. CASE makeStop
  BY <1>3 DEF makeStop, addacFgDisableIrq, StopSignal, StopState
<1>4. CASE fgDisableChannel
  BY <1>4 DEF fgDisableChannel, addacFgDisable, flushCircularBuffer, Disarm, Unwatch
<1>5. CASE fgResetAndInit
  BY <1>5 DEF fgResetAndInit, ResetWrite, ResetRead, ResetState, HwReset
<1>6. CASE fgEnableChannel
  BY <1>6 DEF fgEnableChannel, Watch, wdtReset, addacFgPrepare, FirstTuple, NoTuple,
              addacFgStart, sendSignalArmed
<1> QED
  BY <1>1, <1>2, <1>3, <1>4, <1>5, <1>6 DEF MainTask

\* The generator, the time and SAFTLIB.
LEMMA EnvironmentIInv == IInv /\ (Hardware \/ TimePasses \/ Saftlib) => IInv'
<1> SUFFICES ASSUME IInv, Hardware \/ TimePasses \/ Saftlib PROVE IInv'
  OBVIOUS
<1> USE DEF IInv, On, Stopping, WatchedOrStopping, JobOfStep, AskedIsEmpty, fgIsStarted, main
<1>1. CASE Hardware
  BY <1>1 DEF Hardware, HwStart, HwRequest, HwStop, HwFails, Handled, Interrupt
<1>2. CASE TimePasses
  BY <1>2 DEF TimePasses, gen
<1>3. CASE Saftlib
  BY <1>3 DEF Saftlib, Acquire, BeginFill, EndFill, EnableEmpty, Disable, Release, Idle, gen
<1> QED
  BY <1>1, <1>2, <1>3

LEMMA NextIInv == IInv /\ [Next]_vars => IInv'
<1>1. CASE UNCHANGED vars
  BY <1>1 DEF vars, main, gen, IInv, On, Stopping, WatchedOrStopping, JobOfStep, AskedIsEmpty,
              fgIsStarted
<1> QED
  BY <1>1, FgTaskIInv, MainTaskIInv, EnvironmentIInv DEF Next

\* wdtPoll() and the FG task: whatever the order of their steps, a generator
\* that is fed is watched when the main task is back in its loop.
THEOREM AlwaysWatched == Spec => []Watched
<1>1. IInv => Watched
  BY DEF IInv, Watched, WatchedOrStopping, JobOfStep, On, Stopping
<1> QED
  BY <1>1, InitIInv, NextIInv, PTL DEF Spec
-----------------------------------------------------------------------------
(* Type correctness, of the control state and of the data.  Numbers of       *)
(* polynomials stay in range because a run has no more than MaxTuples, of    *)
(* which SAFTLIB writes no more than it has left.                            *)

Numbers == 0 .. MaxRuns * MaxTuples

Control ==
  /\ state \in {"STOPPED", "ARMED", "ACTIVE"} /\ timeout \in {"off", "set", "over"}
  /\ job \in {"none", "watchdog", "reset", "enable", "disable"}
  /\ at \in {"loop", "wdtDisable", "fgIsStarted", "irqDisable", "stopSignal", "stopState",
             "hwDisable", "flush", "disarm", "unwatch",
             "wr_ptr", "rd_ptr", "state", "hwReset",
             "watch", "prepare", "read", "start", "rewatch", "armed"}
  /\ fg \in {"idle", "feed"} /\ irq \in {"none", "new", "due"}
  /\ hw \in {"off", "armed", "running", "silent"}
  /\ command \in {"none", "reset", "enable", "disable"}
  /\ saft \in {"free", "acquired", "run"}

Flags ==
  /\ irqEnabled \in BOOLEAN /\ dreq \in BOOLEAN /\ loaded \in BOOLEAN
  /\ released \in BOOLEAN /\ refill \in BOOLEAN

Indexes == wr_ptr \in Place /\ rd_ptr \in Place

Polynomials ==
  /\ buffer \in [Place -> Numbers] /\ sent \in Numbers
  /\ fill \in [from : Place, count : Place]
  /\ todo \in 0 .. MaxTuples /\ runs \in 0 .. MaxRuns /\ written \in Numbers
  /\ fill.count <= todo
  /\ saft = "free" => fill.count = 0
  /\ written + todo <= runs * MaxTuples

TypeInv == Control /\ Flags /\ Indexes /\ Polynomials

LEMMA TypeInvImplies == TypeInv => TypeOK
BY DEF TypeInv, Control, Flags, Indexes, Polynomials, Numbers, TypeOK

\* Whatever is taken modulo the size of the buffer is a place of it.
LEMMA ModIsPlace == \A n \in Nat : n % BUFFER_SIZE \in Place
BY FgChannelAssumption DEF Place

LEMMA ZeroIsInRange == 0 \in Place /\ 0 \in Numbers /\ 0 \in 0 .. MaxTuples /\ 0 \in 0 .. MaxRuns
<1>1. MaxRuns * MaxTuples \in Nat
  BY FgChannelAssumption
<1> QED
  BY <1>1, FgChannelAssumption DEF Place, Numbers

\* The fill level lies between empty and full.
LEMMA CountIsPlace == Indexes => cbgetCount \in Place
BY FgChannelAssumption DEF Indexes, cbgetCount, Place

\* Reading stays in the buffer, and reads a number.
LEMMA ReadInRange ==
  Indexes /\ Polynomials /\ cbRead => Indexes' /\ sent' \in Numbers /\ buffer' = buffer
<1> SUFFICES ASSUME Indexes, Polynomials, cbRead
             PROVE  Indexes' /\ sent' \in Numbers /\ buffer' = buffer
  OBVIOUS
<1>1. rd_ptr + 1 \in Nat
  BY FgChannelAssumption DEF Indexes, Place
<1>2. rd_ptr' \in Place
  BY <1>1, ModIsPlace DEF cbRead
<1>3. sent' \in Numbers
  BY DEF cbRead, Indexes, Polynomials
<1> QED
  BY <1>2, <1>3 DEF cbRead, Indexes

LEMMA InitTypeInv == Init => TypeInv
<1> SUFFICES ASSUME Init PROVE TypeInv
  OBVIOUS
<1> USE DEF Init
<1>1. Control
  BY DEF Control
<1>2. Flags
  BY Zenon DEF Flags
<1>3. Indexes
  BY ZeroIsInRange DEF Indexes
<1>4. buffer \in [Place -> Numbers] /\ fill \in [from : Place, count : Place] /\ fill.count = 0
  BY ZeroIsInRange DEF NoFill
<1>5. runs * MaxTuples = 0
  BY FgChannelAssumption
<1>6. Polynomials
  BY <1>4, <1>5, ZeroIsInRange DEF Polynomials
<1> QED
  BY <1>1, <1>2, <1>3, <1>6 DEF TypeInv

LEMMA FgTaskTypeInv == TypeInv /\ FgTask => TypeInv'
<1> SUFFICES ASSUME TypeInv, FgTask PROVE TypeInv'
  OBVIOUS
<1> USE DEF TypeInv, FgTask, cb, main, gen, lib
<1>1. Control'
  BY DEF Control, HandleStop, HandleRunning, feedAdacFg, wdtReset, Starve
<1>2. Flags'
  <2>1. CASE HandleStop
    BY <2>1, Zenon DEF Flags, HandleStop, SendStop
  <2>2. CASE HandleRunning
    BY <2>2, Zenon DEF Flags, HandleRunning, sendRefillSignalIfThreshold
  <2>3. CASE feedAdacFg \/ Starve
    BY <2>3, Zenon DEF Flags, feedAdacFg, Starve
  <2> QED
    BY <2>1, <2>2, <2>3
<1>3. Indexes' /\ sent' \in Numbers /\ buffer' = buffer
  <2>1. CASE feedAdacFg
    BY <2>1, ReadInRange DEF feedAdacFg
  <2>2. CASE ~feedAdacFg
    BY <2>2 DEF HandleStop, HandleRunning, Starve, Indexes, Polynomials
  <2> QED
    BY <2>1, <2>2
<1>4. UNCHANGED lib
  BY DEF HandleStop, HandleRunning, feedAdacFg, Starve
<1>5. Polynomials'
  BY <1>3, <1>4 DEF Polynomials
<1> QED
  BY <1>1, <1>2, <1>3, <1>5

\* The main task moves indexes and reads, but writes no polynomial.
LEMMA MainTaskTypeInv == TypeInv /\ MainTask => TypeInv'
<1> SUFFICES ASSUME TypeInv, MainTask PROVE TypeInv'
  OBVIOUS
<1> USE DEF TypeInv, Goto, Late, Step, Return, cb, gen, lib
<1>1. CASE Command
  <2> USE <1>1 DEF Command
  <2>1. Control'
    BY DEF Control
  <2>2. Flags'
    BY Zenon DEF Flags
  <2> QED
    BY <2>1, <2>2 DEF Indexes, Polynomials
<1>2. CASE wdtPoll
  <2> USE <1>2 DEF wdtPoll, TimedOut, wdtDisable, WdtIgnore, WdtStop
  <2>1. Control'
    BY DEF Control
  <2>2. Flags'
    BY Zenon DEF Flags
  <2> QED
    BY <2>1, <2>2 DEF Indexes, Polynomials
<1>3. CASE makeStop
  <2> USE <1>3 DEF makeStop, addacFgDisableIrq, StopSignal, StopState
  <2>1. Control'
    BY DEF Control
  <2>2. Flags'
    BY Zenon DEF Flags, SendStop
  <2> QED
    BY <2>1, <2>2 DEF Indexes, Polynomials
<1>4. CASE fgDisableChannel
  <2> USE <1>4 DEF fgDisableChannel, addacFgDisable, flushCircularBuffer, Disarm, Unwatch
  <2>1. Control'
    BY DEF Control
  <2>2. Flags'
    BY Zenon DEF Flags, SendStop
  <2>3. Indexes'
    BY DEF Indexes
  <2> QED
    BY <2>1, <2>2, <2>3 DEF Polynomials
<1>5. CASE fgResetAndInit
  <2> USE <1>5 DEF fgResetAndInit, ResetWrite, ResetRead, ResetState, HwReset
  <2>1. Control'
    BY DEF Control
  <2>2. Flags'
    BY Zenon DEF Flags
  <2>3. Indexes'
    BY ZeroIsInRange DEF Indexes
  <2> QED
    BY <2>1, <2>2, <2>3 DEF Polynomials
<1>6. CASE fgEnableChannel
  <2> USE <1>6 DEF fgEnableChannel, Watch, addacFgPrepare, FirstTuple, NoTuple, addacFgStart,
                   sendSignalArmed
  <2>1. Control'
    BY DEF Control, wdtReset
  <2>2. Flags'
    BY Zenon DEF Flags
  <2>3. Indexes' /\ sent' \in Numbers /\ buffer' = buffer
    <3>1. CASE FirstTuple
      BY <3>1, ReadInRange
    <3>2. CASE ~FirstTuple
      BY <3>2 DEF Indexes, Polynomials
    <3> QED
      BY <3>1, <3>2
  <2>4. UNCHANGED <<fill, todo, runs, written, saft>>
    OBVIOUS
  <2>5. Polynomials'
    BY <2>3, <2>4 DEF Polynomials
  <2> QED
    BY <2>1, <2>2, <2>3, <2>5
<1> QED
  BY <1>1, <1>2, <1>3, <1>4, <1>5, <1>6 DEF MainTask

LEMMA HardwareTypeInv == TypeInv /\ (Hardware \/ TimePasses) => TypeInv'
<1> SUFFICES ASSUME TypeInv, Hardware \/ TimePasses PROVE TypeInv'
  OBVIOUS
<1> USE DEF TypeInv, Hardware, HwStart, HwRequest, HwStop, HwFails, TimePasses, cb, main, lib
<1>1. Control'
  BY DEF Control, Interrupt, gen
<1>2. Flags'
  BY Zenon DEF Flags, gen
<1>3. Indexes' /\ Polynomials'
  BY DEF Indexes, Polynomials
<1> QED
  BY <1>1, <1>2, <1>3

\* A new run adds MaxTuples to the numbers that may be used.
LEMMA AcquireTypeInv == TypeInv /\ Acquire => TypeInv'
<1> SUFFICES ASSUME TypeInv, Acquire PROVE TypeInv'
  OBVIOUS
<1> USE DEF TypeInv, Acquire, cb, main, gen, Idle
<1>1. Control' /\ Indexes'
  BY DEF Control, Indexes
<1>2. Flags'
  BY Zenon DEF Flags
<1>3. runs \in Nat /\ runs < MaxRuns /\ todo' <= MaxTuples /\ written + todo <= runs * MaxTuples
  BY FgChannelAssumption DEF Polynomials
<1>4. (runs + 1) * MaxTuples = runs * MaxTuples + MaxTuples /\ runs * MaxTuples \in Nat
  BY <1>3, FgChannelAssumption
<1>5. written \in Nat /\ todo \in Nat /\ todo' \in Nat
  BY FgChannelAssumption DEF Polynomials, Numbers
<1>6. written' + todo' <= runs' * MaxTuples
  <2>1. \A w, t, u, b, m \in Nat : w + t <= b /\ u <= m => w + u <= b + m
    OBVIOUS
  <2>2. MaxTuples \in Nat /\ runs' * MaxTuples = runs * MaxTuples + MaxTuples /\ written' = written
    BY <1>4, FgChannelAssumption
  <2> QED
    BY <1>3, <1>4, <1>5, <2>1, <2>2
<1>7. runs' \in 0 .. MaxRuns /\ todo' \in 0 .. MaxTuples
  BY <1>3, FgChannelAssumption
<1>8. fill.count = 0 /\ fill' = fill
  BY DEF Polynomials
<1>9. sent' \in Numbers /\ written' \in Numbers /\ buffer' = buffer
  BY DEF Polynomials
<1>10. Polynomials'
  BY <1>5, <1>6, <1>7, <1>8, <1>9 DEF Polynomials
<1> QED
  BY <1>1, <1>2, <1>10

LEMMA BeginFillTypeInv == TypeInv /\ BeginFill => TypeInv'
<1> SUFFICES ASSUME TypeInv, BeginFill PROVE TypeInv'
  OBVIOUS
<1> USE DEF TypeInv, BeginFill, cb, main, gen, Idle
<1>1. Control' /\ Indexes'
  BY DEF Control, Indexes
<1>2. Flags'
  BY Zenon DEF Flags
<1>3. Free \in Place
  BY CountIsPlace, FgChannelAssumption DEF Free, Place
<1>4. Least(Free, todo) \in Place /\ Least(Free, todo) <= todo
  BY <1>3, FgChannelAssumption DEF Polynomials, Place, Least
<1>5. fill' \in [from : Place, count : Place] /\ fill'.count <= todo
  BY <1>4 DEF Indexes
<1>6. saft # "free"
  OBVIOUS
<1>7. Polynomials'
  BY <1>5, <1>6 DEF Polynomials
<1> QED
  BY <1>1, <1>2, <1>7

\* What is written is numbered within the budget of the run.
LEMMA EndFillTypeInv == TypeInv /\ EndFill => TypeInv'
<1> SUFFICES ASSUME TypeInv, EndFill PROVE TypeInv'
  OBVIOUS
<1> USE DEF TypeInv, EndFill, main, gen, Idle
<1>1. Control'
  BY DEF Control
<1>2. Flags'
  BY Zenon DEF Flags
<1>3. /\ fill.count \in Nat /\ fill.from \in Nat /\ written \in Nat /\ todo \in Nat
      /\ fill.count <= todo /\ todo <= MaxTuples /\ runs \in 0 .. MaxRuns
      /\ written + todo <= runs * MaxTuples /\ fill.from < BUFFER_SIZE
  BY FgChannelAssumption DEF Polynomials, Place, Numbers
<1>4. runs * MaxTuples <= MaxRuns * MaxTuples /\ runs * MaxTuples \in Nat
      /\ MaxRuns * MaxTuples \in Nat
  BY <1>3, FgChannelAssumption
<1>5. \A i \in 0 .. fill.count : written + i \in Numbers
  <2> DEFINE All == MaxRuns * MaxTuples
             Used == runs * MaxTuples
  <2>1. Used \in Nat /\ All \in Nat /\ Used <= All /\ written + todo <= Used
    BY <1>3, <1>4
  <2>2. Numbers = 0 .. All
    BY DEF Numbers
  <2> HIDE DEF All, Used
  <2> QED
    BY <1>3, <2>1, <2>2
<1>6. ASSUME NEW p \in Place
      PROVE  (LET k == (p + BUFFER_SIZE - fill.from) % BUFFER_SIZE
              IN  IF k < fill.count THEN written + k + 1 ELSE buffer[p]) \in Numbers
  <2> DEFINE k == (p + BUFFER_SIZE - fill.from) % BUFFER_SIZE
  <2> HIDE DEF EndFill
  <2>1. fill.from \in Nat /\ fill.from < BUFFER_SIZE /\ BUFFER_SIZE \in Nat /\ p \in Nat
    BY <1>3, FgChannelAssumption DEF Place
  <2> HIDE DEF k
  <2>2. p + BUFFER_SIZE - fill.from \in Nat
    BY <2>1
  <2>3. k \in Place
    BY <2>2, ModIsPlace DEF k
  <2>4. k \in Nat
    BY <2>1, <2>3 DEF Place
  <2>5. k < fill.count => written + k + 1 \in Numbers
    <3>1. k < fill.count => k + 1 \in 0 .. fill.count /\ written + k + 1 = written + (k + 1)
      BY <1>3, <2>4
    <3> QED
      BY <1>5, <3>1
  <2>6. buffer[p] \in Numbers
    BY DEF Polynomials
  <2>7. (IF k < fill.count THEN written + k + 1 ELSE buffer[p]) \in Numbers
    BY <2>5, <2>6
  <2> QED
    BY <2>7 DEF k
<1>7. buffer' \in [Place -> Numbers]
  BY <1>6
<1>8. Indexes'
  BY <1>3, ModIsPlace DEF Indexes
<1>9. todo' \in 0 .. MaxTuples
  BY <1>3, FgChannelAssumption
<1>10. written' \in Numbers
  BY <1>3, <1>5
<1>11. written' + todo' <= runs' * MaxTuples
  <2>1. written' + todo' = written + todo /\ runs' = runs
    BY <1>3
  <2> QED
    BY <1>3, <2>1
<1>12. fill' \in [from : Place, count : Place] /\ fill'.count = 0
  BY ZeroIsInRange DEF NoFill
<1>13. sent' \in Numbers /\ runs' \in 0 .. MaxRuns
  BY <1>3 DEF Polynomials
<1>14. Polynomials'
  BY <1>7, <1>9, <1>10, <1>11, <1>12, <1>13 DEF Polynomials
<1> QED
  BY <1>1, <1>2, <1>8, <1>14

LEMMA SaftlibTypeInv == TypeInv /\ Saftlib => TypeInv'
<1> SUFFICES ASSUME TypeInv, EnableEmpty \/ Disable \/ Release PROVE TypeInv'
  BY AcquireTypeInv, BeginFillTypeInv, EndFillTypeInv DEF Saftlib
<1> USE DEF TypeInv, EnableEmpty, Disable, Release, cb, main, gen, Idle
<1>1. Control' /\ Indexes'
  BY DEF Control, Indexes
<1>2. Flags'
  BY Zenon DEF Flags
<1>3. CASE EnableEmpty \/ Disable
  BY <1>1, <1>2, <1>3 DEF Polynomials
<1>4. CASE Release
  <2>1. todo' = 0 /\ fill' = fill /\ fill.count = 0
    BY <1>4
  <2>2. written' + todo' <= runs' * MaxTuples
    <3> DEFINE Used == runs * MaxTuples
    <3>1. Used \in Nat /\ written + todo <= Used /\ written \in Nat /\ todo \in Nat
      BY FgChannelAssumption DEF Polynomials, Numbers
    <3>2. written' = written /\ runs' * MaxTuples = Used
      BY <1>4
    <3> HIDE DEF Used
    <3> QED
      BY <2>1, <3>1, <3>2
  <2>3. UNCHANGED <<buffer, sent, runs, written>>
    BY <1>4
  <2>4. Polynomials'
    BY <2>1, <2>2, <2>3, ZeroIsInRange DEF Polynomials
  <2> QED
    BY <1>1, <1>2, <2>4
<1> QED
  BY <1>3, <1>4

LEMMA NextTypeInv == TypeInv /\ [Next]_vars => TypeInv'
<1>1. CASE UNCHANGED vars
  BY <1>1 DEF vars, cb, main, gen, lib, TypeInv, Control, Flags, Indexes, Polynomials
<1> QED
  BY <1>1, FgTaskTypeInv, MainTaskTypeInv, HardwareTypeInv, SaftlibTypeInv DEF Next

\* Indexes stay in the buffer, and every variable in its range.
THEOREM TypeCorrect == Spec => []TypeOK
BY InitTypeInv, NextTypeInv, TypeInvImplies, PTL DEF Spec
-----------------------------------------------------------------------------
(* SAFTLIB is asked in time.  The invariant follows a run from its reset: the  *)
(* buffer is empty when SAFTLIB fills it, full when the channel is enabled,    *)
(* and from then on the level tells whether SAFTLIB has been asked: it has     *)
(* been exactly when the level is below the threshold.                         *)

Job(j, places) == job = j <=> at \in places

EnableSteps == {"watch", "prepare", "read", "start", "rewatch", "armed"}

\* wdtPoll() has decided to stop the channel.
StopWork == job = "watchdog" /\ at \notin {"wdtDisable", "fgIsStarted"}

\* SAFTLIB runs the channel and has not been told that it has stopped.
Working == saft = "run" /\ ~released

\* The generator of this run is not started yet.
Before == command = "enable" /\ (job = "enable" => at \in {"watch", "prepare", "read", "start"})

Commands ==
  /\ command = "reset" => saft = "acquired" /\ fill.count = 0
  /\ command \in {"enable", "disable"} => saft = "run"
  /\ job \in {"reset", "enable", "disable"} => command = job
  /\ Job("none", {"loop"}) /\ Job("enable", EnableSteps)
  /\ job = "reset" => at \in {"wr_ptr", "rd_ptr", "state", "hwReset"}
  /\ job = "disable" => at \in {"hwDisable", "flush", "disarm", "unwatch"}

\* An armed generator, and one whose start is not handled yet, belongs to a run.
Starting ==
  hw = "armed" \/ (irq # "none" /\ On /\ ~dreq) =>
    Working /\ ~fgIsStarted /\ ~StopWork /\ (hw = "armed" => irq = "none" /\ fg = "idle")

\* Nobody is told of a stop whose interrupt is still to come.
Quiet ==
  /\ ~Working => irq = "none" /\ (irqEnabled => hw \notin {"armed", "running"})
  /\ at = "stopSignal" => irq = "none" /\ ~irqEnabled
  /\ at \in {"flush", "disarm"} => irq # "new"

\* A channel that is about to be enabled is at rest.
AtRest ==
  /\ saft = "acquired" => ~released
  /\ Before => /\ Working /\ hw = "off" /\ irq = "none" /\ fg = "idle"
               /\ ~fgIsStarted /\ ~StopWork

Resetting ==
  /\ job = "reset" /\ at = "rd_ptr" => wr_ptr = 0
  /\ job = "reset" /\ at \in {"state", "hwReset"} => wr_ptr = 0 /\ rd_ptr = 0
  /\ job = "reset" /\ at = "hwReset" => ~fgIsStarted

\* The channel is reset and SAFTLIB may fill the buffer.
Clean ==
  saft = "acquired" /\ command = "none" =>
    /\ hw = "off" /\ fg = "idle" /\ ~fgIsStarted /\ job # "reset" /\ ~StopWork
    /\ wr_ptr = rd_ptr
    /\ fill.count > 0 =>
         ~refill /\ fill.from = wr_ptr /\ fill.count = Least(BUFFER_SIZE - 1, todo)

\* While a run goes on nothing but the FG task and SAFTLIB moves the indexes.
Undisturbed ==
  Working => /\ StopWork => at \in {"irqDisable", "stopSignal"}
             /\ ~(job = "disable" /\ at = "unwatch")

\* Before the start: the buffer is full, or is without its first polynomial.
FullAtStart ==
  Working /\ todo > 0 /\ Before =>
    /\ fill.count = 0 /\ ~refill
    /\ cbgetCount >= BUFFER_SIZE - (IF at = "start" THEN 2 ELSE 1)

\* From then on: SAFTLIB has been asked when the polynomial after the threshold is read.
Asked ==
  Working /\ todo > 0 /\ hw # "off" =>
    IF refill \/ fill.count > 0
      THEN /\ cbgetCount <= FG_REFILL_THRESHOLD - (IF fg = "idle" THEN 1 ELSE 0)
           /\ fill.count > 0 =>
                /\ ~refill /\ fill.from = wr_ptr
                /\ \/ fill.count = todo
                   \/ fill.count >= BUFFER_SIZE - 1 - FG_REFILL_THRESHOLD
                /\ cbgetCount + fill.count <= BUFFER_SIZE - 1
      ELSE cbgetCount >= FG_REFILL_THRESHOLD + (IF fg = "feed" THEN 1 ELSE 0)

RefillInv ==
  /\ Commands /\ Starting /\ Quiet /\ AtRest /\ Resetting
  /\ Clean /\ Undisturbed /\ FullAtStart /\ Asked

LEMMA CountAfterRead ==
  ASSUME Indexes, ~cbisEmpty, cbRead
  PROVE  cbgetCount \in 1 .. BUFFER_SIZE - 1 /\ cbgetCount' = cbgetCount - 1
<1> DEFINE next == IF rd_ptr + 1 = BUFFER_SIZE THEN 0 ELSE rd_ptr + 1
<1>1. /\ BUFFER_SIZE \in Nat \ {0} /\ wr_ptr \in 0 .. BUFFER_SIZE - 1
      /\ rd_ptr \in 0 .. BUFFER_SIZE - 1 /\ wr_ptr # rd_ptr
  BY FgChannelAssumption DEF Indexes, Place, cbisEmpty
<1>2. (rd_ptr + 1) % BUFFER_SIZE = next
  BY <1>1
<1>3. rd_ptr' = next /\ wr_ptr' = wr_ptr
  BY <1>2 DEF cbRead
<1> QED
  BY <1>1, <1>3 DEF cbgetCount

LEMMA CountAfterFill ==
  ASSUME Indexes, NEW c \in Place, cbgetCount + c <= BUFFER_SIZE - 1,
         wr_ptr' = (wr_ptr + c) % BUFFER_SIZE, rd_ptr' = rd_ptr
  PROVE  cbgetCount' = cbgetCount + c
<1> DEFINE next == IF wr_ptr + c < BUFFER_SIZE THEN wr_ptr + c ELSE wr_ptr + c - BUFFER_SIZE
<1>1. /\ BUFFER_SIZE \in Nat \ {0} /\ wr_ptr \in 0 .. BUFFER_SIZE - 1
      /\ rd_ptr \in 0 .. BUFFER_SIZE - 1 /\ c \in 0 .. BUFFER_SIZE - 1
  BY FgChannelAssumption DEF Indexes, Place
<1>2. (wr_ptr + c) % BUFFER_SIZE = next
  <2>1. CASE wr_ptr + c < BUFFER_SIZE
    BY <1>1, <2>1
  <2>2. CASE wr_ptr + c >= BUFFER_SIZE
    BY <1>1, <2>2
  <2> QED
    BY <1>1, <2>1, <2>2
<1>3. wr_ptr' = next /\ rd_ptr' = rd_ptr
  BY <1>2
<1> QED
  BY <1>1, <1>3 DEF cbgetCount

LEMMA InitRefillInv == Init => RefillInv
  BY DEF Init, RefillInv, Commands, Job, EnableSteps, Starting, Quiet, AtRest, Resetting, Clean,
         Undisturbed, FullAtStart, Asked, Working, Before, StopWork, On, NoFill

\* The numbers that the level is compared with.
LEMMA Levels ==
  ASSUME TypeInv
  PROVE  /\ BUFFER_SIZE \in Nat /\ FG_REFILL_THRESHOLD \in Nat \ {0}
         /\ 2 * FG_REFILL_THRESHOLD + 1 < BUFFER_SIZE
         /\ cbgetCount \in 0 .. BUFFER_SIZE - 1
         /\ fill.count \in Nat /\ todo \in Nat /\ fill.count <= todo
         /\ saft = "free" => fill.count = 0
  BY CountIsPlace, FgChannelAssumption DEF TypeInv, Polynomials, Place

LEMMA MainTaskRefillInv == TypeInv /\ IInv /\ RefillInv /\ MainTask => RefillInv'
<1> SUFFICES ASSUME TypeInv, IInv, RefillInv, MainTask PROVE RefillInv'
  OBVIOUS
<1> USE DEF RefillInv, Commands, Job, EnableSteps, Starting, Quiet, AtRest, Resetting, Clean,
            Undisturbed, FullAtStart, Asked, Working, Before, StopWork, On, fgIsStarted, cb, gen,
            lib, main, Goto, Late, Step, Return, TypeInv, Control, IInv, JobOfStep, Stopping
<1>1. CASE Command \/ wdtPoll
  <2> USE <1>1 DEF Command, wdtPoll, TimedOut, wdtDisable, WdtIgnore, WdtStop, cbgetCount
  <2>1. Commands' /\ Starting' /\ Quiet' /\ AtRest' /\ Resetting'
    OBVIOUS
  <2>2. Clean' /\ Undisturbed' /\ FullAtStart' /\ Asked'
    OBVIOUS
  <2> QED
    BY <2>1, <2>2
<1>2. CASE addacFgDisableIrq \/ StopState
  <2> USE <1>2 DEF addacFgDisableIrq, StopState, cbgetCount
  <2>1. Commands' /\ Starting' /\ Quiet' /\ AtRest' /\ Resetting'
    OBVIOUS
  <2>2. Clean' /\ Undisturbed' /\ FullAtStart' /\ Asked'
    OBVIOUS
  <2> QED
    BY <2>1, <2>2
<1>3. CASE StopSignal
  <2> USE <1>3 DEF StopSignal, SendStop, cbgetCount
  <2>1. Commands' /\ Starting' /\ Quiet' /\ AtRest' /\ Resetting'
    OBVIOUS
  <2>2. Clean' /\ Undisturbed' /\ FullAtStart' /\ Asked'
    OBVIOUS
  <2> QED
    BY <2>1, <2>2
<1>4. CASE addacFgDisable \/ flushCircularBuffer \/ Unwatch
  <2> USE <1>4 DEF addacFgDisable, flushCircularBuffer, Unwatch, cbgetCount
  <2>1. Commands' /\ Starting' /\ Quiet' /\ AtRest' /\ Resetting'
    OBVIOUS
  <2>2. Clean' /\ Undisturbed' /\ FullAtStart' /\ Asked'
    OBVIOUS
  <2> QED
    BY <2>1, <2>2
<1>5. CASE Disarm
  <2> USE <1>5 DEF Disarm, SendStop, cbgetCount
  <2>1. Commands' /\ Starting' /\ Quiet' /\ AtRest' /\ Resetting'
    OBVIOUS
  <2>2. Clean' /\ Undisturbed' /\ FullAtStart' /\ Asked'
    OBVIOUS
  <2> QED
    BY <2>1, <2>2
<1>6. CASE fgResetAndInit
  <2> USE <1>6 DEF fgResetAndInit, ResetWrite, ResetRead, ResetState, HwReset, cbgetCount
  <2>1. Commands' /\ Starting' /\ Quiet' /\ AtRest' /\ Resetting'
    OBVIOUS
  <2>2. Clean' /\ Undisturbed' /\ FullAtStart' /\ Asked'
    OBVIOUS
  <2> QED
    BY <2>1, <2>2
<1>7. CASE Watch("watch", "prepare") \/ addacFgPrepare \/ NoTuple \/ Watch("rewatch", "armed")
           \/ sendSignalArmed
  <2> USE <1>7 DEF Watch, wdtReset, addacFgPrepare, NoTuple, sendSignalArmed, cbgetCount
  <2>1. Commands' /\ Starting' /\ Quiet' /\ AtRest' /\ Resetting'
    OBVIOUS
  <2>2. Clean' /\ Undisturbed' /\ FullAtStart' /\ Asked'
    BY Levels DEF cbisEmpty
  <2> QED
    BY <2>1, <2>2
<1>8. CASE FirstTuple
  <2>1. cbgetCount' = cbgetCount - 1
    BY <1>8, CountAfterRead DEF FirstTuple
  <2>2. Commands' /\ Starting' /\ Quiet' /\ AtRest' /\ Resetting'
    BY <1>8 DEF FirstTuple, cbRead
  <2>3. Clean' /\ Undisturbed' /\ FullAtStart' /\ Asked'
    BY <1>8, <2>1, Levels DEF FirstTuple, cbRead
  <2> QED
    BY <2>2, <2>3
<1>9. CASE addacFgStart
  <2>1. cbgetCount' = cbgetCount
    BY <1>9 DEF addacFgStart, cbgetCount
  <2>2. Commands' /\ Starting' /\ Quiet' /\ AtRest' /\ Resetting'
    BY <1>9 DEF addacFgStart
  <2>3. Clean' /\ Undisturbed' /\ FullAtStart' /\ Asked'
    BY <1>9, <2>1, Levels DEF addacFgStart
  <2> QED
    BY <2>2, <2>3
<1> QED
  BY <1>1, <1>2, <1>3, <1>4, <1>5, <1>6, <1>7, <1>8, <1>9
     DEF MainTask, makeStop, fgDisableChannel, fgEnableChannel

\* The FG task lowers the level by one, and asks when it comes by the threshold.
LEMMA FgTaskRefillInv == TypeInv /\ IInv /\ RefillInv /\ FgTask => RefillInv'
<1> SUFFICES ASSUME TypeInv, IInv, RefillInv, FgTask PROVE RefillInv'
  OBVIOUS
<1> USE DEF RefillInv, Commands, Job, EnableSteps, Starting, Quiet, AtRest, Resetting, Clean,
            Undisturbed, FullAtStart, Asked, Working, Before, StopWork, On, fgIsStarted, cb, gen,
            lib, main, TypeInv, Control, IInv, AskedIsEmpty
<1>1. CASE HandleStop
  BY <1>1 DEF HandleStop, SendStop, cbgetCount
<1>2. CASE HandleRunning
  <2>1. refill' <=> refill \/ cbgetCount = FG_REFILL_THRESHOLD
    BY <1>2, Zenon DEF HandleRunning, sendRefillSignalIfThreshold
  <2>2. cbgetCount' = cbgetCount
    BY <1>2 DEF HandleRunning, cbgetCount
  <2>3. Commands' /\ Starting' /\ Quiet' /\ AtRest' /\ Resetting'
    BY <1>2 DEF HandleRunning
  <2>4. Clean' /\ Undisturbed' /\ FullAtStart'
    BY <1>2 DEF HandleRunning
  <2>5. Asked'
    BY <1>2, <2>1, <2>2, Levels DEF HandleRunning
  <2> QED
    BY <2>3, <2>4, <2>5
<1>3. CASE feedAdacFg
  <2>1. cbgetCount' = cbgetCount - 1
    BY <1>3, CountAfterRead DEF feedAdacFg
  <2>2. Commands' /\ Starting' /\ Quiet' /\ AtRest' /\ Resetting'
    BY <1>3 DEF feedAdacFg, cbRead, cbisEmpty
  <2>3. Clean' /\ Undisturbed' /\ FullAtStart'
    BY <1>3 DEF feedAdacFg, cbRead
  <2>4. Asked'
    BY <1>3, <2>1, Levels DEF feedAdacFg, cbRead
  <2> QED
    BY <2>2, <2>3, <2>4
<1>4. CASE Starve
  <2>1. cbgetCount = 0 /\ cbgetCount' = cbgetCount
    BY <1>4 DEF Starve, cbgetCount, cbisEmpty, Indexes, Place
  <2>2. Commands' /\ Starting' /\ Quiet' /\ AtRest' /\ Resetting'
    BY <1>4 DEF Starve
  <2>3. Clean' /\ Undisturbed' /\ FullAtStart' /\ Asked'
    BY <1>4, <2>1, Levels DEF Starve
  <2> QED
    BY <2>2, <2>3
<1> QED
  BY <1>1, <1>2, <1>3, <1>4 DEF FgTask

LEMMA HardwareRefillInv == TypeInv /\ IInv /\ RefillInv /\ (Hardware \/ TimePasses) => RefillInv'
<1> SUFFICES ASSUME TypeInv, IInv, RefillInv, Hardware \/ TimePasses PROVE RefillInv'
  OBVIOUS
<1> USE DEF RefillInv, Commands, Job, EnableSteps, Starting, Quiet, AtRest, Resetting, Clean,
            Undisturbed, FullAtStart, Asked, Working, Before, StopWork, On, fgIsStarted, cb, gen,
            lib, main, TypeInv, Control, IInv, JobOfStep, Hardware, HwStart, HwRequest, HwStop,
            HwFails, TimePasses, Handled, Interrupt, cbgetCount
<1>1. Commands' /\ Starting' /\ Quiet' /\ AtRest' /\ Resetting'
  OBVIOUS
<1>2. Clean' /\ Undisturbed' /\ FullAtStart' /\ Asked'
  OBVIOUS
<1> QED
  BY <1>1, <1>2

\* SAFTLIB raises the level: what it writes when it was asked lifts it above the threshold.
LEMMA SaftlibRefillInv == TypeInv /\ IInv /\ RefillInv /\ Saftlib => RefillInv'
<1> SUFFICES ASSUME TypeInv, IInv, RefillInv, Saftlib PROVE RefillInv'
  OBVIOUS
<1> USE DEF RefillInv, Commands, Job, EnableSteps, Starting, Quiet, AtRest, Resetting, Clean,
            Undisturbed, FullAtStart, Asked, Working, Before, StopWork, On, fgIsStarted, cb, gen,
            main, Idle, TypeInv, Control
<1>1. CASE Acquire
  <2>1. fill' = fill /\ fill.count = 0
    BY <1>1, Levels DEF Acquire
  <2> QED
    BY <1>1, <2>1 DEF Acquire, cbgetCount
<1>2. CASE BeginFill
  <2> USE <1>2 DEF BeginFill
  <2>1. Commands' /\ Starting' /\ Quiet' /\ AtRest' /\ Resetting'
    OBVIOUS
  <2>2. /\ fill.count = 0 /\ todo > 0 /\ todo' = todo /\ refill' = FALSE
        /\ fill'.from = wr_ptr /\ fill'.count = Least(Free, todo)
        /\ cbgetCount' = cbgetCount /\ Free = BUFFER_SIZE - 1 - cbgetCount
    BY DEF cbgetCount, Free
  <2>3. wr_ptr = rd_ptr => cbgetCount = 0
    BY DEF cbgetCount, Indexes, Place
  <2>4. Clean' /\ Undisturbed' /\ FullAtStart'
    BY <2>2, <2>3, Levels DEF Least
  <2>5. Asked'
    BY <2>2, Levels DEF Least
  <2> QED
    BY <2>1, <2>4, <2>5
<1>3. CASE EndFill
  <2> USE <1>3 DEF EndFill
  <2>1. Commands' /\ Starting' /\ Quiet' /\ AtRest' /\ Resetting'
    BY DEF NoFill
  <2>2. Clean' /\ Undisturbed'
    OBVIOUS
  <2>3. /\ fill.count \in Place /\ todo' = todo - fill.count
        /\ fill'.count = 0 /\ fill.count > 0
        /\ wr_ptr' = (fill.from + fill.count) % BUFFER_SIZE /\ rd_ptr' = rd_ptr
    BY DEF NoFill, Polynomials
  <2>4. fill.from = wr_ptr /\ cbgetCount + fill.count <= BUFFER_SIZE - 1
          => cbgetCount' = cbgetCount + fill.count
    BY <2>3, CountAfterFill
  <2>5. FullAtStart'
    <3> SUFFICES ASSUME saft = "acquired", todo' > 0
                 PROVE  FullAtStart'
      BY <2>3, Levels
    <3>1. /\ command = "none" /\ ~refill /\ fill.from = wr_ptr
          /\ fill.count = Least(BUFFER_SIZE - 1, todo) /\ wr_ptr = rd_ptr /\ at # "start"
      BY <2>3
    <3>2. cbgetCount = 0
      BY <3>1 DEF cbgetCount, Indexes, Place
    <3>3. fill.count = BUFFER_SIZE - 1
      BY <2>3, <3>1, Levels DEF Least
    <3>4. cbgetCount' = BUFFER_SIZE - 1
      BY <2>4, <3>1, <3>2, <3>3, Levels
    <3> QED
      BY <2>3, <3>1, <3>4, Levels
  <2>6. Asked'
    <3> SUFFICES ASSUME saft = "run", Working, todo' > 0, hw # "off"
                 PROVE  Asked'
      BY <2>1, <2>3
    <3>1. /\ ~refill /\ fill.from = wr_ptr /\ fill.count >= BUFFER_SIZE - 1 - FG_REFILL_THRESHOLD
          /\ cbgetCount + fill.count <= BUFFER_SIZE - 1
      BY <2>3, Levels
    <3>2. cbgetCount' >= BUFFER_SIZE - 1 - FG_REFILL_THRESHOLD
      BY <2>3, <2>4, <3>1, Levels
    <3>3. ~refill' /\ fg' = fg
      BY <3>1
    <3>4. cbgetCount' >= FG_REFILL_THRESHOLD + 1
      BY <2>4, <3>1, <3>2, <2>3, Levels
    <3>5. ~(refill' \/ fill'.count > 0)
      BY <2>3, <3>3
    <3>6. cbgetCount' >= FG_REFILL_THRESHOLD + (IF fg' = "feed" THEN 1 ELSE 0)
      <4>1. cbgetCount' \in Nat
        BY <2>3, <2>4, <3>1, Levels
      <4> HIDE DEF EndFill
      <4> QED
        BY <3>4, <4>1, Levels
    <3> QED
      BY <3>5, <3>6, Zenon
  <2> QED
    BY <2>1, <2>2, <2>5, <2>6
<1>4. CASE EnableEmpty \/ Disable \/ Release
  <2> USE <1>4 DEF EnableEmpty, Disable, Release, cbgetCount
  <2>1. Commands' /\ Starting' /\ Quiet' /\ AtRest' /\ Resetting'
    BY Levels
  <2>2. Clean' /\ Undisturbed' /\ FullAtStart' /\ Asked'
    OBVIOUS
  <2> QED
    BY <2>1, <2>2
<1> QED
  BY <1>1, <1>2, <1>3, <1>4 DEF Saftlib

LEMMA NextRefillInv == TypeInv /\ IInv /\ RefillInv /\ [Next]_vars => RefillInv'
<1>1. CASE UNCHANGED vars
  BY <1>1 DEF vars, cb, main, gen, lib, RefillInv, Commands, Job, EnableSteps, Starting, Quiet,
     AtRest, Resetting, Clean, Undisturbed, FullAtStart, Asked, Working, Before, StopWork, On,
     fgIsStarted, cbgetCount
<1> QED
  BY <1>1, FgTaskRefillInv, MainTaskRefillInv, HardwareRefillInv, SaftlibRefillInv DEF Next

\* sendRefillSignalIfThreshold(): the signal is sent at one level only, and a running
\* generator never gets below that level without it, for every size of the buffer and
\* every threshold with 2 * threshold + 1 < size.
THEOREM AskedInTime == Spec => []RefillInTime
<1>1. TypeInv /\ RefillInv => RefillInTime
  <2> SUFFICES ASSUME TypeInv, RefillInv PROVE RefillInTime
    OBVIOUS
  <2> QED
    BY Levels DEF RefillInv, Asked, RefillInTime, Working
<1> QED
  BY <1>1, InitIInv, NextIInv, InitTypeInv, NextTypeInv, InitRefillInv, NextRefillInv, PTL DEF Spec
-----------------------------------------------------------------------------
(* The polynomials arrive in order.  While a run goes on the buffer holds,     *)
(* from the read index on, the numbers from the one after the last that was    *)
(* read to the last that was written.                                          *)

\* The place of the polynomial that is i places behind the oldest.
PlaceOf(i) == IF rd_ptr + i < BUFFER_SIZE THEN rd_ptr + i ELSE rd_ptr + i - BUFFER_SIZE

Content ==
  /\ written = sent + cbgetCount
  /\ \A i \in 0 .. cbgetCount - 1 : buffer[PlaceOf(i)] = sent + 1 + i

\* The generator is going to be started, or is started.
Reading == Working /\ (Before \/ hw # "off")

OrderInv ==
  /\ fg = "feed" => Working /\ hw # "off"
  /\ saft = "acquired" => sent = written
  /\ Reading => Content

LEMMA Numbered ==
  ASSUME TypeInv
  PROVE  /\ BUFFER_SIZE \in Nat \ {0}
         /\ wr_ptr \in 0 .. BUFFER_SIZE - 1 /\ rd_ptr \in 0 .. BUFFER_SIZE - 1
         /\ fill.from \in 0 .. BUFFER_SIZE - 1 /\ fill.count \in 0 .. BUFFER_SIZE - 1
         /\ cbgetCount \in 0 .. BUFFER_SIZE - 1
         /\ sent \in Nat /\ written \in Nat
  BY CountIsPlace, FgChannelAssumption DEF TypeInv, Indexes, Polynomials, Place, Numbers

LEMMA ModOnce ==
  ASSUME NEW n \in 0 .. 2 * BUFFER_SIZE - 1
  PROVE  n % BUFFER_SIZE = IF n < BUFFER_SIZE THEN n ELSE n - BUFFER_SIZE
<1>1. BUFFER_SIZE \in Nat \ {0}
  BY FgChannelAssumption
<1>2. CASE n < BUFFER_SIZE
  BY <1>1, <1>2
<1>3. CASE n >= BUFFER_SIZE
  BY <1>1, <1>3
<1> QED
  BY <1>1, <1>2, <1>3

\* Reading takes the oldest, and each of the others is one place nearer.
LEMMA ReadContent ==
  ASSUME TypeInv, Content, ~cbisEmpty, cbRead, written' = written
  PROVE  Content' /\ sent' = sent + 1 /\ sent' <= written
<1>1. cbgetCount \in 1 .. BUFFER_SIZE - 1 /\ cbgetCount' = cbgetCount - 1
  BY CountAfterRead DEF TypeInv
<1>2. rd_ptr' = PlaceOf(1) /\ buffer' = buffer
  BY Numbered, ModOnce, <1>1 DEF cbRead, PlaceOf
<1>3. sent' = sent + 1 /\ sent' <= written
  <2>1. PlaceOf(0) = rd_ptr
    BY Numbered DEF PlaceOf
  <2> QED
    BY <1>1, <2>1, Numbered DEF Content, cbRead
<1>4. ASSUME NEW i \in 0 .. cbgetCount' - 1
      PROVE  buffer'[PlaceOf(i)'] = sent' + 1 + i
  <2>1. i + 1 \in 0 .. cbgetCount - 1
    BY <1>1
  <2>2. PlaceOf(i)' = PlaceOf(i + 1)
    BY <1>1, <1>2, Numbered DEF PlaceOf
  <2>3. buffer[PlaceOf(i + 1)] = sent + 1 + (i + 1)
    BY <2>1 DEF Content
  <2>4. sent' + 1 + i = sent + 1 + (i + 1)
    BY <1>3, <1>1, Numbered
  <2> QED
    BY <1>2, <2>2, <2>3, <2>4
<1>5. written' = sent' + cbgetCount'
  BY <1>1, <1>3, Numbered DEF Content
<1> QED
  BY <1>3, <1>4, <1>5 DEF Content

\* What SAFTLIB writes comes behind the newest and overwrites nothing unread.
LEMMA FillContent ==
  ASSUME TypeInv, Content, EndFill, fill.from = wr_ptr,
         cbgetCount + fill.count <= BUFFER_SIZE - 1
  PROVE  Content'
<1> DEFINE Offset(p) == (p + BUFFER_SIZE - fill.from) % BUFFER_SIZE
<1>1. cbgetCount' = cbgetCount + fill.count
  <2>1. fill.count \in Place
    BY Numbered DEF Place
  <2> QED
    BY <2>1, CountAfterFill DEF EndFill, TypeInv
<1>2. rd_ptr' = rd_ptr /\ sent' = sent /\ written' = written + fill.count
  BY DEF EndFill
<1>3. ASSUME NEW p \in Place
      PROVE  buffer'[p] = IF Offset(p) < fill.count THEN written + Offset(p) + 1 ELSE buffer[p]
  BY DEF EndFill
<1>4. ASSUME NEW i \in 0 .. BUFFER_SIZE - 1
      PROVE  /\ PlaceOf(i) \in Place
             /\ Offset(PlaceOf(i)) = IF i < cbgetCount THEN i + BUFFER_SIZE - cbgetCount
                                                       ELSE i - cbgetCount
  <2> DEFINE n == PlaceOf(i) + BUFFER_SIZE - wr_ptr
  <2>1. PlaceOf(i) \in 0 .. BUFFER_SIZE - 1
    BY Numbered DEF PlaceOf
  <2>2. n \in 0 .. 2 * BUFFER_SIZE - 1
    BY <2>1, Numbered
  <2>3. n % BUFFER_SIZE = IF n < BUFFER_SIZE THEN n ELSE n - BUFFER_SIZE
    BY <2>2, ModOnce
  <2>4. (IF n < BUFFER_SIZE THEN n ELSE n - BUFFER_SIZE)
          = IF i < cbgetCount THEN i + BUFFER_SIZE - cbgetCount ELSE i - cbgetCount
    BY Numbered DEF PlaceOf, cbgetCount
  <2> QED
    BY <2>1, <2>3, <2>4 DEF Place
<1> HIDE DEF Offset
<1>5. ASSUME NEW i \in 0 .. cbgetCount' - 1
      PROVE  buffer'[PlaceOf(i)'] = sent' + 1 + i
  <2>1. i \in 0 .. BUFFER_SIZE - 1 /\ i < cbgetCount + fill.count
    BY <1>1, Numbered
  <2>2. PlaceOf(i)' = PlaceOf(i)
    BY <1>2 DEF PlaceOf
  <2>3. CASE i < cbgetCount
    <3>1. ~(Offset(PlaceOf(i)) < fill.count)
      BY <1>4, <2>1, <2>3, Numbered
    <3>2. buffer'[PlaceOf(i)] = buffer[PlaceOf(i)]
      BY <1>3, <1>4, <2>1, <3>1
    <3>3. buffer[PlaceOf(i)] = sent + 1 + i
      BY <2>1, <2>3, Numbered DEF Content
    <3> QED
      BY <1>2, <2>2, <3>2, <3>3
  <2>4. CASE i >= cbgetCount
    <3>1. Offset(PlaceOf(i)) = i - cbgetCount
      BY <1>4, <2>1, <2>4, Numbered
    <3>2. i - cbgetCount < fill.count
      BY <2>1, <2>4, Numbered
    <3>3. buffer'[PlaceOf(i)] = written + (i - cbgetCount) + 1
      BY <1>3, <1>4, <2>1, <3>1, <3>2
    <3>4. written + (i - cbgetCount) + 1 = sent + 1 + i
      BY <2>1, Numbered DEF Content
    <3> QED
      BY <1>2, <2>2, <3>3, <3>4
  <2> QED
    BY <2>1, <2>3, <2>4, Numbered
<1>6. written' = sent' + cbgetCount'
  BY <1>1, <1>2, Numbered DEF Content
<1> QED
  BY <1>5, <1>6 DEF Content

\* A step that touches neither buffer nor numbers keeps the content.
LEMMA SameContent ==
  Content /\ UNCHANGED <<buffer, wr_ptr, rd_ptr, sent, written>> => Content'
BY DEF Content, cbgetCount, PlaceOf

\* A channel that has been reset is empty.
LEMMA EmptyContent ==
  ASSUME TypeInv, wr_ptr = rd_ptr, written = sent
  PROVE  Content
<1>1. cbgetCount = 0
  BY Numbered DEF cbgetCount
<1> QED
  BY <1>1, Numbered DEF Content

LEMMA InitOrderInv == Init => OrderInv
BY DEF Init, OrderInv, Reading, Working

\* handleAdacFg() reads the oldest polynomial of a run that is going on.
LEMMA FgTaskOrderInv ==
  TypeInv /\ IInv /\ RefillInv /\ OrderInv /\ FgTask
    => OrderInv' /\ (sent' # sent => sent' = sent + 1 /\ sent' <= written)
<1> SUFFICES ASSUME TypeInv, IInv, RefillInv, OrderInv, FgTask
             PROVE  OrderInv' /\ (sent' # sent => sent' = sent + 1 /\ sent' <= written)
  OBVIOUS
<1> USE DEF OrderInv, Reading, Working, Before, cb, gen, lib, main
<1>1. CASE HandleStop
  BY <1>1, SameContent DEF HandleStop, SendStop
<1>2. CASE HandleRunning
  <2>1. Working /\ hw # "off"
    BY <1>2 DEF HandleRunning, RefillInv, Quiet
  <2> QED
    BY <1>2, <2>1, SameContent DEF HandleRunning
<1>3. CASE feedAdacFg
  <2>1. Content /\ written' = written
    BY <1>3 DEF feedAdacFg
  <2>2. Content' /\ sent' = sent + 1 /\ sent' <= written
    BY <1>3, <2>1, ReadContent DEF feedAdacFg
  <2> QED
    BY <1>3, <2>2 DEF feedAdacFg, RefillInv, AtRest
<1>4. CASE Starve
  BY <1>4, SameContent DEF Starve
<1> QED
  BY <1>1, <1>2, <1>3, <1>4 DEF FgTask

\* fgEnableChannel() reads the first one; nothing else of the main task reads, and
\* it moves an index only when no generator is going to use the buffer.
LEMMA MainTaskOrderInv ==
  TypeInv /\ IInv /\ RefillInv /\ OrderInv /\ MainTask
    => OrderInv' /\ (sent' # sent => sent' = sent + 1 /\ sent' <= written)
<1> SUFFICES ASSUME TypeInv, IInv, RefillInv, OrderInv, MainTask
             PROVE  OrderInv' /\ (sent' # sent => sent' = sent + 1 /\ sent' <= written)
  OBVIOUS
<1> USE DEF Working, Before, StopWork, cb, gen, lib, Goto, Late, Step, Return
<1>1. CASE ~FirstTuple
  <2>1. /\ fg = "idle" /\ UNCHANGED <<buffer, fg, saft, sent, written>>
        /\ released => released'
    <3> USE <1>1 DEF MainTask, Command, wdtPoll, TimedOut, wdtDisable, WdtIgnore, WdtStop,
                 makeStop, addacFgDisableIrq, StopSignal, StopState, SendStop,
                 fgDisableChannel, addacFgDisable, flushCircularBuffer, Disarm, Unwatch,
                 fgResetAndInit, ResetWrite, ResetRead, ResetState, HwReset,
                 fgEnableChannel, Watch, addacFgPrepare, NoTuple, addacFgStart, sendSignalArmed
    <3>1. fg = "idle" /\ UNCHANGED <<buffer, fg, saft, sent, written>>
      OBVIOUS
    <3>2. released => released'
      BY Zenon
    <3> QED
      BY <3>1, <3>2
  <2>2. Reading' => Reading
    <3>1. CASE Command \/ wdtPoll \/ makeStop
      BY <2>1, <3>1
         DEF Reading, Command, wdtPoll, TimedOut, wdtDisable, WdtIgnore, WdtStop,
             makeStop, addacFgDisableIrq, StopSignal, StopState,
             RefillInv, Commands, Job, EnableSteps
    <3>2. CASE fgDisableChannel \/ fgResetAndInit
      BY <2>1, <3>2
         DEF Reading, fgDisableChannel, addacFgDisable, flushCircularBuffer, Disarm, Unwatch,
             fgResetAndInit, ResetWrite, ResetRead, ResetState, HwReset,
             RefillInv, Commands, Job, EnableSteps
    <3>3. CASE fgEnableChannel
      BY <1>1, <2>1, <3>3
         DEF Reading, fgEnableChannel, Watch, addacFgPrepare, NoTuple, addacFgStart,
             sendSignalArmed, RefillInv, Commands, Job, EnableSteps, AtRest
    <3> QED
      BY <3>1, <3>2, <3>3 DEF MainTask
  <2>3. Reading => UNCHANGED <<wr_ptr, rd_ptr>>
    <3>1. CASE Command \/ wdtPoll \/ makeStop
      BY <3>1 DEF Command, wdtPoll, TimedOut, wdtDisable, WdtIgnore, WdtStop,
                  makeStop, addacFgDisableIrq, StopSignal, StopState
    <3>2. CASE fgDisableChannel
      BY <3>2 DEF Reading, fgDisableChannel, addacFgDisable, flushCircularBuffer, Disarm, Unwatch,
                  fgIsStarted, IInv, JobOfStep, RefillInv, AtRest
    <3>3. CASE fgResetAndInit
      BY <3>3 DEF Reading, fgResetAndInit, ResetWrite, ResetRead, ResetState, HwReset,
                  TypeInv, Control, RefillInv, Commands, Job, EnableSteps, AtRest, Undisturbed
    <3>4. CASE fgEnableChannel
      BY <1>1, <3>4 DEF fgEnableChannel, Watch, addacFgPrepare, NoTuple, addacFgStart,
                        sendSignalArmed
    <3> QED
      BY <3>1, <3>2, <3>3, <3>4 DEF MainTask
  <2>4. Reading' => Content'
    BY <2>1, <2>2, <2>3, SameContent DEF OrderInv
  <2> QED
    BY <2>1, <2>4 DEF OrderInv
<1>2. CASE FirstTuple
  <2>1. Before /\ Working /\ saft = "run" /\ written' = written
    BY <1>2 DEF FirstTuple, RefillInv, Commands, Job, EnableSteps, AtRest
  <2>2. Content' /\ sent' = sent + 1 /\ sent' <= written
    BY <1>2, <2>1, ReadContent DEF FirstTuple, OrderInv, Reading
  <2> QED
    BY <1>2, <2>1, <2>2 DEF FirstTuple, OrderInv
<1> QED
  BY <1>1, <1>2

LEMMA HardwareOrderInv ==
  IInv /\ RefillInv /\ OrderInv /\ (Hardware \/ TimePasses) => OrderInv' /\ sent' = sent
<1> SUFFICES ASSUME IInv, RefillInv, OrderInv, Hardware \/ TimePasses
             PROVE  OrderInv' /\ sent' = sent
  OBVIOUS
<1> USE DEF OrderInv, Reading, Working, Before, cb, main, lib
<1>1. CASE Hardware
  BY <1>1, SameContent DEF Hardware, HwStart, HwRequest, HwStop, HwFails, Handled
<1>2. CASE TimePasses
  BY <1>2, SameContent DEF TimePasses, gen
<1> QED
  BY <1>1, <1>2

\* SAFTLIB fills a buffer that is reset, or one it has been asked to fill.
LEMMA SaftlibOrderInv ==
  TypeInv /\ IInv /\ RefillInv /\ OrderInv /\ Saftlib
    => OrderInv' /\ (saft' = saft => sent' = sent)
<1> SUFFICES ASSUME TypeInv, IInv, RefillInv, OrderInv, Saftlib
             PROVE  OrderInv' /\ (saft' = saft => sent' = sent)
  OBVIOUS
<1> USE DEF Working, Before, cb, main, gen, Idle
<1>1. CASE Acquire
  BY <1>1 DEF Acquire, OrderInv, Reading, RefillInv, Quiet, Commands
<1>2. CASE BeginFill
  BY <1>2, SameContent DEF BeginFill, OrderInv, Reading
<1>3. CASE EndFill
  <2>1. fill.count > 0 /\ fill.count <= todo /\ todo > 0 /\ fill.count \in Nat
    BY <1>3, Levels DEF EndFill
  <2>2. fg' = fg /\ hw' = hw /\ released' = released /\ sent' = sent /\ saft' = "run"
    BY <1>3, Levels DEF EndFill, OrderInv, TypeInv, Control
  <2>3. CASE saft = "acquired"
    <3>1. /\ command = "none" /\ wr_ptr = rd_ptr /\ written = sent /\ fill.from = wr_ptr
          /\ fill.count <= BUFFER_SIZE - 1
      BY <2>1, <2>3, Numbered DEF TypeInv, Control, RefillInv, Commands, Clean, OrderInv
    <3>2. Content /\ cbgetCount = 0
      BY <3>1, EmptyContent, Numbered DEF cbgetCount
    <3>3. Content'
      BY <1>3, <3>1, <3>2, FillContent, Numbered
    <3> QED
      BY <2>2, <2>3, <3>3 DEF OrderInv
  <2>4. CASE saft = "run"
    <3>1. Reading' => Reading
      BY <1>3, <2>2, <2>4 DEF EndFill, Reading
    <3>2. Reading => hw # "off"
      BY <2>1, <2>4 DEF Reading, RefillInv, FullAtStart
    <3>3. Reading => fill.from = wr_ptr /\ cbgetCount + fill.count <= BUFFER_SIZE - 1
      BY <2>1, <3>2 DEF Reading, RefillInv, Asked
    <3>4. Reading' => Content'
      BY <1>3, <3>1, <3>3, FillContent DEF OrderInv
    <3> QED
      BY <2>2, <2>4, <3>4 DEF OrderInv
  <2> QED
    BY <2>1, <2>3, <2>4, Levels DEF TypeInv, Control
<1>4. CASE EnableEmpty
  <2>1. saft = "acquired" /\ wr_ptr = rd_ptr /\ written = sent
    BY <1>4 DEF EnableEmpty, RefillInv, Clean, OrderInv
  <2>2. Content'
    BY <1>4, <2>1, EmptyContent, SameContent DEF EnableEmpty
  <2> QED
    BY <1>4, <2>2 DEF EnableEmpty, OrderInv
<1>5. CASE Disable \/ Release
  BY <1>5, SameContent DEF Disable, Release, OrderInv, Reading
<1> QED
  BY <1>1, <1>2, <1>3, <1>4, <1>5 DEF Saftlib

\* What a step of the system does to the numbers.
LEMMA NextOrderInv ==
  TypeInv /\ IInv /\ RefillInv /\ OrderInv /\ [Next]_vars
    => OrderInv' /\ (sent' # sent => (sent' = sent + 1 /\ sent' <= written) \/ saft' # saft)
<1>1. CASE UNCHANGED vars
  BY <1>1, SameContent DEF vars, cb, main, gen, lib, OrderInv, Reading, Working, Before
<1> QED
  BY <1>1, FgTaskOrderInv, MainTaskOrderInv, HardwareOrderInv, SaftlibOrderInv DEF Next

\* cbRead() of handleAdacFg() and fgEnableChannel(): the generator gets the polynomials
\* of its run one after the other, none twice and none of an earlier run.
THEOREM PolynomialsInOrder == Spec => InOrder
<1>1. TypeInv /\ IInv /\ RefillInv /\ OrderInv /\ [Next]_vars
        => [sent' # sent => (sent' = sent + 1 /\ sent' <= written) \/ saft' # saft]_vars
  BY NextOrderInv
<1> QED
  BY <1>1, InitIInv, NextIInv, InitTypeInv, NextTypeInv, InitRefillInv, NextRefillInv,
     InitOrderInv, NextOrderInv, PTL DEF Spec, InOrder
=============================================================================
