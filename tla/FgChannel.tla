------------------------------ MODULE FgChannel ------------------------------
(***************************************************************************)
(* The life of one ADDAC function-generator channel: its circular buffer   *)
(* of polynomials, written by SAFTLIB and read by the LM32, its state, and *)
(* its watchdog (fg/scu_fg_macros.c, fg/scu_fg_handler.c,                  *)
(* fg/scu_circular_buffer.h, scu_command_handler.c).                       *)
(*                                                                         *)
(* The main task enables, disables and resets the channel and polls the    *)
(* watchdog; each of its critical sections and each write to the shared    *)
(* memory is a step.  The FG task has a higher priority and runs as soon   *)
(* as the interrupt routine has returned: the main task, which can delay   *)
(* the interrupt only by a critical section, makes at most one step        *)
(* between an interrupt and its handling.  The generator raises no second  *)
(* interrupt before the first one is handled.                              *)
(*                                                                         *)
(* External are the generator (armed, running, silent when it is broken)   *)
(* and SAFTLIB: it gives a command when the one before is done, fills the  *)
(* buffer, or writes all it has, and looks at both indexes before it       *)
(* writes.                                                                 *)
(***************************************************************************)
EXTENDS Naturals

CONSTANTS BUFFER_SIZE,         \* places of the circular buffer (121)
          FG_REFILL_THRESHOLD, \* fill level at which SAFTLIB is asked for more (48)
          MaxTuples,           \* bound: polynomials of a run
          MaxRuns              \* bound: runs of the channel

\* A buffer that is filled up from the threshold has more than the threshold
\* in it even when all older polynomials have been used meanwhile.
ASSUME FgChannelAssumption ==
  /\ BUFFER_SIZE \in Nat /\ FG_REFILL_THRESHOLD \in Nat \ {0}
  /\ 2 * FG_REFILL_THRESHOLD + 1 < BUFFER_SIZE
  /\ MaxTuples \in Nat \ {0} /\ MaxRuns \in Nat

VARIABLES
  buffer, wr_ptr, rd_ptr, \* oFg.aChannelBuffers[channel] and its indexes
  state,      \* oFg.aRegs[channel].state
  timeout,    \* g_aFgChannels[channel].timeout: off, set, or over
  job, at,    \* what the main task does for the channel, and where it is
  fg,         \* the FG task is idle, or between signal and polynomial
  irqEnabled, \* the slave's interrupt of this generator is enabled
  irq,        \* its interrupt: none, new, or due after one step of the main task
  hw,         \* the generator
  dreq,       \* FG_DREQ of its control register
  loaded,     \* it has the polynomial after the current one
  command,    \* the command SAFTLIB waits for
  saft,       \* what SAFTLIB does with the channel
  released,   \* SAFTLIB has got a STOP or DISARMED
  refill,     \* SAFTLIB has got a REFILL that it has not begun to answer
  fill,       \* it writes: where from and how many
  todo,       \* polynomials of this run that it has not written
  written, sent, \* number of the last polynomial it has written, LM32 has read
  runs        \* counts the runs

cb    == <<buffer, wr_ptr, rd_ptr>>
main  == <<job, at>>
gen   == <<irqEnabled, hw, dreq, loaded>>
lib   == <<command, saft, fill, todo, written, runs>>
vars  == <<cb, state, timeout, main, fg, gen, irq, lib, released, refill, sent>>

Place == 0 .. BUFFER_SIZE - 1

TypeOK ==
  /\ buffer \in [Place -> 0 .. MaxRuns * MaxTuples]
  /\ wr_ptr \in Place /\ rd_ptr \in Place
  /\ state \in {"STOPPED", "ARMED", "ACTIVE"} /\ timeout \in {"off", "set", "over"}
  /\ job \in {"none", "watchdog", "reset", "enable", "disable"}
  /\ at \in {"loop", "wdtDisable", "fgIsStarted", "irqDisable", "stopSignal", "stopState",
             "hwDisable", "flush", "disarm", "unwatch",
             "wr_ptr", "rd_ptr", "state", "hwReset",
             "watch", "prepare", "read", "start", "rewatch", "armed"}
  /\ fg \in {"idle", "feed"} /\ irqEnabled \in BOOLEAN /\ irq \in {"none", "new", "due"}
  /\ hw \in {"off", "armed", "running", "silent"} /\ dreq \in BOOLEAN /\ loaded \in BOOLEAN
  /\ command \in {"none", "reset", "enable", "disable"}
  /\ saft \in {"free", "acquired", "run"}
  /\ released \in BOOLEAN /\ refill \in BOOLEAN
  /\ fill \in [from : Place, count : Place]
  /\ todo \in 0 .. MaxTuples /\ runs \in 0 .. MaxRuns
  /\ written \in 0 .. MaxRuns * MaxTuples /\ sent \in 0 .. MaxRuns * MaxTuples

NoFill == [from |-> 0, count |-> 0]

Init ==
  /\ buffer = [p \in Place |-> 0] /\ wr_ptr = 0 /\ rd_ptr = 0
  /\ state = "STOPPED" /\ timeout = "off"
  /\ job = "none" /\ at = "loop" /\ fg = "idle"
  /\ irqEnabled = FALSE /\ irq = "none" /\ hw = "off" /\ dreq = FALSE /\ loaded = FALSE
  /\ command = "none" /\ saft = "free" /\ released = FALSE /\ refill = FALSE
  /\ fill = NoFill /\ todo = 0 /\ written = 0 /\ sent = 0 /\ runs = 0
-----------------------------------------------------------------------------
(* The circular buffer *)

cbisEmpty  == wr_ptr = rd_ptr
cbgetCount == IF wr_ptr >= rd_ptr THEN wr_ptr - rd_ptr
                                  ELSE (BUFFER_SIZE - rd_ptr) + wr_ptr

cbReadNoWrap ==
  /\ sent' = buffer[rd_ptr]
  /\ rd_ptr' = rd_ptr + 1
  /\ UNCHANGED <<buffer, wr_ptr>>

cbRead ==
  /\ sent' = buffer[rd_ptr]
  /\ rd_ptr' = (rd_ptr + 1) % BUFFER_SIZE
  /\ UNCHANGED <<buffer, wr_ptr>>

fgIsStarted == state = "ACTIVE"
WdtResetUnlessStarted == timeout' = IF fgIsStarted THEN timeout ELSE "set"
wdtReset == timeout' = IF fgIsStarted THEN "set" ELSE timeout
-----------------------------------------------------------------------------
(* The interrupt and the FG task: handleAdacFg() *)

\* A STOP or DISARMED concerns SAFTLIB while it runs the channel.
SendStop == released' = (released \/ saft = "run")

\* FG_RUNNING is clear: makeStop().
HandleStop ==
  /\ fg = "idle" /\ irq # "none" /\ hw \in {"off", "armed"}
  /\ irq' = "none" /\ irqEnabled' = FALSE
  /\ SendStop
  /\ state' = "STOPPED"
  /\ UNCHANGED <<cb, timeout, main, fg, hw, dreq, loaded, lib, refill, sent>>

RefillTooLate == refill' = (refill \/ cbgetCount = FG_REFILL_THRESHOLD - 1)
sendRefillSignalIfThreshold == refill' = (refill \/ cbgetCount = FG_REFILL_THRESHOLD)

\* FG_RUNNING is set; without FG_DREQ the generator has just got its start tag.
HandleRunning ==
  /\ fg = "idle" /\ irq # "none" /\ hw \in {"running", "silent"}
  /\ irq' = "none"
  /\ state' = IF dreq THEN state ELSE "ACTIVE"
  /\ sendRefillSignalIfThreshold
  /\ fg' = "feed"
  /\ UNCHANGED <<cb, timeout, main, gen, lib, released, sent>>

feedAdacFg ==
  /\ fg = "feed" /\ ~cbisEmpty
  /\ cbRead
  /\ loaded' = TRUE
  /\ wdtReset
  /\ fg' = "idle"
  /\ UNCHANGED <<state, main, irqEnabled, hw, dreq, irq, lib, released, refill>>

Starve ==
  /\ fg = "feed" /\ cbisEmpty
  /\ fg' = "idle"
  /\ UNCHANGED <<cb, state, timeout, main, gen, irq, lib, released, refill, sent>>

FgTask == HandleStop \/ HandleRunning \/ feedAdacFg \/ Starve
-----------------------------------------------------------------------------
(* The main task.  A step of it can come between an interrupt and its handling, *)
(* a second one cannot.                                                         *)

Goto(from, to) == fg = "idle" /\ irq # "due" /\ at = from /\ at' = to

Late == irq' = IF irq = "new" THEN "due" ELSE irq

\* A step that leaves interrupt, generator, buffer and SAFTLIB alone.
Step(from, to) ==
  /\ Goto(from, to) /\ Late
  /\ UNCHANGED <<buffer, fg, gen, saft, fill, todo, written, runs, refill, sent>>

\* Back in the loop of taskMain(): the job and, if there was one, the command are done.
Return(from) == Step(from, "loop") /\ job' = "none" /\ command' = IF job = "watchdog" THEN command ELSE "none"

\* commandHandler()
Command ==
  /\ \/ command = "reset"   /\ Step("loop", "wr_ptr")
     \/ command = "enable"  /\ Step("loop", "watch")
     \/ command = "disable" /\ Step("loop", "hwDisable")
  /\ job' = command
  /\ UNCHANGED <<wr_ptr, rd_ptr, state, timeout, command, released>>

(* wdtPoll() *)
TimedOut ==
  /\ timeout = "over"
  /\ Step("loop", "wdtDisable") /\ job' = "watchdog"
  /\ UNCHANGED <<wr_ptr, rd_ptr, state, timeout, command, released>>

wdtDisable ==
  /\ Step("wdtDisable", "fgIsStarted")
  /\ timeout' = "off"
  /\ UNCHANGED <<wr_ptr, rd_ptr, state, job, command, released>>

WdtIgnore ==
  /\ ~fgIsStarted /\ Return("fgIsStarted")
  /\ UNCHANGED <<wr_ptr, rd_ptr, state, timeout, released>>

WdtReportOnly ==
  /\ fgIsStarted /\ Return("fgIsStarted")
  /\ UNCHANGED <<wr_ptr, rd_ptr, state, timeout, released>>

WdtStop ==
  /\ fgIsStarted /\ Step("fgIsStarted", "irqDisable")
  /\ UNCHANGED <<wr_ptr, rd_ptr, state, timeout, job, command, released>>

wdtPoll == TimedOut \/ wdtDisable \/ WdtIgnore \/ WdtStop

(* makeStop() *)
addacFgDisableIrq ==
  /\ Goto("irqDisable", "stopSignal")
  /\ irq' = "none" /\ irqEnabled' = FALSE
  /\ UNCHANGED <<cb, state, timeout, job, fg, hw, dreq, loaded, lib, released, refill, sent>>

StopSignal ==
  /\ Step("stopSignal", "stopState")
  /\ SendStop
  /\ UNCHANGED <<wr_ptr, rd_ptr, state, timeout, job, command>>

StopState ==
  /\ Step("stopState", "hwDisable")
  /\ state' = "STOPPED"
  /\ UNCHANGED <<wr_ptr, rd_ptr, timeout, job, command, released>>

makeStop == addacFgDisableIrq \/ StopSignal \/ StopState

(* fgDisableChannel() *)
addacFgDisable ==
  /\ Goto("hwDisable", "flush") /\ Late
  /\ hw' = "off"
  /\ UNCHANGED <<cb, state, timeout, job, fg, irqEnabled, dreq, loaded, lib, released, refill, sent>>

flushCircularBuffer ==
  /\ Step("flush", "disarm")
  /\ rd_ptr' = IF fgIsStarted THEN wr_ptr ELSE rd_ptr
  /\ UNCHANGED <<wr_ptr, state, timeout, job, command, released>>

Disarm ==
  /\ Step("disarm", "unwatch")
  /\ state' = "STOPPED"
  /\ SendStop
  /\ UNCHANGED <<wr_ptr, rd_ptr, timeout, job, command>>

Unwatch ==
  /\ timeout' = "off"
  /\ IF job = "watchdog" THEN Step("unwatch", "wr_ptr") /\ UNCHANGED <<job, command>>
                         ELSE Return("unwatch")
  /\ UNCHANGED <<wr_ptr, rd_ptr, state, released>>

fgDisableChannel == addacFgDisable \/ flushCircularBuffer \/ Disarm \/ Unwatch

(* fgResetAndInit() *)
ResetWrite ==
  /\ Step("wr_ptr", "rd_ptr")
  /\ wr_ptr' = 0
  /\ UNCHANGED <<rd_ptr, state, timeout, job, command, released>>

ResetReadForgotten ==
  /\ Step("rd_ptr", "state")
  /\ UNCHANGED <<wr_ptr, rd_ptr, state, timeout, job, command, released>>

ResetRead ==
  /\ Step("rd_ptr", "state")
  /\ rd_ptr' = 0
  /\ UNCHANGED <<wr_ptr, state, timeout, job, command, released>>

ResetState ==
  /\ Step("state", "hwReset")
  /\ state' = "STOPPED"
  /\ UNCHANGED <<wr_ptr, rd_ptr, timeout, job, command, released>>

HwReset ==
  /\ Goto("hwReset", "loop") /\ Late
  /\ hw' = "off"
  /\ job' = "none" /\ command' = IF job = "watchdog" THEN command ELSE "none"
  /\ UNCHANGED <<cb, state, timeout, fg, irqEnabled, dreq, loaded,
                 saft, fill, todo, written, runs, released, refill, sent>>

fgResetAndInit == ResetWrite \/ ResetRead \/ ResetState \/ HwReset

(* fgEnableChannel() *)
Watch(from, to) ==
  /\ Step(from, to)
  /\ wdtReset
  /\ UNCHANGED <<wr_ptr, rd_ptr, state, job, command, released>>

addacFgPrepare ==
  /\ Goto("prepare", "read")
  /\ irq' = "none" /\ irqEnabled' = TRUE
  /\ UNCHANGED <<cb, state, timeout, job, fg, hw, dreq, loaded, lib, released, refill, sent>>

FirstTuple ==
  /\ ~cbisEmpty
  /\ Goto("read", "start") /\ Late
  /\ cbRead
  /\ UNCHANGED <<state, timeout, job, fg, gen, lib, released, refill>>

NoTuple ==
  /\ cbisEmpty
  /\ Step("read", "armed")
  /\ UNCHANGED <<wr_ptr, rd_ptr, state, timeout, job, command, released>>

addacFgStart ==
  /\ Goto("start", "rewatch") /\ Late
  /\ hw' = "armed" /\ dreq' = FALSE /\ loaded' = TRUE
  /\ UNCHANGED <<cb, state, timeout, job, fg, irqEnabled, lib, released, refill, sent>>

sendSignalArmed ==
  /\ Return("armed")
  /\ state' = "ARMED"
  /\ UNCHANGED <<wr_ptr, rd_ptr, timeout, released>>

fgEnableChannel == Watch("watch", "prepare") \/ addacFgPrepare \/ FirstTuple \/ NoTuple
                   \/ addacFgStart \/ Watch("rewatch", "armed") \/ sendSignalArmed

MainTask == Command \/ wdtPoll \/ makeStop \/ fgDisableChannel \/ fgResetAndInit \/ fgEnableChannel
-----------------------------------------------------------------------------
(* The generator, and the time of the watchdog *)

Handled == irq = "none" /\ fg = "idle"
Interrupt == irq' = IF irqEnabled THEN "new" ELSE irq

\* The timing tag starts it, and it requests the second polynomial.
HwStart ==
  /\ hw = "armed" /\ Handled
  /\ hw' = "running" /\ dreq' = FALSE /\ loaded' = FALSE
  /\ Interrupt
  /\ UNCHANGED <<cb, state, timeout, main, fg, irqEnabled, lib, released, refill, sent>>

\* It goes on with the polynomial it has been given and requests the next one.
HwRequest ==
  /\ hw = "running" /\ loaded /\ Handled
  /\ dreq' = TRUE /\ loaded' = FALSE
  /\ Interrupt
  /\ UNCHANGED <<cb, state, timeout, main, fg, irqEnabled, hw, lib, released, refill, sent>>

\* It has got nothing to go on with.
HwStop ==
  /\ hw = "running" /\ ~loaded /\ Handled
  /\ hw' = "off"
  /\ Interrupt
  /\ UNCHANGED <<cb, state, timeout, main, fg, irqEnabled, dreq, loaded, lib, released, refill, sent>>

HwFails ==
  /\ hw = "running"
  /\ hw' = "silent"
  /\ UNCHANGED <<cb, state, timeout, main, fg, irqEnabled, dreq, loaded, irq, lib, released, refill, sent>>

Hardware == HwStart \/ HwRequest \/ HwStop \/ HwFails

TimePasses ==
  /\ timeout = "set"
  /\ timeout' = "over"
  /\ UNCHANGED <<cb, state, main, fg, gen, irq, lib, released, refill, sent>>
-----------------------------------------------------------------------------
(* SAFTLIB *)

Idle == <<state, timeout, main, fg, gen, irq>>
Least(a, b) == IF a < b THEN a ELSE b

\* Places that may be written: one stays free, which tells full from empty.
Free == (BUFFER_SIZE - 1) - cbgetCount

\* Numbers of polynomials go on from run to run; what an earlier run left unread is void.
Acquire ==
  /\ saft = "free" /\ command = "none" /\ runs < MaxRuns
  /\ saft' = "acquired" /\ command' = "reset"
  /\ runs' = runs + 1
  /\ todo' \in 0 .. MaxTuples
  /\ released' = FALSE /\ refill' = FALSE
  /\ sent' = written
  /\ UNCHANGED <<cb, Idle, fill, written>>

\* It has looked at the indexes, and writes from there what fits in.
BeginFill ==
  /\ fill.count = 0 /\ todo > 0
  /\ \/ saft = "acquired" /\ command = "none"
     \/ saft = "run" /\ refill /\ ~released
  /\ fill' = [from |-> wr_ptr, count |-> Least(Free, todo)]
  /\ refill' = FALSE
  /\ UNCHANGED <<cb, Idle, command, saft, todo, written, released, sent, runs>>

EndFill ==
  /\ fill.count > 0
  /\ buffer' = [p \in Place |->
                  LET k == (p + BUFFER_SIZE - fill.from) % BUFFER_SIZE
                  IN  IF k < fill.count THEN written + k + 1 ELSE buffer[p]]
  /\ wr_ptr' = (fill.from + fill.count) % BUFFER_SIZE
  /\ written' = written + fill.count /\ todo' = todo - fill.count
  /\ fill' = NoFill
  /\ IF saft = "acquired" THEN saft' = "run" /\ command' = "enable"
                          ELSE UNCHANGED <<saft, command>>
  /\ UNCHANGED <<rd_ptr, Idle, released, refill, sent, runs>>

EnableEmpty ==
  /\ saft = "acquired" /\ command = "none" /\ todo = 0
  /\ saft' = "run" /\ command' = "enable"
  /\ UNCHANGED <<cb, Idle, fill, todo, written, runs, released, refill, sent>>

Disable ==
  /\ saft = "run" /\ command = "none" /\ ~released
  /\ command' = "disable"
  /\ UNCHANGED <<cb, Idle, saft, fill, todo, written, runs, released, refill, sent>>

Release ==
  /\ saft = "run" /\ released /\ command = "none" /\ fill.count = 0
  /\ saft' = "free" /\ todo' = 0
  /\ UNCHANGED <<cb, Idle, command, fill, written, runs, released, refill, sent>>

Saftlib == Acquire \/ BeginFill \/ EndFill \/ EnableEmpty \/ Disable \/ Release
-----------------------------------------------------------------------------
Next == FgTask \/ MainTask \/ Hardware \/ TimePasses \/ Saftlib

Spec == Init /\ [][Next]_vars

\* Tasks that are ready get the CPU, and time goes on.
Fairness == WF_vars(FgTask) /\ WF_vars(MainTask) /\ WF_vars(TimePasses)

FairSpec == Spec /\ Fairness
-----------------------------------------------------------------------------
(* Properties *)

\* Before the fill level of a running generator is below the threshold SAFTLIB
\* has been asked for the polynomials it still has (sendRefillSignalIfThreshold()):
\* the signal is sent at one level only, and that level is never jumped over.
RefillInTime ==
  hw = "running" /\ fg = "idle" /\ saft = "run" /\ ~released
  /\ todo > 0 /\ ~refill /\ fill.count = 0
    => cbgetCount >= FG_REFILL_THRESHOLD

\* The generator gets the polynomials of its run one after the other: cbRead()
\* neither skips nor repeats one, and none is left over from an earlier run,
\* though runs are stopped, flushed and reset while SAFTLIB is writing.
InOrder == [][sent' # sent => (sent' = sent + 1 /\ sent' <= written) \/ saft' # saft]_vars

\* A started generator that has got a polynomial since is watched: wdtPoll()
\* of the main task never switches off the watchdog the FG task has just set
\* without stopping the channel.
Watched ==
  job = "none" /\ fg = "idle" /\ irq = "none" /\ hw \in {"running", "silent"}
  /\ fgIsStarted /\ loaded => timeout # "off"

\* A started generator that falls silent is stopped (CONFIG_USE_FG_MSI_TIMEOUT).
SilenceStops ==
  (hw = "silent" /\ job = "none" /\ fg = "idle" /\ irq = "none" /\ fgIsStarted /\ loaded)
    ~> state = "STOPPED"

\* "Returns "true" if the function generator of this channel is active."
\* (fgIsStarted()): so it is when the start interrupt has been handled and the
\* command that enabled the channel is done.
StartedIsActive ==
  hw = "running" /\ irqEnabled /\ irq = "none" /\ fg = "idle" /\ job = "none" => fgIsStarted
=============================================================================
