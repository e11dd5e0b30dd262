# ts_cRIOcpp in TLA+

`ts_cRIOcpp` is the C++ library under Rubin Observatory's cRIO-based controllers (M1M3 supports,
thermal and vertical-motion systems). This directory holds TLA+ models of its concurrent and
protocol code, the TLC configurations that check them on small instances, and TLAPS proofs of the
main invariants for instances of every size. Paths below are relative to the repository.

Run, in this directory:

    tlc -workers 2 -config MCController_safe.cfg MCControllerThread.tla     # any run of PROJECT.json
    tlapm ControllerThread_proofs.tla                                       # any *_proofs module

## 1. Inventory of the system

| component | state | operations | meets | hard part | correct when |
|---|---|---|---|---|---|
| `TaskQueue`, `Task` | vector of (time, task) kept as a heap by `std::priority_queue` | push, top, pop, remove, swap | owned by `ControllerThread` | `remove` edits the vector below the heap | top is always a next task; no entry lost or doubled |
| `ControllerThread` | the queue, `keepRunning`, who sleeps until when, interrupt handlers | `enqueue(_at)`, `remove`, `clear`, `run`/`_process_tasks`, `checkInterrupts` | clients in any thread; tasks run with the mutex released | lost wakeups, re-queueing around an unlocked task, exceptions | at most one task runs, none early, none lost, due ones run, stop ends it |
| `Thread` | `_thread`, `_threadStarted`, `keepRunning`, one mutex, two condition variables | `start`, `stop`, `wait_until`, `_run`, destructor | `Application`, subclasses' `run` | timeouts against late events, join under the mutex | never two threads, never join a live or a null one, calls return |
| `Application` | list of threads, its mutex; options | `addThread`, `stopAllThreads`, `runningThreads`, `processArgs` | owns `Thread`s | a call that throws half-way | no thread uses what was closed; arguments are split as meant |
| `InterruptWatcherTask/Thread` | a thread that waits for FPGA interrupts | `run` | enqueues into `ControllerThread` | third thread, acknowledge order | no interrupt that has a handler stays unserved |
| `CSC` | process roles, a pipe, PID file | `run`, `daemonOK`, `daemonFailed`, `_daemonize`, `processArg` | parent and child processes, signals, all threads | late or missing answer of the child | parent reports what happened to the daemon; exit is reached |
| `BusList`, `ILCBusList`, ILC types | list of sent commands, position in it, error counters, broadcast counter, last modes | `callFunction`, `broadcastFunction`, `parse`, `reset`, `changeILCMode` | `FPGA::ilcCommands` feeds it frames | frames missing, wrong, extra, spoiled | a response reaches the command it answers; errors are counted once; ILCs read what was meant |
| `FPGA` | hardware FIFOs | `ilcCommands`, `writeCommandFIFO`, ... | bus lists, PrintILC | late answers, missing frames | every command gets an answer or an error |
| `MPU`, `Transport` | queued register reads and writes, cached registers; collected bytes | `read*`, `write*`, response handlers; `commands` | serial device | queue of "commanded" addresses can slip by one | a value is stored at the address it was read from |
| `ModbusBuffer` | byte buffer, queue of commanded functions, recording of changes | `callFunction`, `processResponse`, `checkCommanded`, `checkRecording` | legacy ILC users | same matching problem | as `BusList`; no change is missed |
| `PrintILC`, `IntelHex` | step of a firmware update, image pages | `programILC`, `_writeHex` | `ILCBusList`, FPGA, operator | long sequence in which any exchange fails | image complete and verified, ILC in the mode each step needs |
| `CliApp`, `FPGACliApp` | commands, FPGA, buses, exempted ILCs | the commands | operator | lists left filled by a command that failed | nothing is sent that was not asked for |
| `PID`, `LimitedPID` | filter history, frozen offset | `process`, `freeze`, `thaw`, `update_parameters` | control loops | arithmetic at the end of a thaw, windup | offset ends at zero; limits hold in the history |
| `Command`, `Event`, SAL classes | none of their own | `validate`, `run`, `reportException` | SAL, `ControllerThread` | exceptions between acknowledgements | one final acknowledgement, the true one |
| `Alias`, `PIDParameters` | table of names; parameters | `load`, `getPath` | YAML files | a load that throws half-way | what is found is of the last load |
| `LimitTrigger`, `RoundRobin`, `Range`, `Limit` | counters | `check`, `next` | nothing in the repository | | not modelled |
| formatting, `Path`, error classes, `SALSink`, `NiFpga.h`, `rapidcsv.h` | none of interest | I/O and conversion | | | not modelled |

How they interact: a client thread puts a command (a `Task`) in the `ControllerThread`'s queue;
the controller thread runs it with the queue's mutex released; what the task does is mostly to fill
a bus list, hand it to `FPGA::ilcCommands` and read back what the parse stored; `Application` starts
and stops all the threads; `CSC` daemonizes the process around all that. The command line
applications do the same in one thread, for an operator.

`PROJECT.json` lists all components with their status and, under `hazards`, each place where the
code meets something hard to test.

## 2. Modules

    TaskHeap  <--extends--  ControllerThread  --implements (INSTANCE)-->  TaskPool
                                  ^      ^
              ControllerThread_proofs    MCControllerThread  (runs)

    Thread  <---  Thread_proofs ,  MCThread  (runs)

    BusList  <--extends--  ILCCommands  <---  ILCCommands_proofs ,  MCILCCommands  (runs)
       ^
       +----extends----  MPU  <---  Modbus_proofs ,  MCMPU  (runs)

    Application , InterruptWatcher  <--extends--  CSC  <---  CSC_proofs ,  MCCSC  (run)

    IntelHex  <--extends--  PrintILC
    CliApp , PrintILC  <--extends--  FPGACli  <---  FPGACli_proofs ,  MCFPGACli  (run)

    ILCReplies  <---  ILCReplies_proofs
    ILCReplies  <--extends--  ILCRequests
    ModbusBuffer  <---  Modbus_proofs
    ModbusBuffer , ILCRequests  <--extends--  MCModbus  (run)

    PID , Commands , Settings , Arguments  <---  Control_proofs ,  MCControl  (run)

**TaskHeap** (`TaskQueue.h/.cpp`). Operators, no state: `Push` and `Pop` are libstdc++'s
`push_heap`/`pop_heap` as `std::priority_queue` uses them (external code: the vector is visible to
`TaskQueue::remove`, so which permutation it is in matters), `Remove` is the project's own. The loops
of the heap algorithms walk one branch of the tree; the positions they visit are defined as a least
closed set, so that no recursion is needed and everything can be proved about. Entries are ordered
by `std::greater` on (time, address); a task is a number that stands for its address.

**TaskPool**. What `ControllerThread` promises, with none of its mechanism: a bag of timed entries,
at most one of them running ("guarantee that only a single command is being executed at any moment",
`ControllerThread.h`), started only when due, removed from the bag by being started, put back at
most once when it returns.

**ControllerThread** (`ControllerThread.cpp`, with the parts of `Thread` it inherits). Clients call
`enqueue_at`, `remove`, `clear`, `stop` and `start`; the controller thread executes `run` and
`_process_tasks`.

| model | code |
|---|---|
| `mutex`, `keepRunning`, `queue`, `deadline` | `runMutex`, `keepRunning`, `_task_queue`, the argument of `runCondition.wait_until` |
| `now`, `task`, `wait` | locals of `_process_tasks` |
| `Acquire`, then `EnqueueAt`/`RemoveTask`/`Clear`/`Stop`/`Start`, then `Notify` | lock; body and unlock; `notify_one`, made after the unlock |
| `ProcessTasks` -> `PopTask` -> `RunTask` or `ThrowTask` -> `Relock` -> `Reschedule` -> `NextTask` | lines 123-148, cut wherever another thread can act |
| `LoopTest` -> `Sleep` -> `Wake`/`SpuriousWake` | lines 90-96 |
| `thrown` | auxiliary: says that some task has thrown, after which the code's locking discipline is void |

A thread that unlocks a mutex it does not own is undefined behaviour; the model does what the
pthread mutex of the build does, it releases it. The interrupt handlers' table
(`setInterruptHandler`, `checkInterrupts`) is in InterruptWatcher.

**Thread** (`Thread.cpp`, and `Application`'s mutex around `start` and `stop`). Every stretch between
taking `runMutex` and releasing it, in a wait or for good, is one step; `join` alone blocks while
holding it. `waiting` is the set of threads blocked on the two condition variables, `notify_one` takes
any one of them, `Expire` lets a timeout end in any state of the rest, so timeouts have every length.
The constant `Serialized` says whether callers come through `Application` (one at a time) or not.

**Application** (`Application.cpp`). The list of threads and `_threadsMutex`: `addThread` appends, then starts,
and may throw (`AddThrows`); `stopAllThreads` stops, joins and erases one after the other and gives up in the middle when a
stop throws (`StopThrows`); a thread may be in a call of the FPGA (`busy`) or in `runningThreads`, waiting for
the mutex (`asking`). What goes on inside `start` and `stop` is Thread; what of it matters to others is here: `stop` first waits until
the thread is not running, which it also is when it has not begun yet, and then joins it with `runMutex` held (`JoinThread`), so
that a thread that has not begun does not begin any more (`Begin`, `Stuck`).

**InterruptWatcher** (`InterruptWatcherTask.cpp`, `ControllerThread::checkInterrupts`, `InterruptHandler.h`). The watcher finds
interrupts asserted (`waitOnIrqs`) and queues a task with their mask; the controller takes the task and looks at
the mask's bits one after the other; a handler is called and acknowledges, or not. `unserved` is auxiliary: the
interrupts asserted since their handlers last looked.

**CSC** (`CSC.cpp`) composes both with the process.

| model | code |
|---|---|
| `parent`, `readers`, `writers`, `pipe`, `answer` | what the parent does; who has which end of `_startPipe` open; what is in it; `retbuf` |
| `main` | where `run` is, and how the process ended |
| `Foreground`, `Fork`, `WritePID`, `Read`, `Confirmed`, `Alarm` | `_daemonize`, both sides of the fork; SIGALRM |
| `daemonOK`, `daemonFailed` | the same; a write to a pipe nobody reads is SIGPIPE |
| `initializeAndOpen`, `InitInterrupts`, `InitThreads`, `InitFails`, `InitReturns` | `run` up to the loop; what the subclass does in `init` is any order of its calls |
| `RequestExit`, `LoopEnds`, `StopThreads`, `close`, `finalize`, `exit` | the signal handler or the exit command; the rest of `run`; `exit` with the destructors (`DeleteWatcher`, `WatcherStays`) |
| `Throw`, `WatcherThrows` | an exception nobody catches, in `run` or in the watcher's thread |
| `reported` | auxiliary: what the daemon has told its parent |

**BusList** (`BusList.h/.cpp`). Operators, no state: a list is a record of its commands, `_parsed_index` and the
error counters, `parse` is what `BusList::parse` makes of it for one frame and `Outcome` how that ends (the
return or the exception). A frame is what was received: its address and function, and whether it is a proper
answer, an error response, one whose action throws (CRC, length), noise or too short to parse. `std::map`s of actions are
constants; times, arguments and the rest of the bytes are left to ILCRequests and ILCReplies.

**ILCCommands** (`FPGA::ilcCommands`, `ILCBusList`'s actions) composes the list with the bus.

| model | code |
|---|---|
| `ilc`, `lastMode` | the `ILCBusList`, its `_lastMode` |
| `Call` | lines 50-79: the caller's list is written to the FPGA |
| `Read` | lines 81-116: interrupt or timeout, acknowledge, read, `MissingResponse` or `next_message` |
| `ParseFrame` | one `parse` in the `while (true)` loop, 137-154: caught (same frame again), returned (next frame) or thrown on |
| `Finish` | the end of the loop over the response |
| `Answer`, `Silence`, `RaiseIrq` | external: an ILC's answer to the command on the bus, or none; the interrupt at the end of a list |
| `clean`, `answered`, `handled`, `reported`, `suspects` | auxiliary: what really happened on the bus, for the properties to compare with |

What is assumed of the FPGA, whose code is not in the repository: it executes lists in order, keeps the frames it
received in order until they are read, goes on with a list whose caller gave up, and latches the interrupt until it is
acknowledged. A response longer than eight words always has a frame in it, and frames of one response are taken as
whole.

**ILCRequests** and **ILCReplies** look at the same exchange byte by byte. In ILCRequests `Call` is any of the methods of
`ILCBusList`, `ElectromechanicalPneumaticILC` and `ThermalILC` that writes a command (function, arguments in the order and width
the code writes them, CRC), `writeCommandFIFO` turns a list into the FPGA's words with their waits, and ILCs read what the line
delivers with a decoder and a CRC division of their own (`Residue`), so that what is compared was not computed the
same way twice. In ILCReplies the ILCs say things with fields the actions expect, the line spoils a byte, cuts a frame or loses the gap
between two, and the FPGA's words are decoded, parsed and read the way `ilcCommands`, `Parser` and the actions do. A checksum there is
represented by the bytes it was computed from, so that it fits if and only if those are the same. The address and the function of a frame, which `parse`
compares before any checksum is looked at, are numbers: a byte that was spoiled, or has come to their place from another, is read as any
of the constant `Noise` (`Octet`).

**ModbusBuffer** (`ModbusBuffer.cpp/.h`). The older master: a queue of commanded functions matched with what comes back, error
responses with and without an action of their own, a subclass that throws on missing replies or only takes note of them
(`handleMissingReply`), and the recording an action may make of its data (`StartRecording`, `checkRecording`). The bytes it writes and
reads are those of ILCRequests. An exception leaves the recording on, and then the calls written to the same object are recorded too (`callFunction`).

**MPU** (`MPU.h/.cpp`, `Transport.cpp`, `FPGASerialDevice.cpp`) composes the same bus list, with the four register
functions as its actions, with the transport that executes it and the device behind. Here the bytes of an answer matter,
because where it is cut off and what is stored of it are the question; checksums are as in ILCReplies.

| model | code |
|---|---|
| `list`, `info`, `cache` | the `MPU`: its bus list, `_commanded_info`, `_inputStatus` and `_registers` |
| `Commands` | the caller's `readHoldingRegisters`, ... and its call of `commands`; `Infos` is what they add to `_commanded_info` |
| `next`, `answer` | the iterator of `commands`; the bytes `execute_command` has collected |
| `Write`, `GiveUp` | Transport.cpp 30-38: now is before `end`, or not; `GiveUp` is also every error the FPGA reports |
| `Receive` | one chunk of `read`, of any size, and `responseLength` of what there is |
| `TimeOut` | the end of the loop by time: `missing_response` for an empty answer, otherwise it is parsed as it is |
| `Parse` | `parse`, with the action (MPU.cpp 33-119), and `next_message` |
| `Return`, `Recover` | `clear()` after the last command; what a caller must do after an exception (it clears the list and has its index set back) |
| `Flush`, `Renew` | `flush`; a new `MPU` object |
| `DeviceAnswers` | external: the device answers the commands in order, properly or as `Faults` says, and any front part of an answer gets through |
| `quiet`, `told`, `footing` | auxiliary: whether anything of earlier calls was left, what the device said in this call; and whether something has happened that may leave an info behind (`Doubt`: "doubtful"), and whether it has, or a byte was changed, or an earlier answer was still to come when a call began ("lost") |

`front` of an empty list is undefined; the model takes any element. An iterator invalidated by clearing the list from elsewhere
is left out: nothing in the repository shares an `MPU` between threads.

**IntelHex** (`IntelHex.cpp`). Operators: loading the lines of a file, sorting, and the image with its gaps filled (`getData`).

**PrintILC** (`PrintILC.cpp`). `stage` is the exchange `programILC` has come to, `Wanted` the list it sends there. An exchange is cut into
what the ILC does on each command and what the program makes of each reply, so that an `Unruly` ILC may not hear, refuse,
be silent or change its mode by itself between any two, and what comes back may be spoilt. A reply is modelled as what it looks like (`Kinds`): the answer, an error
response, one that makes `parse` or an action throw a `runtime_error` ("bad") or an `out_of_range` ("unfit", which the `catch` of
PrintILC.cpp:101 does not catch: `Failed`), or, as the actions of functions 100 to 103 (PrintILC.cpp:35-47) do not check the checksum, the answer that
something was done which was not ("mistaken"). `Spoilt` says which of these a spoilt reply to a command can be; `misled` is auxiliary, it remembers what failed and was
taken to be done. The ILC itself (its modes, its flash) is outside the repository; what
it does is what `programILC` counts on.

**CliApp**, **FPGACli** (`CliApp.cpp`, `FPGACliApp.cpp/.h`, `SimpleFPGACliApp.h`). `tokenize`, `findCommand` and the check of
arguments against the argument map are operators; a session is a sequence of typed lines that open and close the FPGA, fill the buses' lists
and run them, exempt ILCs, and program them. The process may end or crash at any prompt and be started again, with the ILCs as they are.

**PID** (`PID.cpp`, `LimitedPID.cpp`). The difference equation with integers, its history, `freeze`, `thaw` and the offset. **Commands** (`Command.cpp`,
`Event.h`, `SAL/*.h`): a task is refused, queued, run, or throws, and each step's acknowledgement. After a throw the controller is without its
mutex for a while (finding 2): what a client that comes in between does is left undefined there. **Settings** (`Alias.cpp`, `PIDParameters.h`): loads that
end, or throw at any entry. **Arguments** (`Application::processArgs`, `CSC::processArg`, `_startLog`): an argument is a sequence of letters, a line
what an operator means (`Options`) and its writing (`Written`); a value of its own may be empty; getopt is as the C library has it.

`MC*` modules give constants their values; MCModbus and MCControl also put parts that do not interact behind one
initial choice (`master`, `part`), so that one run checks them all.

## 3. Runs

| run | question | instance | result |
|---|---|---|---|
| `controller_safe` | races of two clients with the controller | 2 clients (symmetric), 3 tasks: one may throw, one is invalid; clock 0..2, delays 1 and 2, waits 0 and 1, 2 entries before `enqueue_at` holds back, no `remove` | 2.0 M states, holds |
| `controller_live` | liveness and refinement of `TaskPool`, `remove` included | 2 clients, 2 tasks, clock 0..2, delay and wait 1 | 31 K states, holds |
| `controller_late` | as `controller_safe` with `remove`, without throwing | 3 entries | `EarliestFirst` violated |
| `controller_throw` | is the queue exclusive when a task throws | 2 tasks, one throws | `QueueExclusive` violated |
| `thread_live` | start, stop and `wait_until` as `Application` calls them; stop and `wait_until` may time out | 3 callers | 2.3 K states, holds |
| `bus_late` | calls that time out, so that answers and interrupts run into the next call; does every call end | 3 addresses, one a broadcast, lists of 1 or 2 commands, 2 modes, noise frames; a list is written only when the FPGA has sent the commands of the one before | 2.3 M states, holds |
| `mpu_any` | any faults, cuts and delays; two commands in a list | requests: two reads, an input read, two presets; refused, garbled and stray answers | 3.4 M states, holds |
| `mpu_error` | single reads, one of which is refused | 2 reads | `AddressWillBeRead` violated |
| `program` | an operator, and ILCs that fail in every way | 2 ILCs on 2 buses, one unruly; pages of 8 bytes; files with two pages, no data, a bad line; 14 lines to type | 5.5 M states, holds |
| `csc` | life of a daemon and of a program in the foreground | 2 threads, 2 interrupts of which one has a handler, 1 task of the watcher queued | 0.46 M states, holds |
| `control` | PID, SAL commands, settings and command lines, each alone | values of `_control` up to 7, errors -2, 0, 1, limits -3 and 2, steps of 2; 3 commands, one of them validated, 1 event; 3 alias files, 4 nodes; lines of up to 3 options out of 13 | 0.17 M states, holds |
| `modbus` | the older master; answers, and requests, of the newer byte by byte | see MCModbus: 2 devices and a broadcast address; 32 lists of ILC functions; 20 lists of requests at the ends of their types; spoiled bytes read as 1, 84 or 193 | 1.2 M states, holds |

What the properties say:

- `QueueGuarded`: until a task throws, whoever is inside the queue owns `runMutex`, client or controller.
- `NoLostWakeup`: a sleeping controller that nobody is about to notify has been told nothing and has no
  task due before its deadline. This is the property behind "notify after unlock" and behind the
  choice between `wait` and `wait_until`.
- `EarliestFirst`: what is popped and run is the entry that was read at the top, and no queued entry
  is due before it.
- `NeverEarly`: no task starts before its time, also after a task threw and clients and controller
  overlap.
- `ImplementsPool`: the whole machine refines `TaskPool`, with the queue as a bag and the
  entry between pop and re-queueing as the running one.
- `DueTaskRuns`, `StopEnds`: a due task does not stay queued for ever, a stop ends the thread.
- `Lifecycle`: `_thread`, `_threadStarted` and `keepRunning` agree with what the
  worker really does, in every interleaving of calls and timeouts; so `start` never makes a second
  thread and no thread is forgotten.
- `JoinSafe`: `stop`, which joins while holding `runMutex`, only joins a worker that needs the mutex no more.
- `StartReturns`, `StopReturns`, `WorkerStops`: no wakeup of `_startCondition` or `runCondition` is missed; the last two
  in executions without callers of `wait_until`.
- `AnswersHandled`: a call that ended normally gave the answer of every command that was answered to its action:
  passing over the commands of silent ILCs loses no frame of the others, although the walk cannot tell equal commands apart.
- `NoOverrun`: `at(_parsed_index)` never throws in such a call, whatever calls ended in the middle of the list before.
- `LastModeTrue`: after it `_lastMode` is what the ILC reported last.
- `Blameless`: an error is recorded only for an address that once failed to answer, or after noise or a call that ran into another.
- `CallEnds`: the `while (true)` loop and the call end.
- `FrontThere`: no action, and no `missing_response`, ever takes an element of an empty `_commanded_info`.
- `ReadsTrue`: a call that began with nothing left of earlier ones and ended normally stored all that the device said, in
  whatever pieces it came.
- `StoredWhereRead`: every word is stored for the register it was read from, also what was stored of an answer that failed later, in every call that
  begins with nothing left of earlier ones and on which no byte is changed. Single commands leave nothing to the next call when they are answered in full, not at all, or with at
  least the four bytes that get a frame to its action. A shorter answer, a refusal, a frame of another device or an error of the FPGA may leave an info
  behind (finding 3), and from the next call on the property promises nothing until there is a new `MPU`.
- `Programmed`: when `programILC` returns, the ILC was verified and its flash holds, byte for byte and gaps included, what the file says. Each half has the one exception
  that the code has: the verification, or erasing or writing, failed, and the reply that said so, whose checksum is not checked, was spoilt into one that says it was done.
- `OnlyInBootloader`, `NeverRunsUnverified`, `TimeEnough`: no erase or write outside the bootloader, no start of an image that was not
  verified, in this update or one after a failed one, and no mode change with less time than it needs; whatever was lost, refused, spoilt or failed before. The second has
  the exception of a failed verification that came back as a success.
- `OnlyWhatWasAsked`: what a bus sends belongs to the command in execution, and nothing goes to an exempted ILC.
- `StartAgreed`: the parent reports success only of a daemon that said so, and a daemon whose parent gave up does not go on past its report.
- `ClosedFPGAUnused`: when the FPGA is closed, no thread of the application uses it or will.
- `ParentAnswers`, `ExitsOnRequest`, `InterruptsServed`: the parent ends; a program that is to exit does, even if its threads wait for the
  mutex that `stopAllThreads` holds, unless a thread is joined that `addThread` had given up on and that has not begun yet (`Stuck`; section 4, *Thread*); an interrupt with a handler is served though others stay asserted.
- `AllAccounted`: when nothing is commanded any more and nothing was thrown, every call was answered and given to its action in order, or
  reported missing. `ChangeNoticed`: recorded data said to be unchanged are.
- `Delivered`: actions call the subclass's methods with what ILCs said and nothing else, and a call that returns has done so for
  all of it. When bytes are spoiled, lost or run together, lists with sensor values are left out, and of lists that change a mode only the first
  half is said: the code cannot keep the second (section 4, *Bytes*). `Understood`: an ILC reads function, arguments and signs as they were given, and nothing of a frame with a changed byte or bit; the FPGA waits long enough.
- `NoWindup`, `ThawsSmoothly`, `ThawEnds`: what a limited controller remembers of its output is within limits; the offset of a freeze goes to zero in
  steps, without overshooting, and gets there.
- `Answered`: a queued command gets exactly one final acknowledgement, and the true one. `OfLastLoad`: aliases and parameters are those of
  the last load. `AsGiven`: options and command come out of a command line as they were meant, however much their values look like options.

The type invariants of ControllerThread, Thread, ILCCommands, MPU and PID are proved and are not run; they were checked with TLC before.

**Bounds.** `MaxTime` stops the clock, `MaxQueue` holds back further `enqueue_at`. A wakeup is lost, or a
task run out of order, by the relation of one entry with the one the controller looked at, so two
entries and a clock that passes one of them are enough; the heap itself, where size matters, is
proved for every length. What a throw lets happen multiplies the states of `controller_safe`, so its
delays are short of 0 and -1 (a caller computes the time before it gets the mutex, which can make it past);
`controller_late` and `controller_throw` have them, and the theorems hold for all delays. In the liveness run delays and waits are 1: the clock stops at `MaxTime`, and with delay 0 at a
stopped clock clients could for ever queue entries that sort before the due one, which only the
bound makes possible. Two clients show what a client does to a client and to the controller, a third
to `Thread`, where one caller can be in `start` and two in `stop`.

The first four properties of the bus list speak of calls that are `clean`: they began with a quiet bus (nothing left
to send, nothing to be read, no interrupt pending), were ended by their own interrupt and met no noise. The others are
run all the same, because what they leave behind (the index, the frames, the interrupt) is what the next clean call starts with. Two modes
and two addresses let a stale value differ from a new one. Lists of three commands, where a command is passed over between two others, and bad
and short frames as well as noise, were run without the liveness property (11 M states) and hold; they are not kept because of their
size, and the theorems cover every length and kind. The counter of errors stops at `MaxErrors`, only zero or not matters.

For the MPU two registers next to each other are enough to tell a word from its neighbour's; an input status read, a preset of
one register and one of several go through the other actions. `MaxInfo` 2 lets one element be left over when the next
command is given. `MaxLine` 0 lets a call begin only when the device has nothing more to say to earlier ones, except in
what it says while the call lasts: with two commands in a list, the answer of the first can still come when the second is
executed, or be taken for its answer. `MaxLine` of 1 or more lets leftovers of one call reach the next; the theorems cover it.

`PageSize` is 8 instead of 256, so that a file of a few bytes has two pages, a gap inside a page, one between pages, and a last page that is not full.
`MaxTasks` 1: the watcher queues one task after the other as long as an interrupt is asserted, and what matters is that one is queued while another is
being worked on. `MaxRecords` 1 record can be left from an answer that threw, or from a call made after it, before one more call is recorded. `MaxSpoilt`: the line spoils the frames of the first lists, and is
quiet when the broadcast counter is above it; in each of these lists it spoils any byte of any frame. `Noise` of ILCReplies has an address, a function
and the refusal of another, 1, 84 and 193: the ones an altered byte can do something with in the lists that are run. `Bound` ends a PID's history when `_control` gets
large: what saturates or thaws does so below. In `modbus` and `control` one run looks at several machines one at a time,
which says the same as several runs: they have no variable in common.

**Fairness.** A thread that holds the mutex, or needs none, goes on (weak fairness; for `RunTask` it
says that tasks return). Threads that contend for `runMutex` get it if it is free again and again
(strong fairness): the mutex is never held for long and pthread mutexes hand it to some waiter.
Clients finish what they began and need not begin anything. A notified wait returns; spurious wakeups
are possible and never relied on. No timeout is assumed to expire or not to.
For the bus: the caller goes on, and so does the FPGA, whose interrupt comes when the list is through, answered or not
(it waits for each answer no longer than the time in the list). For a CSC: the parent, the main thread once it is in its loop, and
the threads go on; the alarm comes at last; of `init`, which is not in the repository, nothing is assumed, nor of
threads that begin something. `Commands`: the controller goes on. `PID`: whoever owns the controller asks for its offset again and again,
as `process` does.

**Deadlock** is checked except in `csc`, where a process that has ended stops the system, and `control`, where nothing is
left to do when all commands are answered, or a command line has been read.

## 4. Findings

1. `TaskQueue::remove` (TaskQueue.cpp:25) erases from the vector and does not rebuild the heap; a task
   due later can then be run before, and delay, one that is due earlier (`controller_late`).
2. When `Task::run` throws, `_process_tasks` continues without `runMutex` (ControllerThread.cpp:141) and
   works on the queue beside a client (`controller_throw`).
3. The element of `_commanded_info` that belongs to a command which failed before an action was called (an error
   response, a transport error, a response of another function, one of less than the four bytes Parser.cpp:35 asks for) stays at the front, `clear()` does not touch it, and the words the next read
   returns are stored for the failed command's register (MPU.cpp:34, `mpu_error`); only a new `MPU` ends that.

Observations, with no run of their own; most were met while a property was first stated too strongly.

*Thread.* `stop` tests `_thread` before its wait only: of two concurrent stops the later one can call
`join` on a null pointer (Thread.cpp:58). A thread that has not begun looks like one that has ended, so `stop` after a timed-out `start` joins it
with the mutex it needs in hand (Thread.cpp:55-58, 83), and hangs for ever. A program whose `addThread` has thrown for that reason then does not exit when it is
asked to; `ExitsOnRequest` excepts this state (`Stuck`), and without the exception `csc` shows it. In Thread itself both can be seen with
`Serialized = FALSE`, and with `"start"` among `Timeouts`, in `MCThread_live.cfg`. `wait_until` (Thread.cpp:78) waits for `keepRunning` to become
true, the opposite of its comment (Thread.h:82); and because its callers wait on `runCondition` too, one
of them can take the only notification `stop` sends, after which the thread sleeps on: hence `Undistracted`. `~Thread` calls `stop`, which
may throw (Thread.cpp:29). `ControllerThread::size()` reads the queue without the mutex.

*Bus list and ilcCommands.* `timedout` (FPGA.cpp:83) is never looked at, so that after one
timeout the frames of a list can be parsed as those of the next, and that one's interrupt ends the wait of the one after, until a
call finds the bus quiet; commands at the end of a list that nobody answers leave no trace, though BusList.h:119 promises
an error (the check at FPGA.cpp:166 is commented out); broadcasts count as errors whenever an answered command follows them; error
responses are not recorded at all; `UnexpectedResponse` is never thrown, a function without action ends the call with `std::out_of_range`.
An error action gets the function code with its error bit, not the error code (BusList.cpp:63, BusList.h:293). `reportTime` can be given an
incomplete or no end time (FPGA.cpp:155), and a second timestamp without a frame in between throws.

*Bytes.* Checksum and length of error responses are not checked (BusList.cpp:62-66). One changed bit makes the function 65 of an answer 193, the refusal of a mode change, for which `ILCBusList` has an
action that only warns: the call returns normally, `processChangeILCMode` was not called. Other frames can become it too, by a byte that is spoiled or lost; and a refusal that runs together with the next answer
swallows that one without a sign. `SensorMonitor` does not check checksums at all. TLC shows both when `Doubtful` is taken out of `Delivered`. A frame the FPGA did not finish with an end
mark is dropped silently. Waits of 4095 ms and more wrap (`& 0x0FFF`, FPGA.cpp:70). A force beyond 8388 N does not go
into the 24 bits it is sent in and wraps. ThermalILC.h:90 gives 0-2550 as the range of a fan speed that is an `uint8_t`. Modbus/Buffer.h says `writeCRC`
resets the checksum so that more commands can follow in the buffer, but it is computed over all of the buffer.

*ModbusBuffer.* With `handleMissingReply` overridden, a frame nobody asked for empties the queue, after which `checkCommanded` returns normally and its
action runs for a call that was never made (ModbusBuffer.cpp:324, against ModbusBuffer.h:107). `setBuffer` does not end a recording an exception
has left on, so that the next comparison can report a change where there is none, never the reverse. In the repository the class is used for its CRC, its FIFO
constants and in tests.

*MPU and transport.* `not_run` in `FPGASerialDevice::read` (line 57) is never false, so the loop asks the FPGA again
without the 10 ms in between; `execute_command` calls `next_message`, which sets the index back to the first command, after every
command, so a list in which the second command has another function than the first ends in `WrongResponse` (MPU.h:51 says that only a single
command shall be sent); `presetHoldingRegisters` does not change the cached registers, `presetHoldingRegister` does; words
are stored before the checksum is looked at, and stay when it is wrong.

*Programming.* The replies to erasing, writing and verifying (functions 100 to 103) are taken without their checksum (PrintILC.cpp:35-47), everywhere else actions call
`checkCRC`. The status of a verification that failed, spoilt to 0, ends `programILC` normally with an ILC that was told to run what it did not verify; a refusal of a page, its error bit
lost, passes for a page written. A response that ends early or fits no command raises `std::out_of_range` (Parser.h:136, BusList.cpp:60), which is no `runtime_error`, so one to the change into the bootloader is not
recovered from, as others are (PrintILC.cpp:101). If the ILC refuses the last changes to Standby and Disabled, `programILC` returns as if it had not (PrintILC.h:99). A hex file without data is only
noticed when its first record is looked for, after the ILC was erased (`front()` of an empty vector); records that overlap are put one behind the other, and after an empty
record within another the rest of that one is put there a second time: `Copied` is about files without (`Sane`).
`program-ilc` does not look at the list of exempted ILCs.

*Command line.* A line that begins with a space, or is empty, matches every command; the exact name of a command that is also the beginning of another is ambiguous;
`readStreamCommands` does not end on a line of 500 characters or more; `closeFPGA` does not test for null, and an FPGA whose `open` threw stays in `_fpga`;
neither `exit` nor the batch mode close it.

*CSC.* The signal handlers are installed before the fork, so the parent ignores SIGINT and SIGTERM while it waits. The alarm is not called off when the answer has
come, and one that comes right then reports a failed start of a daemon that runs. When the PID file cannot be written the parent reports failure and the daemon goes on
until its report. The PID file is never removed. Watcher and controller are stopped by a destructor, after the FPGA was closed: a
wait for interrupts in between ends the process by an exception. While an interrupt is not acknowledged, or has no handler, the watcher queues tasks without a
pause. A thread that calls `runningThreads` or `addThread` while `stopAllThreads` holds the mutex makes the stop time out and throw.
`CSC` has a `_name` of its own that stays empty, and gives it to the log sinks. No option enables the sink for daily files.

*Arguments.* Letters written together of which the last has its value in the next argument (`-dc path`) are refused, because the first loop takes the value for the command; `-`
alone, and what is between `--` and the command, are lost silently: `AsGiven` leaves these out (`Plain`).

*PID.* While frozen, `process` returns the new output plus the kept one, though PID.h says the output is kept constant; `LimitedPID::process` does not add the offset, which
decays all the same; every other caller of `get_offset` makes it decay faster; `update_parameters` keeps it. PIDParameters.h:77 says a load with defaults raises on errors, but a
malformed value silently becomes the default. A load that throws leaves new and old parameters mixed, one of aliases a partial table.

*Commands.* When `validate` returns false nobody is told, and a task that is queued when the controller is stopped is never acknowledged.

*Elsewhere, by reading.* U8ArrayUtilities.h:46 shifts the top byte of an I64 by 54; `Path::setRootPath` (Path.cpp:39) tests `st_mode & (S_IFLNK|S_IFDIR)`, which regular files pass.

## 5. Theorems

All are about every value of the constants that satisfies the assumptions named in the modules that declare them:
any number of clients and tasks, any delays, unbounded clock and queue
bounds; any commands, lengths of lists and numbers of calls pending; any registers, answers and amounts of leftovers; any devices and functions;
any units, buses and files; any parameters, settings and sets of commands; any threads. The assumptions are about what constants are, except those of
ModbusBuffer: functions that report errors are others than those they report them of, and a frame nobody asked for fits none of the calls.

- **ControllerThread_proofs**, of the operators of TaskHeap: `PushKeepsHeap`, `PopKeepsHeap`, `HeapTop`. The visited positions form one branch;
  along it, the entries moved keep their order with parent and children. The proof is about the least closed set
  itself: to show that all its members have a property, show that the property defines a closed set.
  `PushAdds`, `PopTakes`, `RemoveTakes`: as bags, the vector gains the pushed entry, loses the top, loses
  the copies of a task, and nothing else, heap or not. The places of the vector before and after are matched one to one (`Permutes`, `Matches`):
  the path of a push or a pop is one branch (`RiseBranch`, `HoleBranch`) that ends in one place, so no two
  entries move to the same place; the members of a set of positions have different ranks.
- **ControllerThread_proofs**, of the thread and its clients:
  - `TypeCorrect`. `TypeOK` is not inductive: `Reschedule` pushes the task in hand, so the invariant adds that
    the one in hand is a real task (`TypeInv`).
  - `NoneEarly` (`NeverEarly`): strengthened by `TimeInv`, the task in hand is due at `now` and `now` is not
    later than the clock. Needs nothing of the mutex, so it holds when tasks throw.
  - `Guarding` (`QueueGuarded`): inductive with `TypeInv`.
  - `RunsEarliest` (`EarliestFirst`), assuming nobody calls `remove`: from `Guarding` (nobody changes the queue
    between the look at its top and the pop), and `HeapKept` (every step leaves a heap, by the lemmas above).
  - `WakeupsKept` (`NoLostWakeup`), same assumption: strengthened by `SleepInv`, what the controller saw before its
    wait is still true when it begins to wait.
  - `RefinesPool` (`ImplementsPool`), assuming no task can throw and there is a longest delay (`TaskPool` has a set of times), `remove` included.
    The mapping takes the queue to its bag and the program counter to the running entry; under `RefineInv` (the invariants above, `TopTaken`, and `StartsAlone`: a `start` that was
    let in finds no thread) the pop is `Start` of the entry in hand, rescheduling is `Finish`, each method that changes the queue its action of
    the pool, everything else a stutter. After a task threw it is false: a client can change the queue before the pop, which then takes another entry than the one run.
- **Thread_proofs**: `LifecycleHolds` for all callers and timeouts; `JoinsAreSafe` (`JoinSafe`) assuming
  calls are serialized and `start` does not time out, exactly what the observations on `Thread` show to be needed.
- **ILCCommands_proofs**: `ExchangeTypes` (`TypeOK`); `AnswersAreHandled`, `NeverOverrun`, `OnlySuspectsBlamed` (`AnswersHandled`,
  `NoOverrun`, `Blameless`). They rest on `InStep`, the invariant of a clean call: while it waits, what was received are
  answers of commands already sent, in their order, and whoever is missing among them is a suspect (`Waiting`); while it parses, the
  index has not passed the command of the next frame, the frames left and those handled make up all that were
  answered, and commands that were passed belong to suspects (`Walking`). The subtle case is that of equal commands:
  the answer of the second may be taken for that of the first, which then was the silent one, so their common address is a suspect
  and the walk, now behind the true place, only has more commands to pass before the next frame's.
  `LastModeIsTrue` (`LastModeTrue`) adds `ModesInStep`: what an ILC reported last is told by the last frame of its address that is
  waiting or yet to be parsed, or is already stored and no frame left tells another mode.
- **Modbus_proofs**:
  - `FrontIsThere` (`FrontThere`), from `Enough`: while a list is executed there are at least as many infos as
    commands not yet done. Each command takes one element at most, by its action or by `missing_response`, never both, because
    only an empty answer is missing and only one of four bytes reaches an action. Infos left over can only make the list longer.
  - `AllIsStored` (`ReadsTrue`) and `StoredRight` (`StoredWhereRead`), from `Exchange`: in a call that began with nothing left of earlier ones the infos
    are those of the commands from the one in execution on (`Aligned`), its answer is still to come (`Awaited`), or what was read and
    what is on the line make the front part of one (`Replied`), and everything else the device said is stored (`Kept`, `Noticed`). However the pieces
    come, an answer is stored whole or the call does not end normally, because only a whole proper answer passes the checksum (`Full`), and what an action takes
    out of a front part of one is what it says (`EffectStored`). `Footed` says that a call which begins with nothing left of earlier ones stores where it was read: what a changed answer, if no byte of it was changed, does is
    throw before it stores, or store what it says. A single command answered with nothing, or with four bytes or more of a proper answer (`Fair`), has its info taken, by
    `missing_response` or by an action, so none is left over (`Single`). `StoredRight` assumes `Tagged`: the values written
    to registers carry the register in their high byte, as the readings do. It is how `StoredWhereRead` tells where a word belongs, and true of the requests of MCMPU.
  - `AllAreAccounted` (`AllAccounted`) of the older master, from `Accounts`: as long as all went well, the calls still commanded are the last
    ones made (`Queued`), the frames on their way answer some of these in their order (`OnItsWay`), the frames in the buffer come before them (`Ordered`), and
    each call that is not commanded any more was run, in order, or is in `missing` (`Ran`, `Strict`, `Noted`). Calls that are equal cannot be told apart by the
    code, so with a subclass that carries on after a missing answer the property speaks of buffers in which none is repeated.
  - `ChangesAreNoticed` (`ChangeNoticed`), from `Watched`: what is cached for a device ends with the data it gave last, so a
    comparison that finds it unchanged compared those.
- **Control_proofs**:
  - `ArgumentsAsGiven` (`AsGiven`), for any letters, options and commands: `Placed` says where in a sequence made of sequences each of them lies, and is used twice, of the
    arguments that options are written in (`Laid`) and of the calls of `processArg` they ask for (`Asked`). The first loop passes one option in a turn (`TurnsAt`) and so ends
    at the command (`Starting`). The invariant is that getopt stands at the letter after the ones it has processed (`Standing`), of as many options and letters as calls were made;
    each of its steps makes the next call (`Letter`). `Plain`, the hypothesis in the property, is what makes a turn of the loop and the steps of getopt pass the same arguments.
  - `NeverWindsUp` (`NoWindup`) and `OffsetThaws` (`ThawsSmoothly`) of PID. The arithmetic of a step of thawing is a lemma (`ThawedOffset`); the rest
    needs the types (the products of the filter are integers, `ControlInt`).
  - `OneAnswerOnly` (`OneAnswer`, the safety half of `Answered`): `Heard` says for each place a command can be at what its sender has heard so far;
    each action moves one command (`Touched`) and tells its sender what the new place says (`HeardStep`).
  - `LastLoadOnly` (`OfLastLoad`): what is in the table is, name by name, the last entry of the file that was loaded (`LoadedIs`: the fold over the
    entries has a last place for each name, `GreatestPlace`), and what `getPath` returned was read from it.
- **FPGACli_proofs**: of an operator's session with any ILCs, and programs that are updated in it:
  `OnlyAskedSent` (`OnlyWhatWasAsked`), `FirmwareInBootloader` (`OnlyInBootloader`), `VerifiedBeforeLeaving` (`NeverRunsUnverified`), `TimeForChanges` (`TimeEnough`)
  and `ProgrammedTrue` (`Programmed`): an ILC whose update ended was verified, is Disabled unless it refused or changed its mode by itself (`Updated`), and its flash
  has what the file says, byte for byte (`Copied`). The invariant has six layers, each kept by a step with the help of those before:
  - `Control`: `programILC` has a stage if and only if `program-ilc` runs, and exchanges and replies belong to a command;
  - `Listed`: what `runILCCommands` sends is what is left of what the command has put in the lists, none of it for an exempted ILC;
  - `Course`: `programILC` sends what its stage wants and holds replies to nothing else. Only the stage that leaves Enabled mode has two commands;
  - `Known`: of an ILC that did not change its mode by itself since the update began, the mode the program believes in is the one it is in, or both are modes of the application; and
    when a stage begins it is one that stage may begin in (`Basis`). An exchange under way either has not been heard yet, or has an answer
    that says what happened, or is one that may say anything because nobody checks it, which is not so of any reply a mode is read from (`Underway`, `Result`);
  - `Assured`: the way back to the application is only taken after a verification that came back and found the image valid, or came back falsely so (`Vouched`);
  - `Burnt`: after `k` pages were written, and whatever became of the exchange under way, the flash has the first `k` pages of the file and nothing else (`Holds`), what is still
    to be written are the others (`Writing`), as long as no erasing or writing failed and looked done (`Proper`), and the statistics sent are those of the same file. `Shaped` is the types this needs.

  That the pages are what the file says is proved of the operators, for any file that makes sense (`Sane`): the lines sorted by where they begin do not overlap, each byte of
  the image is that of the line that covers it or fills a gap, and the last page is filled up so that the pages cut the image without a rest (a page is a number of instructions).

  What the sessions have in common is `Moves`: each action of `CliNext` is one of a few effects on what the invariant looks at. `AmongType` is about
  the loops that leave out exempted ILCs and empty lists (`Among`), by induction on their length (`SetInduction`, `IterationExists`).
- **ILCReplies_proofs**: `AnswersDelivered` (`Delivered`), for any lists, lengths of names and numbers of sensors. What a line can do to a frame is checked frame by
  frame, and what becomes of it follows a call from the bus to the methods:
  - of the operators: the k-th field of an answer lies behind those before it (`Placed`), so what `Payload` writes `Fields` reads (`ReadsBack`); a layout that does not throw has the
    sizes of the answer (`AnswerLaid`), so a method gets what its ILC has said (`ArgumentsBack`). For each function the FPGA waits as long as its ILC may take (`Timely`).
  - of the line: a frame that was spoiled, cut or lost a byte has a checksum of nothing, alone or behind a whole frame (`MangledIs`), and so has a whole frame behind
    whatever it was joined to (`JoinedBad`): it is `Bad`. What is left of frames are bytes of answers and refusals (`Honest`), and
    whatever `parse` reads as address and function, an action that comes to its end was given all that an ILC has sent in one frame (`ParseSealed`), whose address and function can only be read as themselves (`From`).
  - `RepliesInv`: the words left are three to a frame, up to the one being decoded (`Shaped`). As long as nothing was spoilt or joined (`Clean`) the frames left are those of
    the ILCs behind the last one that is done with, in their order (`Follows`, `Framing`), and the calls so far are those due up to it (`HandedSo`). As long as all actions check the checksum (`Sealing`: no sensor values)
    every byte is honest; and if no refusal has an action either (`Steady`: no change of a mode), then once something was spoilt or joined a frame that is bad is on its way (`Guarded`), so that the call cannot end normally.

  A checksum is that of one payload only, as the model has it; that the CRC of 16 bits tells payloads apart that differ in a byte or a bit is what `Understood` checks.
- **CSC_proofs**: `FPGAUnused` (`ClosedFPGAUnused`): a thread that has begun and not ended is in the list (`Listed`), which is empty from the end of
  `stopAllThreads` on (`ClosedInv`). It needs that the list is emptied before `close`, also in the presence of a stop that throws half-way.
  `StartIsAgreed` (`StartAgreed`): `StartInv` follows the ends of the pipe: as long as the daemon has its writing end nothing was written; nobody but the parent
  has a reading end; so a parent's answer is the daemon's, and a report without a reader ends the daemon.

The library's theorem of induction takes the property as an operator, which the provers cannot instantiate; where induction is needed it is stated for a set
(`SetInduction`, `LeastPlace`, `GreatestPlace`), from the well-foundedness of `<` on the naturals.

Only model-checked:

- `Understood`, of the invariants: it is about the bits of a checksum and powers of 256, which the model computes with folds that the provers cannot expand, and its
  proof would need the algebra of the checksum's register by an induction over data;
- everything under fairness: liveness and ENABLED are out of this prover's reach;
- the order of tasks after `remove`, which breaks the heap (finding 1).

## 6. Plan

Done: all of the above. What could still be added, most valuable first:

1. A proof of `Understood`: an algebra of the checksum's register, with the folds of ILCRequests written as recursive functions.
2. An abstract promise of `ilcCommands` (every command is answered, refused or blamed, in the order of the list) and its refinement by ILCCommands.
3. `~Thread` while other threads use the object; opening and closing of the serial transport.

## 7. Not modelled

- `LimitTrigger`, `RoundRobin`, `Range`, `Limit`: small sequential classes that nothing else in the repository uses.
- What actions compute from the bytes they read (calibration data, status texts), error texts, printing, help and history: formatting.
- `SALSink`, `Path`, debug files, telemetry records, `SimulatedMPU`, `SimulatedILC`: I/O and test doubles.
- Rounding: PID and ILC values are integers, or their bits.
- Stopping a thread object while another is inside one of its methods.
- `NiFpga.h` and `rapidcsv.h`: vendored.
