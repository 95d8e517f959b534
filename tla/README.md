# A verification of the phicomm TC1 A2 firmware

The firmware under `src/src` drives a power strip with six relays, one key and
one LED on a High-Flying LPT230 module.  This directory holds TLA+ models of it,
the TLC configurations that check them on small instances, and theorems about
them that the TLA+ proof system checks for every value of the constants.

Paths such as `user_gpio.c:72` are relative to `src/src`.  The SDK (`src/sdk`)
is a closed library with headers; a definition that stands for it is derived
from how the application uses it.

## 1. The system

### 1.1 Components

| component | state | operations | interacts with |
|---|---|---|---|
| relay bank, LED (`user_gpio.c`) | GPIO pins; `u_config.plug[i].on`, `user_defaultconfig.plug[i].on` | `user_relay_set`, `user_relay_set_all`, `relay_out`, `user_led_set` | called by every other component, without a lock |
| key (`user_gpio.c`) | `key_time` | 50 ms timer callback, edge interrupt, `key_init` | relays, LED, SmartLink and reboot, device report |
| timed tasks (`user_rtc.c`) | `rtctimes`, the shared `struct tm`, `u_config.plug[i].task[j]`, `task_flag` | seconds timer, `rtc_thread_func`, `update_rtctime` | relays, NTP, outgoing queue; tasks are written by commands |
| UDP (`user_udp.c`) | socket, `udp_msgq`, heap messages | `udp_thread`, `user_udp_send` | commands, everyone who sends |
| commands (`user_function.c`) | `deviceid`, `u_config` | `user_function_cmd_received`, `json_plug_analysis`, `json_plug_task_analysis` | called by `udp_thread`; partly by httpd |
| web pages (`httpd.c`) | `httpd_pages` | `httpd_add_page`, `httpd_callback`, `switch_cbk`, `status_cbk` | relays, commands; runs in the SDK's server thread |
| boot (`app_main.c`) | what has been started | `app_main`, `key_init`, `httpd_init` | starts everything |
| type record (`app_main.c`) | user flash file | `dev_param_read`, `dev_param_write`, AT+TYPE | read at boot |
| power meter (`user_power.c`) | pulse counters, `power` | none that runs: its init is called from nowhere | status page shows `power`, always 0 |
| mDNS, flash demo, cJSON | none of interest | | |

### 1.2 What is hard

- **Six contexts, no lock.**  `udp_thread` and `rtc_thread_func` run at priority
  1, the web server at 2 (`app_main.c:393`), above them the timer task and the
  interrupts.  The only mutex (`user_gpio.c:248`) is created and never taken.
  Every record of a relay, the LED, every task and the queue handle is a plain
  shared variable.
- **An interrupt that clears what a callback increments** (`key_time`), with
  actions at thresholds, one of which reboots the module.
- **A queue replaced by every sender** and read once per received datagram.
  `udp_thread` is itself a sender: a command it handles may call `user_udp_send`
  twice before the same round of its loop reads the queue once.
- **A clock in two parts** (a counter that NTP sets, a broken-down time that only
  the timer refreshes) which a busy loop compares with tasks that another thread
  rewrites field by field.
- **A server started first.**  The web server runs while the rest is set up, and
  searches a table that is being filled.
- **Bytes**: values other than 0 and 1 for a relay, `uint8_t` counters, an
  unsigned `char` used with a sentinel of -1 (the Makefile's `-funsigned-char`),
  a shift by -1, a checksum modulo 256.

### 1.3 What makes each component correct

- Relays: when no call is in progress the pin and both records of a plug
  agree, unless calls for that very plug overlapped; the LED shows whether some
  plug is on, unless an overtaken answer was written last.
- Key: one toggle per press under contact bounce, and two at most where the
  interrupt struck a callback that was counting; SmartLink only after a hold, with
  the same exception; no overflow; the LED goes dark in the end.
- Queue: nothing is sent twice, out of order, or after being freed; the current
  queue is emptied again and again while datagrams come; what `udp_thread`
  broadcasts of its own is the last thing it sent.
- Commands and queue together: an answer on the network tells what holds at the
  moment it is broadcast.
- Tasks: a once-only task fires once and is disarmed, if the clock ever shows its
  hour and minute; a due task is served in
  its second; nothing fires that was not due; nothing that did not fire is
  disarmed.
- Commands: what a command asks in the right form is stored, numbers as bytes,
  and nothing else is, but for what a text that its array cannot hold ran over;
  the answer tells the truth; other devices' commands change nothing; a
  repeated datagram is harmless.
- Pages: the search stays in the table and finds a page's own callback;
  `/switch` sets all plugs or none; every request ends.
- Boot: nobody switches a plug on before the records are cleared.
- Type record: what was stored is read, and a record stored in part is noticed.

## 2. The modules

| module | role |
|---|---|
| `Relays`, `RelaysProofs` | relays, records and LED, one shared access per step; theorems |
| `KeyScan`, `KeyScanProofs` | the key's counter, callback and interrupt; theorems |
| `LossyFifo` | what the outgoing path promises: an abstract specification |
| `UdpQueue`, `UdpQueueProofs` | `user_udp_send` and `udp_thread`; implements `LossyFifo`; theorems |
| `Scheduler`, `SchedulerProofs` | the clock and the timed tasks; theorems |
| `Command`, `CommandProofs` | a JSON command from its parsing to its answer; theorems |
| `Exchange`, `ExchangeProofs` | `UdpQueue` and `Command` composed: `udp_thread` as a whole; theorems |
| `Boot`, `BootProofs` | the start of the firmware, and the web server during and after it; theorems |
| `DevParam`, `DevParamProofs` | the type record in the user flash file; theorems |
| `MC...` | constants of the TLC runs |

Definitions named *mutant* in a comment are deliberate errors, used to see that
a property notices them; no specification uses them.

### 2.1 Relays

Variables: `gpio[i]` (the pins), `cfg[i]` and `dflt[i]` (`u_config` and
`user_defaultconfig`), `led`, and for every context its program counter and the
locals of the call it is in.  Each step of `user_relay_set` is one access:
`WriteGpio` (72-74), `WriteDefault` (76), `WriteConfig` (77), the plug-by-plug
`relay_out` (`ScanLit`, `ScanNext`, `ScanDark`) and `WriteLed` (34-47).
`user_relay_set_all` is a sequence of such calls for the plugs 0 to N-1, as are
the web page and a command with several plugs.  `MayRun` is preemptive
scheduling: a context moves only if no context of a higher priority has work in
hand.  The auxiliary variables `raced`, `stale` and `ledStale` record that two
calls for one plug overlapped, or that an answer of `relay_out` was overtaken by
a change; no action reads them as a guard.  The values 0, 1 and 2 stand for the
bytes a command may carry (0, 1, and any other, which `user_relay_set` stores
but shows as low on the pin).

### 2.2 KeyScan

Variables: the key's level, `key_time`, the callback's program counter and its
register, relays as one bit, LED, SmartLink.  `key_time++` is `Load` and
`Store`; the interrupt may strike between any two steps of the callback.  The
thresholds are constants with their order assumed (`ThresholdsAssumption`).
`held`, `edge`, `answered` and `torn` are auxiliary.  `torn` is set by an interrupt
that strikes a callback between its sample and its last test: the store of
`key_time++` then brings back the count the interrupt cleared.  The properties say
what this can do and what it cannot.

### 2.3 LossyFifo and UdpQueue

A message is `<<sender, n>>`, and a queue is named after the message for which
it was created.  `Create` replaces `udp_msgq`, `Fetch` reads the handle for
`hfmsgq_send`, `Put` uses it: another sender may come in between.  The receiver
`Select`s, `Echo`es (after the command, which may call `user_udp_send` itself),
reads the handle, and receives, broadcasts and frees one message.  `LossyFifo`
promises: a message is delivered at most once, in the order of each sender, only
if it was accepted; any may be lost.  `Channel` is the instance of `LossyFifo` under the
refinement mapping, the identity on the two histories `accepted` and
`delivered`, and `IsLossyFifo` states the refinement.

### 2.4 Scheduler

`rtctimes` and `t_t` are the counter and the broken-down time; both are kept as
seconds of one week, and a week is scaled down by constants (`SPM`, `MPH`,
`HPD`, `DPW`).  `Tick` is the timer; `Loop`, `NtpAnswers`, `NtpFails`, `Look`,
`Match`, `Fire`, `Switch`, `Disarm`, `Report` are the thread; `BeginEdit` and the
`WriteField` steps are `json_plug_task_analysis`; `SetRelay` is everyone else.
What a user asks for is an `Order`, five integers (`repeat` by its bits, of which
there may be more than eight); each becomes a byte (`Byte`) when it is written,
and nobody checks it.  So a task may be armed for an hour or a minute that no
clock shows, and stays armed for ever; `OneShotFires` is about those the clock
does show (`Shown`).
The fields of the one `struct tm` are compared one per step, in the order of
the expression at `user_rtc.c:60-62` (second, minute, hour, day): the timer may
refresh the struct between two of them, and so may `PrintTime`, which is the
`printtime` that the key's timer callback calls after 50 samples.
The shift by `tm_wday - 1` on Sunday is by -1; whichever shift the compiler
chooses, the Cortex-M4 shifts by 255 and the result is 0.

`passed` is the one auxiliary variable that guards an action: `Tick` waits for
a whole pass over the tasks.  This is the timing assumption that a pass (30
comparisons, one NTP query with a timeout of 200 ms) fits into a second.
Without it a due second could be slept through, as it could on a processor
slow enough.  `was` records whether the task in hand was due at some moment
since the thread took it up, or the clock jumped.  `calm` and `touched` tell the properties whether somebody
interfered; no action reads them as a guard.

### 2.5 Command

The configuration is a function from cells (settings, and the switch, name and
tasks of every plug) to values, and a command asks something, nothing, or
something of the wrong form of every cell.  `Receive`, `Report`, `Dispatch`,
`DoSettings`, `PlugOn`, `PlugName`, `PlugTask`, `PlugAnswer` and `Send` are the
branches of the three functions in the order of the code, one step per plug
entry; `SetRelay` and `Disarm` are other contexts and may come between any two.
JSON integers become bytes on their way into a switch or a field of a task, and
stay what they are in `mqtt_port` (`Stored`).

A text is not copied but printed, `sprintf(dest, text)`, into an array of 32 bytes.
`Plain` are the texts for which this is a copy: shorter than the array, and without
a `%`.  For any other (`Wild`) the model does not say what is stored but where: the
cell becomes `Lost`, and so do those behind it in memory (`Place`) up to any
`end`.  `Lost` is not a value but the absence of one; the properties excuse the
cells that were lost to a text of the very command they speak of (`Endangered`),
and those alone.  `deviceid` is a variable of its own, which the linker may put
ahead of `u_config`; the model takes it for the first of its cells, so that a text
in it may run over all the others.  The rtc thread may take lost bytes for a
task's and clear one of them, which leaves them lost.  `before`, `touched`,
`again` and `sent` are auxiliary.

### 2.6 Exchange

The loop of `udp_thread` is the place where a command is handled and where its
answer is broadcast.  `Exchange` owns the variables of both modules, instantiates
them as `Q` and `C`, and says how they move together: `Arrive` is `select` and
the beginning of the handler; `SendReport` and `SendAnswer` are a step of the
handler and a call of `user_udp_send` by `udp_thread`, and the handler stands
still until that call is over; `Return` lets the loop go on.  All else (`Handle`,
`Loop`, `OthersSend`, `OthersWrite`) is a step of one of the two modules.
`letters` keeps what each message of `udp_thread` says, and `since` the cells
others wrote since the last command for this device; both are auxiliary.  Lost
bytes in an answer (2.5) may be anything on the network.

### 2.7 Boot

`bpc` walks through `app_main` from `hfnet_start_httpd` to the wait for the
network.  The starts of the server, of the mutex, the interrupt and the timer of
the key, and the registration of the url callback have both outcomes, and
`key_init` returns early on two of them; `RtcInit` and `UdpInit` are taken to
succeed.  A page is added in two steps, url and callback
(`httpd.c:132-133`).  The server's thread takes a `Request`, `Search`es one
entry per step, `Call`s, and `Switch`es or reads (`Status`) one plug per step.
The key (`Sample`, `KeyPress`) and the threads (`ThreadSets`) act as soon as
they have been started.  `Sample` does not happen between `hftimer_start` and
the step that follows it, because the timer's first period is 50 ms.

### 2.8 DevParam

`flash` is the record: tag, checksum, text, terminator, and bytes that were never
assigned, which may be anything.  `SetType` stores the first n bytes of it for
any n: `hffile_userbin_write` returns how much it stored
(`sdk/4.13/include/hsf/hffile.h:59`) and the code does not look.  `Read` is
`dev_param_read`, used by AT+TYPE and by `PowerOn`.  A mix of records may hold no
terminator; `strlen` then runs over the end of the array, to at least 19, and the
text is refused.  That no longer text than 18 bytes gets out, and with its
terminator fits the 21 bytes of the caller, is the part of `TypeOK` on `airlink`.

## 3. Properties and runs

| run | instance | checks |
|---|---|---|
| `relays` | 2 plugs; two threads, the key interrupt and the timer; values 0, 1, 2 | `TypeOK`, `AgreesUnlessRaced`, `LedFollowsRecords`, `IInv` |
| `key` | thresholds in the code's order, interrupts anywhere | `TypeOK`, `CountBelowWrap`, `IInv`, `ToggleOncePerPress`, `SmartLinkAfterHold`, `LedGoesDark` |
| `udp` | 3 senders, queues of 2, failing calls | `TypeOK`, `OneOwner`, `OnePerSender`, `OwnAnswerIsLatest`, `IsLossyFifo`, `ServedWhilePackets` |
| `sched_week` | 1 plug, 2 tasks, 2 edits, NTP off by a second either way | `TypeOK`, `OneShotFiresOnce`, `DueIsServed`, `DisarmsWhatFired`, `FiresWhenDue` |
| `sched_live` | the same without drift | `OneShotFires` |
| `command` | 2 plugs of 2 tasks, 3 settings, 5 commands in any order, numbers beyond a byte and texts too long among them | `TypeOK`, `CarriedOut`, `AnswerIsTrue`, `SentAsAsked`, `RepetitionIsHarmless` |
| `exchange` | 2 senders, 3 calls; 1 plug of 1 task; 4 commands | `TypeOK`, `BroadcastIsTrue` |
| `boot` | 2 plugs, 3 pages in a table of 4 | `TypeOK`, `SearchStaysInTable`, `OwnCallback`, `SwitchIsWhole`, `StatusIsTrue`, `DefaultsComeFirst`, `RequestsEnd` |
| `type_record` | bytes 0 to 2, texts of up to 2 | `TypeOK`, `StoredIsRead`, `MixIsNoticed` |
| `relays_record`, `udp_sent`, `sched_repeat` | violations, see 3.3 | |

What some of them mean in words that are easy to misread:

- `AgreesUnlessRaced` and `LedFollowsRecords` do not say that relays are safe
  without a lock: they say exactly what a race can spoil, and that nothing else
  can.
- `ToggleOncePerPress` and `SmartLinkAfterHold` are about an interrupt that did
  not strike a counting callback.  If it did, the relays may toggle twice for
  one press (the run reaches this, and the first conjunct says that they never
  do so three times), and SmartLink may start after a hold that is shorter by
  what was counted before the edge.
- `CarriedOut` says nothing of what a text that is not plain becomes, and says of
  everything ahead of such a text, and of all commands without one, that it is
  what was asked for, as bytes, or what it was.
- `OwnCallback` allows NULL to be called for the page that is being added at this
  very moment; that window is in the code.
- `OwnAnswerIsLatest` is the bright side of a loss: the answer to a datagram
  replaces the queue with the report to the same datagram in it, so that a
  command that asks for both gets the answer and never the report.
- `BroadcastIsTrue` is what that loss buys: a stale answer never gets out,
  because the queue it waits in is dropped by the next one.  With a queue that
  is created once, a stale answer is broadcast.
- `FiresWhenDue` does not hold of any single moment: a carry of the clock between
  two comparisons lets the thread see fields of two seconds.  Since the second,
  which is the last to become 0 again, is compared first, the mixed time always
  lies in the minute the thread began in.  Excused are a task edited meanwhile
  and a clock that jumps (NTP).
- `MixIsNoticed` is as much as an additive checksum can do: two changed bytes
  may cancel out.

### 3.1 Bounds and why they suffice

- Relays: a race is between calls for one plug, or between a call and a scan
  of the others; two plugs have both.  A third thread of the same priority
  adds only another place for the same overlap.  The theorems hold for any
  number of plugs and threads; their proofs do not use the priorities.
- KeyScan: the run has the thresholds 2, 20, 40, 44, 50, 51 and 43 where the
  firmware has 2, 20, 180, 190, 203, 204 and 189: the order and the wrap are the
  same, only stretches of mere counting are shorter.  The theorems cover every
  choice in this order, the firmware's own included.
- UdpQueue: a queue holds two items and three overlapping senders exceed it.
  `MaxSends` bounds the calls of a sender to 3 and `MaxCalls` those of all to 4:
  enough for each sender to be replaced, blocked and overtaken.
- Scheduler: two tasks of one plug can contest it; two edits can follow, or
  rewrite, each other; a week of 16 seconds has a Sunday and a Monday, minutes
  with and without NTP, and wraps.  `MaxEdits` bounds the edits.  Among what may
  be asked for are integers below and above a byte, one of which becomes the
  hour 0 of another task, a task whose `on` of 256 switches it off, and one for
  hour 2 of a day that has the hours 0 and 1.
- Command: the five commands hold every kind of entry in the right form, in a
  wrong one, and missing; numbers beyond a byte in a switch, in a task and in the
  port, where they are stored whole; a text too long among the settings, with
  settings behind it and switches behind those, and one as a name; every kind of
  address; and two commands for the same cells.
- Exchange: three calls are enough for an answer to wait while the other sender
  replaces the queue and the next command is answered, and for a report before
  an answer.  One plug with one task has every kind of cell others write, and a name
  too long may run over both of the others.
- Boot: a table with one free entry behind its pages is the smallest one that
  ends the search; two plugs are enough for a switch to come between them.
- DevParam: `Byte`, `Tag` and `Limit` scale 256, 0x5A and 18.  Two bytes may
  cancel out modulo 3, and texts of 0, 1 and 2 bytes can be mixed in any order;
  a text of 3 is refused.

### 3.2 Fairness

- KeyScan: the timer callback (a periodic SDK timer) and a pending interrupt run
  (`WF`); the key itself is under no obligation.
- UdpQueue: `udp_thread` and every caller that has begun proceed (`WF`); no
  datagram is owed (none on `Packet`).
- Scheduler: the timer ticks, the thread loops and an edit that has begun ends
  (`WF`).  The thread at priority 1 never sleeps, and the SDK's scheduler shares
  the processor among threads of one priority.  No NTP answer is owed.
- Boot: a request that has begun is worked on (`WF` on the server's own steps);
  no request is owed, and the boot may hang forever waiting for the network.

### 3.3 Where code and comments disagree

- `relays_record`: `appmain.h:40` says `plug[x].on` is the current switch; two
  overlapping calls leave it different from the relay.
- `udp_sent`: `user_udp.c:89` says `udp_thread` receives messages "to be sent";
  an accepted message is lost once the next call has replaced the queue, and
  waits forever if nobody sends a datagram.
- `sched_repeat`: `appmain.h:32` gives bits of `repeat` to Sunday and to *once*;
  neither has an effect in the code.

Two more are visible in the code without a run: `user_gpio.c:86` says that
`user_relay_set_all(1)` follows the records, and the code switches all plugs on;
and `task_flag[i] >= 0` (`user_rtc.c:99`) holds of every unsigned char, so a
report carries a task of every plug.

## 4. Proofs

**Relays** (`RelaysProofs`).  `IInv` is inductive: `TypeOK`; the pin and the
records of a plug agree up to what the one call in progress for it has still to
write, unless that plug is `raced`; and the LED equals `relay_out` of the records,
or some context has an answer still to write, or the last answer written was
overtaken.  The second and third are too weak alone: they are about the moments
between calls, and the invariant says what each program counter owes.  The step
lemma has one case per action.  `TypeCorrect`, `PlugsAgree` and `LedIsRight`
follow.  Assumed: the set of plugs is 0..N-1, contexts are distinct, the values
are bytes.

**KeyScan** (`KeyScanProofs`).  `Invariant` relates the count to the samples
since the last edge, at each program counter; `CountStaysBelowWrap`,
`SmartLinkNeedsHold` and `TogglesOnce` follow, the last two as action
properties.  The relation of count and samples is lost when the interrupt strikes
a counting callback (`torn`), and so are the claims about a full hold and about a
single toggle; both theorems except exactly this case.  What `TogglesOnce` says
in every case, that the relays toggle at most twice between two samples that see the
key down, comes from `AnswerInv`: an interrupt that acts on a press clears the count,
and the callback it struck can bring the count back by its store, but only once
before the next sample.  Assumed: the order of the
thresholds.

**UdpQueue** (`UdpQueueProofs`).  `TypeCorrect`, `OneOwnerHolds`,
`OnePerSenderHolds`, `OwnAnswerHolds` and `Refinement` (`Spec => IsLossyFifo`)
come from one inductive invariant, for any number of callers, calls and places in
a queue.  The properties speak of what was broadcast or freed; that they last
depends on what is still on its way, which the conjuncts of `IInv` say:
`CallsInv`, that the message of a call in progress was not accepted yet;
`HandlesInv`, that a queue not created yet is empty and no handle names it, so
that a new queue brings no old messages back; `PlacesInv`, that what waits or is
in `udp_thread`'s hands was accepted and not freed; `CurrentInv`, that the
current queue holds of each caller only its last message, and a queue a caller is
about to use none of its own (each call comes after a `Create`, its own or
another's, so the queue it finds is newer than its last message); `OrderInv`,
that of each caller what was broadcast is older than what `udp_thread` has or
is about to receive, and that older than what waits in a later queue.
`Refinement` then maps `Put` to `Accept` (by `CallsInv`), `Broadcast` to
`Deliver` (by `OrderInv`) and every other step to a stutter.  Assumed:
`udp_thread` is one of the callers, and NULL is no message.

**Command** (`CommandProofs`).  `TypeCorrect`, `CommandIsCarriedOut`,
`AnswerTrue`, `SentInOrder` and `Repetition`, for any number of settings, plugs and
tasks and any set of commands.  `CarriedOut` and `AnswerIsTrue` speak of the moments
at which a command is done; in between, the place of the handler (`pc`, the plug
`x`, the task `j`) determines which cells it is done with (`Done`) and which of
them the answer has (`Answered`).  `WriteInv` and `AnswerInv` say of each cell that
nobody else touched what it holds at this place, and each step of the handler
moves one group of cells from one side to the other.  The switches are the
exception that makes `Answered` differ from `Done`: they are copied into the answer
at the end of a plug's entry, whether asked or not.  For `Repetition`, `AgainInv`
says that a repeated command finds what it asks for already stored.  Assumed: the
sizes are positive; the numbers of a command are integers, any integers; a command
asks of a cell something of the right form, the wrong form or nothing; what other
contexts set a relay to is a byte; and there is a text that is plain, for the
defaults.  That a number is stored as a byte is proved, not assumed.  How far a text
that is not plain runs (`end`) is arbitrary in every step that prints one; the
invariants carry the clause that a cell may be `Lost` if it is `Endangered`.

**Scheduler** (`SchedulerProofs`).  `TypeCorrect`, `FiresOnce`, `Serves`,
`DisarmsRight` and `FiresRight`, for any lengths of a minute, an hour, a day and a
week, any set of corrections of the clock, any number of plugs, and tasks up to
what their byte counts.  What a user asks for is any set of five integers
(`InputsAssumption`: `NewTasks \subseteq Order`); that a task consists of bytes, and
that no more than a byte is ever compared, is part of `TypeCorrect`.  Two conjuncts of `IInv` carry the argument about time.
`WasInv` follows a thread that compares second, minute, hour and day one by one
while the timer may carry between two of them: as long as the task was not due
since the thread took it up, it is not due now; and once the second was found 0,
the task is not due in this minute at all.  It is preserved because a tick moves
the clock by one second, and a tick from second 0 carries into nothing (`NoCarry`,
from the uniqueness of quotient and remainder): the minute that is compared next is
still the one whose second was 0.  `CalmInv` is about a second in which nobody
interferes: every task due in it either is still to be met by the pass that began
in it (`fresh`) or was `Served`; a thread still at a task it took up before the
second began (`Stale`) can spoil nothing.  `LookInv` (an unedited task is on, and
the thread's copy of its `repeat` is right) gives `DisarmsWhatFired`; `ShotsInv` (a
once-only task that has fired is off, or is the one about to be switched off) gives
`OneShotFiresOnce`.  Assumed: a minute has at least two seconds, without which
every second is second 0 and a carry follows every comparison; other contexts
set a relay to bytes; the seconds a
clock is moved by are natural numbers; a plug has at most 256 tasks.

**Boot** (`BootProofs`).  `TypeCorrect`, `SearchInTable`, `CallbackIsOwn`,
`SwitchWhole`, `StatusTrue` and `DefaultsAreFirst`, for any number of plugs and any
size of the table.  That the search ends in the table (`SearchInv`) needs that the
pages filled so far are a prefix of it, whole but for the last one's callback, with
empty entries behind (`TableInv`), and that all of them leave one entry empty.
`EarlyInv` says that before the defaults are restored nothing that could switch a
plug has been started: no page, no thread, and a timer that has not fired.
`SwitchInv` and `StatusInv` are the loops half-way through.  Assumed: the pages do
not fill the table (there are 3 in `HTTPD_MAX_PAGES`, 10; only an empty entry ends
a search that finds nothing), and NULL is no url.

**Exchange** (`ExchangeProofs`) is composed like the system.  `QueueStep` and
`CommandStep` show that every step of `Exchange` is a step of `UdpQueue`, or leaves
its variables alone, and the same of `Command`; `IsUdpQueue` and `IsCommand` state it
of behaviours.  Hence what was proved of the parts holds of the whole, without
a second proof of it: `CommandHolds`, `QueueHolds`, and `Refinement`, that the whole
implements `LossyFifo` as well.  What no part knows alone is added by two
conjuncts: `TypeOK`, that the loop waits for exactly the sends the handler still
owes, and `LettersInv`, that the last message of `udp_thread` tells the truth but for
what others wrote (`LastIsTrue`), except while a command for this device is being
carried out.  `Truthful` then follows: what is broadcast is the last message
(`OwnAnswerIsLatest`, from the queue's invariant), and it is true (from the
command's) while no command is in progress (from `TypeOK`).  Assumed: what the
parts assume, `PartsAssumption`.

**DevParam** (`DevParamProofs`).  `TypeCorrect`, `Stored` and `Noticed`, for
any size of a byte, any tag and any longest text.  `ChecksumInv` says that the
checksum in the file is that of the last record whose checksum got there, or the
file was erased and never written that far; `WholeInv`, that a text stored whole is
there with its tag and its terminator.  `Noticed` needs to know what sums of texts
are.  `FoldSeq` adds the bytes in an order that CHOOSE picks, so three facts are
proved of sums over sets of places, each by induction on the size of the set, done
by hand with a least counterexample (`Steps`, `PlaceInduction`): the sums exist
(`LevelSums`), any place can be taken out of a sum (`TakeOut`), and two texts
have the same sum over places where they agree (`SameOn`).  `OneByte` concludes that a
byte changed, or one more byte, changes the checksum, because it moves the sum by
less than a byte's values.  Assumed: the tag is a byte that is neither 0
nor what an erased byte of the file reads, as 0x5A is; and texts may have a byte
at least.

Only model-checked: liveness (`LedGoesDark`, `ServedWhilePackets`,
`OneShotFires`, `RequestsEnd`), which the prover does not treat.  Every invariant
and every action property that a passing run checks is proved.

## 5. Not modelled

- Most of the repository by lines is not this firmware's logic: the headers and
  startup files of the SDK (`src/sdk`), the cloud clients under
  `src/thirdpartylib` and the programs under `src/example`.  The Makefile builds
  `src/src` alone (`APPDIR`, `src/Makefile:46-52`), and nothing there includes them.  The firmware itself is some 1800 lines under `src/src`, and the models
  stand for all of it that runs and keeps state.
- The text of messages, JSON parsing and printing (cJSON), the content of pages;
  hence also whether a text fits the buffer it is built or sent in
  (`user_udp.c:156`; the buffers of the two pages, `httpd.c:194` and 225, have no
  room for the terminator, and `/status` needs more still for a plug whose `on` has
  two or three digits), and whether a datagram fits the one it is received in
  (`user_udp.c:80` asks for up to 1024 bytes, `buf` has 512).
- What a text with a `%` in it or too long for its array becomes, and what it does
  to memory outside the settings, switches, names and tasks (2.5).
- The size of a queue's items: `hfmsgq_create(2,256)` (`user_udp.c:158`) is used
  with a pointer of 4 bytes, so that the SDK copies 256 bytes from one pointer
  variable and to another.  In `UdpQueue` an item is the pointer.
- In `Boot` a plug's `on` is 0 or 1, where a command or a task may store any byte;
  `Command`, `Scheduler` and `Relays` have the others.
- mDNS and the flash demonstration: pure input and output, or never called.
- The power meter: `user_power_init` has no caller, so neither its timer nor its
  interrupt ever runs.
- `select` errors, a failing socket, a failing `calloc`.
- What the report of a fired task carries beyond its being sent: `task_flag`
  at `user_rtc.c:99` never tests negative, as 3.3 says.
- The check of the pin map and the wait for SmartLink at the head of `app_main`,
  the LED during the boot, and the moment `strMac` is read (`app_main.c:420`): a
  report or an answer sent before carries an empty mac.
- The SDK's own state.

## 6. Plan

In the order of what matters most:

1. `Power`, if the meter is ever started: the counters with an interrupt between
   accesses, 32-bit arithmetic.
2. `Exchange` with the timed tasks of `Scheduler` as the writers that `OthersWrite`
   and `OthersSend` stand for, so that a fired task and its report are one story.
3. `Relays` shown to be what `Command`, `Scheduler` and `Boot` take for one step when
   they set a switch.
