# TLA+ models of the CY7C68013A firmware

This directory holds TLA+ specifications of the firmware, library and FPGA code
of this repository, TLC configurations that check them on small instances, and
proofs that TLAPS checks for every value of the constants.

- `tlc -config X.cfg M.tla` checks a configuration (the table under *Runs* says
  which module goes with which file);
- `tlapm M.tla` checks the proofs of a module: `HidOutputProofs`, `HidMainProofs`,
  `I2cProofs`, `FirmwareProofs`, `SetupDataProofs`, `LoopbackProofs`, `StreamsProofs`,
  `DriversProofs`.

## 1. The system

A CY7C68013A (EZ-USB FX2) is an 8051 CPU beside a USB *serial interface engine*
(SIE). The SIE receives and sends packets on its own: it fills or empties
endpoint buffers, raises interrupts and answers NAK as long as no buffer is
armed. All the CPU does is arm buffers, read and write them, and set or clear
bits in registers that the SIE changes as well. Every firmware of the repository
is one main loop plus a few interrupt routines, without an operating system.

| component | state | operations | talks to |
|---|---|---|---|
| USB framework, `fw.c` (copies in `hid_tm1638`, `blinky_fw`, `fifo_slave/ep2_out/blinky_fw`, `fx2lib/fw`) | `dosud`, `dosuspend` | main loop; SUDAV, USBRESET, HISPEED, SUSPEND, RESUME routines; sleep and remote wakeup | SIE, `setupdat.c`, the application's `main_init` and `main_loop` |
| setup data, `fx2lib/lib/setupdat.c` | `remote_wakeup_allowed`, `self_powered`, `pDevConfig`, `pOtherConfig` | `handle_setupdata` and its sub-handlers, `handle_hispeed` | EP0 registers; callbacks of the application |
| HID output, `hid_tm1638/device.c`, `ring_buffer.h` | ring `_rb` | `check_control_outputs`, `process_control_outputs` | EP2 buffers, TM1638 |
| HID input, `hid_tm1638/device.c` | `tick_1ms`, `ms_count`, `t1` | `timer0_isr`, `report_button_inputs` | EP1 IN, TM1638 |
| HID report descriptor, `hid_tm1638/device.c` | - | `handle_get_descriptor` in 64-byte chunks | EP0 |
| TM1638 driver, `tm1638.c` | the chip's registers | commands and data on a bit-banged bus | port pins |
| EP0 data, `eputils.c` | - | `readep0`, `writeep0` | EP0 |
| I2C master, `i2c.c` | `cancel_i2c_trans` | `i2c_write`, `i2c_read`, `eeprom_write`, `eeprom_read` | I2CS, I2DAT |
| CDC shell, `blinky_fw` | line coding, command buffer, uptime | class requests on EP0, characters on EP2 and EP6, commands | SIE, timer |
| slave FIFO, `fifo_slave/ep2_out` | FIFO flags, bridge FIFO | FX2 as slave FIFO, FPGA as its master | FX2 and FPGA pins |
| togglers, `fifo_slave/cyclone10lp/blinky` | counters, reset synchroniser | clocked processes | - |
| GPIF, serial, delay (`fx2lib/lib`) | waveform registers, UART, counters | polling loops | - |
| examples (`fx2lib/examples`) | flags, FIFO indices | loopback, full-duplex debug handshake, EEPROM firmware and others | the library |
| host tools | - | firmware loaders, `ihx2iic.py` | libusb, files |

What is hard here is what a test on the bench hardly reaches: an interrupt or a
packet at any instruction; flags and registers shared with a routine or with
the SIE; a host that gives up and sends the next SETUP while the handler of the
last one runs; a ring without a test for full; waits without a way out; a packet
of an odd length; and one-byte counters at their limit. `PROJECT.json` lists these hazards
line by line.

What makes each component correct:

- *framework*: no SETUP is lost; nothing is acknowledged before its handler has
  run; a request takes effect exactly once; the data returned are the ones asked
  for at the speed of the bus; the device sleeps whenever the bus is idle and
  never wakes the host against its wish; every transfer ends;
- *HID output*: the display shows the frames of the host's byte stream, one
  after the other, each LED mask with its own digits, and ends with the last;
  no byte is overwritten, no buffer is lost; a bad packet leaves no trace;
- *HID input*: a report is written only into a buffer the SIE does not own, and
  a pressed key is reported in the end;
- *EP0 data*: the bytes in order, the right number of them, an end to the loop;
- *I2C*: TRUE only if all bytes were acknowledged, an EEPROM that holds what
  was written, an end to every call;
- *shell, uptime, slave FIFO, examples*: streams that keep their order under
  flow control, values that are never torn.

## 2. Plan

| step | modules | state |
|---|---|---|
| 1 | `ControlTransfer` (abstract), `Firmware`, `FirmwareProofs` | done |
| 2 | `RingBuffer`, `FrameDisplay` (abstract), `HidOutput`, `MCHidOutput`, `HidOutputProofs` | done |
| 3 | `SerialProm`, `I2c`, `MCI2c`, `I2cProofs` | done |
| 4 | `SetupData`, `MCSetupData`, `SetupDataProofs`: every request, the callbacks of every firmware | done |
| 5 | `Ep0Data`: the loops over EP0 against a host that may give up | done |
| 6 | `Tm1638Bus`: the bit-banged bus and the chip | done |
| 7 | `HidInput`, `HidMain`, `MCHidMain`, `HidMainProofs`: the input path, and the main loop with both | done |
| 8 | `CdcShell`, `Uptime` | done |
| 9 | `Pipe` (abstract), `Loopback`, `LoopbackProofs`, `FullDuplex`, `SlaveFifo` | done |
| 10 | `Serial`, `Gpif`, `Delay`: polling loops and the edges of their counters | done |
| 11 | `Streams`, `MCStreams`, `StreamsProofs`: the programs of steps 8 and 9 that pass a stream on | done |
| 12 | `Drivers`, `MCDrivers`, `DriversProofs`: the modules of steps 5, 6, 8 and 10 that drive hardware | done |

Refinements: `Firmware` implements `ControlTransfer`, `HidOutput` implements `FrameDisplay`
and `Loopback` implements `Pipe`; each is checked and, for safety, proved.
`Tm1638Bus` does not name `HidOutput`, but `RegistersAsTold` and `ButtonsSeen` state what
`HidOutput` and `HidInput` take for granted: that a call writes LEDs or digits and nothing
else, and reads each button at some time during the call.

Every safety property of a passing run is proved for all values of the constants (section 5);
liveness stays with TLC.

## 3. What the modules say

### Firmware and ControlTransfer

`Firmware` is `fw.c` with the skeleton of `handle_setupdata`, and around it the
host, the SIE and the WAKEUP pin. `pc` is the place in `main()`; each action
is one access to something shared, so that interrupt and host steps fall between
any two of them. An interrupt routine takes two steps, its body and the write
that clears the request; a pending interrupt is taken before the next step of
`main()`, and a sleeping CPU takes none.

| model | code |
|---|---|
| `dosud`, `dosuspend`, `remote_wakeup_allowed`, `pDevConfig` | the variables of that name (`pDevConfig` by the speed of the descriptor it points to) |
| `hsnak`, `stall`, `ep0in` | EP0CS.HSNAK, EP0CS.STALL, an armed EP0 IN buffer |
| `usbirq`, `isr` | USBIRQ and the routine that is executing |
| `wu`, `bus`, `speed` | WAKEUPCS.WU, the bus |
| `setup` | SETUPDAT, by what `handle_setupdata` makes of it: allow or forbid remote wakeup, device status, configuration descriptor, anything unsupported |
| `runs`, `reply`, `open`, `got` | what the host sees and a count of handler runs |

The two bytes of `pDevConfig` are read by two actions (`HandleConfig`,
`WriteSudptrl`), so a torn read is possible if the code allows it. `STALLEP0` is
a read-modify-write of EP0CS, and HSNAK is cleared by writing 1: the model
clears it in the same step. The second wakeup pin (WU2), which no firmware here
enables, is left out.

Timing that the hardware gives and the model states as guards: a bus reset takes
milliseconds to be recognised and to end, so a started interrupt routine and a
started `handle_setupdata` have ended before the bus comes back
(`HostReset`, `HostResetEnd`).

The host may give up a transfer at any time and send the next SETUP, also while the handler
of the last one executes. The late data, HSNAK or STALL of that handler then hit the new
transfer; `spoilt` marks such a transfer. `ControlTransfer` allows it any end, and one handler
too many; `TransfersEnd` says that an end comes. For every other
transfer it says that the request takes effect once, before the acknowledgement, and that the
data are those asked for.

*Fairness.* The CPU executes (`WF` of the interrupt routines and of `main()`),
the host polls the transfer it opened and ends the reset it began. Nothing makes
it send a SETUP, suspend or resume. `TransfersEnd` supposes that the host does
not for ever give up requests for new ones, and that the WAKEUP pin comes to rest.

### RingBuffer, HidOutput, FrameDisplay

`RingBuffer` has the ring and its three functions; `rb_pop` is written for n
calls in a row because `process_control_outputs` always makes nine.

`HidOutput` is the path from EP2 to the display. A byte is named by its position
in the stream that the host sends, so every loss, repetition or exchange shows.
A packet is a stretch of the stream. `stored` and `popped` are history
variables. The SIE's step (`HostSend`) interleaves with all the others; copying
takes one step per byte. The LED write and the digit write of a frame are a
step each; a display that shows new LEDs over old digits is visible.

`FrameDisplay` is what the user may rely on: the LED mask moves to the next frame
only when the digits of the last are shown, no frame is shown before all of it was
sent, and in the end the last frame that was sent is shown.

*Fairness.* The CPU executes; nothing makes the host send.

*Assumption.* `PacketsFitRing`: a packet that passes the count test is shorter
than the ring. It holds at full speed (64-byte packets, so at most 63 bytes) and
for hosts that send one 9-byte report per packet. It does not hold for the 512-byte packets
that the high-speed descriptor declares; `MCHidOutputHighSpeed.cfg` shows what
happens then.

### SerialProm and I2c

`I2c` is `i2c.c` complete: `i2c_write` and `i2c_read`, and `eeprom_write` and
`eeprom_read` on top of them, called again and again by one caller with addresses
and lengths that stay inside the device. The bytes of `i2c_write`'s two buffers are
one `message`; the EEPROM functions pass only one. `SerialProm` is the EEPROM, a
chip: it latches an address, sends or receives bytes, writes at STOP, and is deaf
during the write cycle that follows.

The I2C controller does one thing at a time, `wire`: START, an address byte, a
byte out or in, STOP, or nothing, which is DONE = 1 and STOP = 0. A write to
I2CS or I2DAT sets it, and a step of the controller ends it. Between the two
`cancel_i2c_trans` may be set. A polling loop is a step that waits for either.

| model | code |
|---|---|
| `cancel`, `cur_byte`, `retry_count`, `buf` | `cancel_i2c_trans` and the variables of that name in `i2c_write` and `i2c_read` |
| `call`, `cur` | arguments of the EEPROM function, `cur_byte` of `eeprom_write`; its `addr` is `call.addr + cur` |
| `wire`, `berr`, `ack`, `lastrd`, `i2dat` | START, DONE, STOP, BERR, ACK and LASTRD of I2CS; I2DAT |
| `pc` | a place in one of the four functions; functions are not called from two places at once |
| `prom`, `present` | the chip, and whether there is one |
| `old`, `excuse`, `cut` | history: the cells at the start of the call, whether it met a cancel or a missing acknowledge, and whether a bus error cut off its read behind the first byte |

Environment, stated in the actions that are marked external: the controller clears
LASTRD at STOP and at a bus error; `delay(10)` outlasts a write cycle (`Delay`);
any START and any byte may end with BERR; the device may refuse
any byte. After a cancelled call, whose STOP may still be going on, the caller
waits for it before it calls again (`Call`): the comment at `i2c.c:49` demands
that, and the cancelled function does not do it.

`Cancelled` also covers the two waits behind which `CHECK_I2C_CANCEL` is missing
(lines 112 and 198): what follows there is `return FALSE` anyway.

*Fairness.* `HangingSpec`: the CPU executes, START is decided at once, write cycles
end; the controller may hang for ever. `CallsEnd` supposes that it finishes what it is
asked to do and that errors cease; `CancelEnds` supposes neither.

### SetupData

`SetupData` has every request of `handle_setupdata`, one step each, and the callbacks of the
ten firmwares of the repository as records of what they answer, accept, reset and store (two
pairs of them are alike).
The host keeps its own record (`halted`, `hostToggle`, `hostConfig`, `hostWakeup`) as the USB
specification makes it, whatever the device does: an endpoint is not halted and starts with
DATA0 after CLEAR_FEATURE, after an accepted SET_INTERFACE or SET_CONFIGURATION, and after a bus
reset, which also leaves no configuration set (`hostConfig` = `NULL`). The device's toggles are
reset only where the code writes TOGCTL, its stall bits changed only by the two features.
When the toggles of an endpoint differ, the next packet is taken for a repetition and dropped,
and with it they agree again (`Transfer`).

`RecordsAgree` compares device and host, in all ten sets of callbacks and after every sequence
of features, settings, packets and resets. They do not always agree, for no callback does
after a setting what `bulkloop.c:179` and `setupdat.h:81,90` ask for. Two history variables say where:
`stuck` has the registers whose halt a setting ended for the host (the device goes on with
STALL until the endpoint is named by a feature, or the bus is reset), `astray` the endpoints
whose toggle the latest setting set on one side only. The property says that everything else
agrees: a pipe is dead without the host's knowledge, or a packet lost, for no other reason. Its last
part, `InterfaceResets`, has no exception: where the callback resets every data endpoint
(`bulkloop`, the debug devices, `usbmon_c`) an accepted SET_INTERFACE leaves all toggles agreeing,
whatever was astray before.
`ep_addr`, the walk along the string descriptors and the direction bit of TOGCTL are modelled
by what they compute.

### Ep0Data

The data stages that firmware moves by itself: `readep0`, `writeep0`, the report descriptor
of `hid_tm1638`, the line coding of `blinky_fw`, the EEPROM commands. A byte is
`<<transfer, n>>`, so that data of an earlier transfer show. The loops differ in whether they
wait before or after they arm EP0 (`Loop`, `Wait`). `trouble` chooses between a host that
goes on, one that gives up at any time and starts another transfer, and an EEPROM that fails.

### HidInput and HidMain

`HidInput` is the timer interrupt, which may come between any two steps, and the rest of the
main loop; the scan takes a step for each button, and the user may press any in between.
`was` and `wasNot` are history: how each button has been since the host took the last report.
`HidMain` puts `HidOutput` in the place of the step that `HidInput` has for the output path:
both run on one CPU, which is in one of them at a time. *Fairness*: the CPU executes, the
timer ticks, the host polls; nothing makes it send, or the user press.

### Tm1638Bus

A call is a list of frames, from STB low to STB high, and a frame the bytes that are written in
it; `frame`, `byte` and `bit` are where the loops are, and `pc` is the next access of the port.
One action is one access: `Begin` and `End` move STB, `WriteLow`, `WriteData` and `WriteHigh`
are the loop of `tm1638_write_byte`, `ReadInput` to `ReadOutput` those of `tm1638_read_byte`.
The chip answers to the edges of STB and CLK in the same step (`ClkFalls`, `ClkRises`,
`StbEdge`); it is external, modelled from how the driver uses it, and its registers and mode are undefined
at power-up. `want` is what the calls so far asked for. A user may press a button between any two
accesses while buttons are read; `was` and `wasNot` are how each has been since the call began.

### CdcShell and Uptime

`CdcShell` is the way of a character from EP2 through the shell to EP6 and to the screen of
the terminal, with the two buffers of EP2 and the wait inside `cdc_print_string`. A packet to
the host is named by what it does to the line on the screen. `Uptime` is the clock: the timer
overflows every `Period` steps of the CPU, whatever it does, its flag stays set while the
interrupt is masked, and `get_uptime` copies a number of two digits (four bytes in the code).

*Fairness* (`FairSpec` of `Streams`): CPU and reader run; SETUP flag and EP2 are tested in every turn of
the framework's loop, so each gets its turn however often the other has something to do (SF).

### Pipe, Loopback, FullDuplex, SlaveFifo

`Pipe` is what the user of a forwarding firmware may rely on: packets in order, each once,
and after an acknowledged SET_INTERFACE none from before it. `Loopback` is the main loop of
`bulkloop.c` and `debugdev.c` with the SUDAV interrupt and both endpoints, and implements it.
A host with `burst` above 1 writes as many packets before it reads, as `test.cpp` does.

`FullDuplex` is two boards with the firmware of `debugdevice_full_duplex`, each access to a
pin a step. The hosts send SET_INTERFACE before their first packet, as `test.cpp` does: in the
middle of a packet it resets FIFOs under the two state machines (see *Findings*).

`SlaveFifo` is EP2 in AUTOOUT mode, the extractor at IFCLK, the dual-clock FIFO and the
capture process at 100 MHz. Two or three edges of the fast clock fall between two of IFCLK,
in any pattern. *Fairness*: clocks run, the button is released.

### Serial, Gpif, Delay

`Serial` is `sio0_init`, `getchar`, `putchar` and the echo loop against the two halves of the
UART; `patient` chooses an other end that waits for the echo. `Gpif` is `gpif_init`, single
words, counts and FIFO transactions against the engine. Its calls start where the code's
callers keep to: lengths of 1 to 255, and `gpif_set_tc16` only if the upper word of the count
is 0. `Delay` counts the cycles of the instructions in `delay.c`'s comment.

`Ep0Data`, `Tm1638Bus`, `CdcShell` and the modules of this and the last section have their
assumptions on constants as definitions (`SerialAssumption`, ...), and `Streams` and
`Drivers` assume those of the instances they make.

## 4. Runs

| run | module, cfg | bounds | what it shows |
|---|---|---|---|
| `firmware` | `Firmware`, `Firmware.cfg` | all of a finite state space | no SETUP lost, speed known, no suspend missed; implements `ControlTransfer`; transfers end, all with SETUPs inside handlers |
| `firmware_resume` | `Firmware`, `FirmwareResume.cfg` | the same | violated: see *Findings* |
| `hid_output` | `MCHidOutput`, `MCHidOutput.cfg` | ring 8, frames of 3, two buffers, packets of 0, 3, 6 and 4 (which halts), `MaxSent` 30 | all properties of the path, and that it implements `FrameDisplay` |
| `hid_output_high_speed` | `MCHidOutput`, `MCHidOutputHighSpeed.cfg` | ring 128, frames of 9, packets of 9 and 135 | violated: see *Findings* |
| `hid_main` | `MCHidMain`, `MCHidMain.cfg` | two buttons, two milliseconds a second, ring 4, frames of 2, packets of 2 and 3, `MaxSent` 5 | both paths of the main loop: reports fresh and kept, the display current when the inputs have the CPU or a bad packet has stopped it, neither path starved |
| `i2c` | `MCI2c`, `MCI2c.cfg` | 3 cells of one bit, two-byte addresses in bytes of two values, buffers up to 2, a controller that may hang or report errors | `eeprom_write` writes in order, each byte at its address; `eeprom_read` returns the cells unless a bus error cut it off; failures have a reason; calls return if the bus works, and on a cancel |
| `i2c_shifted` | `MCI2c`, `MCI2cShifted.cfg` | the same with one-byte addresses | violated: see *Findings* |
| `setup_data` | `MCSetupData`, `MCSetupData.cfg` | ten sets of callbacks, three strings, the endpoint numbers that take different branches of `ep_addr` | device and host agree on toggles and halts but for what a setting has left behind (`stuck`, `astray`); reads get data, and the right ones |
| `streams` | `MCStreams`, `MCStreams.cfg` | see below | four programs pass a stream on whole, in order and to the end |
| `loopback_setup` | `Loopback`, `LoopbackSetup.cfg` | one packet, two requests | violated: see *Findings* |
| `cdc_shell_overrun` | `CdcShell`, `CdcShellOverrun.cfg` | a buffer of three | violated: see *Findings* |
| `drivers` | `MCDrivers`, `MCDrivers.cfg` | see below | six drivers against hardware that runs by itself |

**hid_output.** 8 and 3 are chosen so that frames do not divide the ring, as 9 does not
divide 128, and 30 bytes take the indices around the ring more than three times, so that
a frame starts at each cell. Two frames leave two cells free; the ring is as full as
`PacketsFitRing` allows but for one byte. A packet of 4 bytes, which no HID host sends, stops
the firmware; what was sent before it must be on the display then.

**hid_main.** Here the ring only has to hold a packet; what matters are the interleavings
of timer, user, host polls and packets. `BothServed` needs two packets in a row and one
behind a button's report; `MaxSent` 5 gives two whole frames, or a bad packet in any place.

**i2c.** Three cells of which two are read or written leave one that must not be touched,
before or behind; three cells need both address bytes when a byte has two values. Two bytes
are enough for a first, a second-to-last and a last byte of a read and for a write cycle
between two messages. Calls follow each other without a bound. A bus error may happen any
number of times, as may a cancel, one for each transaction.

**setup_data.** Which firmware is linked is chosen first. The requests name EP0, EP2 OUT, an
endpoint that does not exist, and the data endpoints of the firmware; with `bulkloop` also
EP1 IN, which has a register of its own and carries no data there. Every request is allowed in
every state and for every firmware. There is no bound on their number: the states are finitely many.

**streams** and **drivers.** Small modules that have nothing in common are checked in one
run each: a variable `which` is chosen in the beginning and never changes, and only the
module it names takes steps. No state is shared, so the states are those of the modules one
after the other, and an invariant of one says nothing of the others. Bounds of `streams`:
`Loopback` with bursts that fill both endpoints, 8 packets, 2 requests at any time;
`FullDuplex` with packets of two and of one byte and one board whose host need not read;
`SlaveFifo` with a FIFO of 4 and 2 synchroniser stages (256 and 5 in the design; a depth of 3
overflows with 2 stages, so 4 is the least that works), packets of up to 2 bytes, a reset at
any time; `CdcShell` with a buffer of 4, lines of up to 3 keys (a longer one, which the shell drops,
is under no property of this run), 5 keys and one command word. Bounds of `drivers`: EP0
packets of 2 bytes and up to 5 bytes in a transfer (three packets, the last one whole or
not), three transfers, each with a host that goes on, gives up at any time, or an EEPROM that
fails; three bytes on the serial line, and every rate of `serial.h` at every clock; GPIF
counts on both sides of a byte's and a word's limit; three calls of the TM1638 after
`tm1638_init`; uptime seconds of two digits that wrap after four; `delay` with the numbers of
the code.

`CHECK_DEADLOCK FALSE` is set where the bounded host, user or caller may come to its end
with nothing left to do (`hid_output`, `hid_output_high_speed`, `streams`, `drivers`), and
in the first two because the firmware really stops on a bad count.

Every property of a passing run has a mutant: an operator named in a comment as *Mutant*,
which changes a definition the way a slip in the code would. With it TLC finds the
property violated.

## 5. Proofs

`HidOutputProofs` proves for every ring size that divides 256, every frame length,
number of endpoint buffers, set of packet lengths and bound, from
`RingBufferSizeAssumption`, `HidOutputAssumption` and `PacketsFitRing`:

- `Invariance`: `Spec => []IInv`;
- from it `TypeCorrect`, `Conservation`, `Available`, `NoOverwrite`, `Current`,
  `InOrder`: each safety property of the `hid_output` run;
- `Implements`: `Spec => DisplaySpec`, the safety part of `FrameDisplay`.

None of the properties is inductive by itself. `IInv` adds what ties the parts
together: `PacketsContiguous` (the packets in EP2 follow each other in the stream
and end where the host is), `RingInv` (the write index is `stored - popped` cells
after the read index, the ring is not full, and the cells between hold the
stream) and `ProgressInv` (at each place of the code, how far copying, popping and
displaying have come). The arithmetic of the masks is kept apart: `CellIsMod`
turns a remainder into a case distinction once, `CellStep` and `CellInjective`
say how cells add up and differ, and `AvailableExact` derives `rb_available` from
`RingInv`. One lemma per action (`StepHostSend`, ...) preserves `IInv`; the only
one that needs `PacketsFitRing` is `StepCopyByte`.

`HidMainProofs` proves of the input path, for every set of buttons, every length of a second
and of the blinking, from `HidInputAssumption`:

- `TypeCorrect`, `Fresh`, `Kept`: `TypeOK`, `ReportFresh` and `ReportKept` of the `hid_main`
  run.

`ReportFresh` is not inductive: a report is made of `keys`, collected while nothing waits in
EP1. The invariant adds `UserSeen` (the buttons as they are now are in `was` and `wasNot`) and
`ScanFresh` (during a scan EP1 is not busy, and of the buttons scanned so far those in `keys`
have been pressed since the host took its last report, and the others have not).

Of the main loop with both paths, from `HidMainAssumption`, it proves

- `Current`: `DisplayCurrent` of the `hid_main` run, from `PacketsFitRing`;
- `FramesKeepOrder` and `InputKept`: either path keeps the promises it makes by itself.

`ImplementsInput` and `ImplementsOutput` show that each step of `main_loop` is a step of one
path and leaves the variables of the other alone, so that what `HidOutputProofs` has proved
(`OutP`) and the theorems above carry over. `OneCpu` adds what only the composition knows: while the input path
executes, the output path is back where it waits for a packet, or has stopped.

`I2cProofs` proves of `i2c.c` and the chip, for every size of the EEPROM,
one or two address bytes, every content and every length of buffer, from
`SerialPromAssumption` and `I2cAssumption`:

- `TypeCorrect`, `WriteSafe`, `FailureExcused`: `TypeOK`, `WrittenInOrder` and
  `FailsForAReason` of the `i2c` run;
- `DeviceReleased`, `ReadCorrect`: `ReleasedBeforeStop` and `UncutReadIsMemory`, for reads of
  one byte or more (`0 \notin ReadLens`: `i2c_read` sets no LASTRD when its length is 0, and
  then stores a byte all the same).

What a STOP writes depends on what the chip has latched, that on the message, and that on the
call, so that `WrittenInOrder` is far from inductive. Its invariant has a part
for each link: `CallInv` (the message is the one that belongs to byte `cur` of the call),
`WireInv` (what the controller can be working on at each place of the code), `LatchInv` (how
much of the message the chip has latched, also behind a bus error, a refused byte and a
cancel whose STOP is still going on) and `MemInv` (the cells before and behind each STOP). The
chip's own lemmas (`ReceiveParts`, `SendParts`, `StoppedShort`, `StoppedWrites`) and those of
the address bytes (`DecodeAppend`: what `eeprom_write` makes of an address is what the chip
decodes) are proved once. On top of it, `FailInv` says where in a call an excuse must have been
seen; `LastInv` ties LASTRD, `cur_byte` and the chip's wish to send; `CounterInv` and
`StoredInv` say where the chip's counter is during a read and what the buffer holds. One lemma
per part and invariant, one step in it per action.

`FirmwareProofs` proves of `fw.c`, the SIE and the host around it:

- `TypeCorrect`, `NoSetupLost`, `SpeedTracked`, `SuspendSeen`: `TypeOK`, `SetupNotLost`,
  `SpeedKnown` and `SuspendNotMissed` of the `firmware` run;
- `Implements`: `Spec => TransferSpec`, that is, `Firmware` implements `ControlTransfer`.

`Firmware` has no parameters and finitely many states, so that its run settles these by itself;
what the proof adds is the reason, for a reader who changes the code. `FlagInv` says which places
of `main()`, flags and interrupt requests go together, `RunsInv` how often the handler of the
open transfer has run at each place, `SpeedInv` and `SuspendInv` who is still
to record a change of the bus, and `ReplyInv` how far an answer can be prepared before its handler has
run: not at all, unless a handler of a transfer that was given up prepared it (`spoilt`). The step
of each action is then one of `ControlTransfer` or changes nothing there.

`SetupDataProofs` proves of `setupdat.c` and the callbacks, from `SetupDataAssumption`, for every
number of strings and whatever endpoint addresses the requests name:

- `TypeCorrect`: `TypeOK` of the `setup_data` run, for any records as callbacks;
- `Agreement`: `RecordsAgree`, from `KnownFirmwares` (the callbacks are the repository's) and
  `NamesKnown`;
- `Answered`: `ReadAnswered`, from `KnownFirmwares`;
- `AnswersTrue`: `AnswersTold`, from `KnownFirmwares` and `StringsFit`.

`NamesKnown` supposes a host that knows the direction of the device's endpoints. EP2, EP4, EP6
and EP8 have one control register each but a toggle for each direction: CLEAR_FEATURE that names
0x82 ends the halt of EP2 OUT and resets another toggle. The run names no such endpoint either.
`HaltsAgree` and `TogglesAgree` are inductive together with `TypeOK`; `InterfaceResets` follows
with `Restored` (nothing is astray or halted when an accepted SET_INTERFACE was the last request).
The work is in the addresses, where `AddressParts` and `OtherToggle` say that of two endpoints
with different registers TOGCTL selects different toggles, and in the settings (`SettingAgree`):
the halts that the host drops are those that become stuck.

`AnswersTrue` proves `AnswersTold`, from `KnownFirmwares` and `StringsFit` (the index of a string is
a byte, and there is one string at least: `handle_get_descriptor` walks on from the first). What
a read is answered with comes from the device, and what should be told is a record
of the host's requests; `Books` says that the two are the same at all times: the speed in both descriptor
pointers, the wakeup feature, the halt bits but those of `stuck`, and the configuration, once it
is set, of the firmwares that store it or accept only one. `StringAt`, the walk along the descriptors, is a recursive function,
and `StringsFound` says what it computes for every index: `Found`, the explicit answer,
satisfies the equation of the walk, and two functions that do cannot differ at a least
index (`NatSets`). The proof then goes request by request (`StatusTrue`, `DescriptorTrue`, `ConfigurationTrue`).

`LoopbackProofs` proves of `bulkloop.c` and `debugdev.c`, for every number of packets and of
requests and every burst, from `LoopbackAssumption`:

- `Implements`: `Spec => ForwardSpec`, that is, `Loopback` implements `Pipe`: the property of that
  name in the `streams` run (`Forwards` of `StreamsProofs` takes it over).

A step that moves a packet takes it out of a sequence that is not empty and puts it into one that
is not full; the loop tests both, but steps earlier, and the SIE acts in between: `FlowInv` says
that what was tested still holds. `FlushInv` says that the packets EP2 receives between the resets
and the acknowledgement of SET_INTERFACE were sent after the request, so that none from before it
is left then, and `FlagInv` that the request which the loop handles is the one that set the flag.
The lemmas about sequences (`MoveOver`, `DropFirst`, ...) say that what moves from one buffer to
the next keeps its place in the concatenation that `Pipe` sees.

`StreamsProofs` proves of the four programs in `Streams`, for every bound, set of packet lengths,
depth, delay and set of keys, from `StreamsAssumption`:

- `Types`, `Forwards`, `Intact`, `Echoes`, `Crosses`: `TypeOK`, `ForwardSpec`, `PacketsIntact`,
  `EchoIsLine` and `CrossesWhole`, all safety properties of the `streams` run;
- `StaysInLine`: the shell stores nothing behind `cmd_buffer`.

Three of them need what the code does not test. Each hypothesis is named in the theorem that needs it,
and the run's constants satisfy all:

- `LineFits`: the user ends a line before it is as long as the buffer. Without it
  `StaysInLine` is false (run `cdc_shell_overrun`);
- `DepthFits`, `2 * DEPTH > 3 * DELAY + 1`: nobody looks at the bridge FIFO's full flag. In the
  design `DEPTH` is 256 and `DELAY` is 5, in the run 4 and 2; with 3 and 2 TLC sees it overflow;
- `NoEmptyPackets`: a packet of no bytes makes `remaining` wrap in `debugdevice_full_duplex`.

*The shell.* What is typed is echoed before it is stored, by a function that waits for EP6, so that
screen and line differ most of the time. `EchoInv` says how, at each place where the
shell prints. `LineInv` carries the length of the line as the host sees it through both buffers
of EP2 to the byte at work: the bound is on what was typed, and the index follows many
steps later.

*The slave FIFO.* `wsync` and `rsync` are the stages that bring each pointer to the other clock.
The capture process takes `q` over at the edge that reads the next byte, which is right because
the reader sees one byte at a time: `WriteInv` says that two writes stay two edges apart in every
stage, `ReadInv` that the reader has taken a byte before it sees the next. `BackInv` bounds how
far the read pointer that the writer sees lags behind, whatever the pattern of the two clocks, and so gives
`DepthFits`. `SStreamInv` and `SShownInv` say which bytes of the stream are in EP2, in the
FIFO and in `q`.

*Two boards.* A board's main loop has half of both directions in it, and each pin access falls
between any two of the other board. `Direction(s, r)` is the invariant of one direction: the
handshake of the two state machines (`DControl`), the buffers of the sender (`DStock`), the byte
at work on either side (`DSending`, `DReceiving`), what has arrived (`DArrived`), and `DLinked`,
which relates the halves: both are at the same byte of the same packet, or apart by a byte or the
end of a packet, as `dvalid` and `drdy` tell. A step is one of the sender's half or of the
receiver's half of one direction, and `DKept` shows that the other direction stays as it was;
without that the cases would multiply.

*The loopback.* `LoopP` is an instance of `LoopbackProofs`, whose theorems are taken over.

`DriversProofs` proves of the six drivers in `Drivers`, from `DriversAssumption`:

- `Moved`: `MovedWhole` of the `drivers` run, for every size of EP0, length of transfer, number of
  transfers and of typed bytes, and from `ByteLengths`;
- `TimeKept`: `TimeAsTold`, for every range of the uptime counter, every number of milliseconds
  that a WORD holds, and from `Rates \subseteq RatesOfHeader`;
- `ChipKept`: `ChipAsTold`, for every set of LED masks, of digits and of buttons that may
  change, and any number of calls;
- `Stable`: `StableInView`, both the buffer of EP0 and the registers of the display.

Two hypotheses say what the code's callers keep to. `ByteLengths`: the GPIF's calls are of 1 to 255
words, for the counter is a BYTE, and a read of no words leaves one started. `RatesOfHeader`: the
rates that `serial.h` lists, at 12, 24 or 48 MHz; other rates may meet the missing carry of
`serial.c:60`. The run's constants satisfy both.

*EP0.* A byte of the data stage may be in the host, in EP0BUF or still to come, and the loops
differ in when they wait: `PlaceInv` says what `moved`, EP0 and the request are at each place, and
`InInv` and `OutInv` that what is behind, in and before EP0BUF is one run of the transfer's bytes.
They suppose a host that does not give up (`DataInv`); `BufferStable` follows from `PlaceInv`,
which does not.

*The serial line.* `UartInv` says who has the byte: SBUF0 until RI is cleared, `todo` until it is
echoed, the shift register, or the wire. What goes out is the concatenation of what each byte expands
to; `FlattenAppend` says that a byte more on one side is its expansion more on the other.
`FlattenSeq` of the community modules is a recursive function: `FlatChosen` shows, by a
least counterexample (`NatSets`), that the function exists. `BaudAsTold` is arithmetic over the 21
pairs of clock and rate, and `RateInv` that RCAP2 was loaded for the pair in use.

*The GPIF.* Reading the low byte starts the next word, so that the engine is a word ahead of
the loop: `ReadInv` relates the words given, the word in the latch and the counter at each
place, and says that the last word starts none. `CountInv` is about the four bytes of the transaction
count, which two functions set.

*The clock and the delay.* `UMaskInv` bounds how long the timer's flag can wait while its
interrupt is masked, and `UCopyInv` says that the counter stands still between the two reads.
`SpentInv` of the delay gives the cycles spent exactly: 15 for each count and 2 for each borrow.

*The TM1638.* `BusInv` follows a bit from the call to the register. `FramesInv` says what the
frames of any call are: one command that sets the mode, then addresses with what those registers
should hold, more than one only under auto-increment. `CursorInv` says where the loops are, `RestInv`
how the pins are between frames. `SendInv` says that the bits the chip has shifted in and those
that the driver still has make up the byte at work (`Sent`; `SentNext` and `SentAll` are its
arithmetic), so that the chip takes the byte that was meant (`LastBit`). `ModeInv` and `AddrInv`
say that mode and address of the chip are those of the frame. Then `RamInv` is inductive: a
register holds what it should, or its byte has still to come (`Pending`); when a call
returns none has. A register that changes gets what it should hold, which is `NoGlitch`.
In the other direction `ScanInv` counts the bits that the chip has put out and says who
drives DIO, and `KeysInv` that each bit read, in `keys` or on its way through `dat`, is how that button was
at some time since the call began.

Only model-checked is liveness, which is out of the provers' reach: `TransfersEnd`,
`BothServed`, `CallsEnd` (of `i2c` and of `drivers`), `CancelEnds`, `Arrives`, and the fairness in
`DisplayFairSpec`. Every other property of a passing run is stated by a theorem.

## 6. Findings

Five disagreements of the code with what the repository says of it are runs of their own:

- **Resume without permission** (`fw.c:105-110`, run `firmware_resume`). The latch
  of the WAKEUP pin is read twice. If the host resumes the bus and suspends it
  again, and the pin is asserted after the loop's condition and before the `if`,
  the device signals resume though `remote_wakeup_allowed` is FALSE.
- **Ring overrun at high speed** (`ring_buffer.h:14-26`, `device.c:343-356`, run
  `hid_output_high_speed`). A 135-byte packet passes the count test and wraps the
  128-byte ring; `rb_available` then returns 7 for 135 stored bytes, and eight
  frames and more are lost.
- **A read that restarts in the wrong place** (`i2c.c:215`, run `i2c_shifted`). A bus
  error after the first byte of a read starts `i2c_read` again, but the EEPROM's
  address counter has moved on: the buffer holds cells from further on, and
  `eeprom_read` returns TRUE.
- **A SETUP that is never answered** (`bulkloop.c:103-107`, run `loopback_setup`; the same in
  `debugdev.c` and others). `got_sud` is cleared after the request was acknowledged; the
  next SETUP may have set it by then.
- **A terminator behind the buffer** (`shell.c:161`, run `cdc_shell_overrun`). A line of 256
  characters leaves the index at 256, and the carriage return stores 0 at
  `cmd_buffer[256]`.

More of them came up in the modelling. They have no run of their own; the modules keep the
behaviour, and the properties leave it out at the place named.

| where | what | in the modules |
|---|---|---|
| `hid_tm1638/device.c:182-195`, others | GET_INTERFACE sends an uninitialised `alt_ifc` | `Hid`'s `alts` |
| the same, `bulkloop.c:195`, others | SET_INTERFACE or SET_CONFIGURATION is accepted and resets no toggle, though `setupdat.h:81` and `:90` demand it; the next packet is taken for a repetition. `usbmon_c` resets them also when it refuses | `astray` in `RecordsAgree` |
| `hid_tm1638/device.c:228` | every vendor and class request is called handled, and reads get no data | `ReadAnswered` leaves `Hid` out |
| `fx2lib/fw/device.c:27`, `blinky/device.c:27` | `handle_get_descriptor` returns no value | `ReadAnswered`, `DescriptorTold` leave `FirstBlinky` out |
| `setupdat.c:222` | CLEAR_FEATURE of an endpoint that does not exist writes through NULL | `ClearFeature` changes nothing then |
| `bulkloop.c:179`, others | "restore endpoints to default condition", but after SET_FEATURE(halt) and SET_INTERFACE the host takes the endpoint for restored and it answers STALL; the same after SET_CONFIGURATION | `stuck` in `RecordsAgree`, `StatusTold` |
| `bulkloop.c:192`, others | GET_CONFIGURATION tells 1, or the configuration from before a bus reset, when none is set | `ConfigurationTold` speaks from SET_CONFIGURATION on |
| `debugdevice_full_duplex/debugdev.c:273` | the FIFOs are reset under the state machines: bytes of two packets become one | `HostSetup` of `FullDuplex` only before the first packet |
| `hid_tm1638/dscr.a51:137` | "Matches our 56-byte array": it has 72 bytes, and is cut off at full speed | `HidLen` |
| `eeprom.c:95` | a failed `eeprom_read` is not noticed; old content of EP0BUF is sent | `DataExact` |
| `eputils.c:35`, `hid_tm1638/device.c:166` | after a host gave up, the rest of the old data goes to the new transfer, or the new data into the old buffer | `DataExact` |
| `i2c.c:67` | "return FALSE intead of infinite loop" (`CHANGELOG:2`), but an endless bus error is an endless loop | `CallsEnd` |
| `i2c.c:237` | a read of no bytes stores one | `ReadLens` of `MCI2c` |
| `serial.c:60` | one is added to the low byte of the reload value without carry: 5860 baud at 48 MHz comes out at half | the rates of `serial.h` never meet it |
| `gpif.c:152-156` | a BYTE counter and a WORD length: 256 words or more never end, and 0 words store one | `Lengths` |
| `gpif.c:144` | `gpif_set_tc16` leaves the upper word of an earlier count | the guard of `SetCount` |
| `delay.c:42-64` | the comment counts 17 cycles, all rounds but two take 15: a millisecond is 0.88 ms | `NotEarly` allows an eighth |
| `delay.c:71` | `delay(0)` waits 65536 ms | `Millis` |

Most can be seen by taking the exception out: with `ReadLens` containing 0, `WordCounts`
(the `Lengths` of `Gpif`) containing 0 or 256, `Millis` containing 0, or the named firmware put back, TLC shows the
violation.

## 7. Not modelled

- Boards, images, PDFs, makefiles, register headers and descriptor tables hold no behaviour.
  `usbav.a51` and `lib/interrupts` are a jump table and empty handlers.
- The togglers of `cyclone10lp/blinky`, `src/blinky`'s loop and the examples `i2c`, `timers`,
  `lights` and `reset` drive a pin or a digit from one counter.
- The host programs are libusb I/O; `ihx2iic.py` converts a file.
- Timer interrupts whose only effect is an LED, in `fifo_slave` and in the serial example:
  `HidInput` and `Uptime` have one with the same body. The SOF interrupts of the examples
  blink an LED as well.
- `gpif_setflowstate` copies eight bytes. The timing inside a clock period in the FPGA.
- `usbmon_c`'s data go from pins to EP6 (AUTOIN) without the CPU; its callbacks are in
  `SetupData`, and its main loop is the SETUP part of `Loopback`'s.
- NUL bytes in the shell's input. Command 6 of `debugdev.c`'s `handle_vendorcommand`, which
  can never come there, for 6 is GET_DESCRIPTOR.
- A bus reset does not clear `remote_wakeup_allowed` in the code, and the host of the models does
  not take it for cleared either (`hostWakeup`), though the USB specification would have it so; a
  test against that is not stated.
