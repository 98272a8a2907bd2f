# Specifications of the K7NVH DC PDU firmware

The K7NVH DC PDU is an eight port power switch for 12 V equipment. An ATmega
runs `src/K7NVH_DC_PDU/K7NVH_DC_PDU.c`: it switches the ports on commands from a USB
serial line, turns off a port that draws more than its limit, and can switch
ports by the input voltage to protect a battery. This directory models that
firmware in TLA+, checks it with TLC and proves part of it with TLAPS.

## The system

| Part | State | Operations | Talks to |
| --- | --- | --- | --- |
| port control | `PORTB`, `PORTC`, `PORT_STATE` | `PORT_CTL`, `PORT_Set_Ctl`, PON, POFF, PCYCLE, the boot loop | called by commands and by both supervisions |
| current supervision | overload bit, red LED | `Check_Current_Limits` | port control, command line |
| voltage control | VCTL and changing bits, threshold words | `Check_Voltage_Cutoff`, VCTLON/OFF, SETVCTLON/OFF | port control, command line, EEPROM |
| scheduler | `timer`, `check_current`, `check_voltage` | `ISR(WDT_vect)`, `main` | sets flags that `main` polls and clears |
| settings | EEPROM, `PORT_BOOT_STATE` | SETDEF, VCTL, SETCYCLE, SETLIMIT, SETVCTLON/OFF, SETVREF, SETVCAL, SETICAL, `EEPROM_Reset` | read by the boot loop and by every check |
| command line | `DATA_IN`, `DATA_IN_POS` | bytes in `main`, `INPUT_Clear` | cleared by the supervisions too |
| command parser | none | `INPUT_Parse`, `INPUT_Parse_args` | everything above |
| names | 9 x 16 bytes of EEPROM | SETNAME, `EEPROM_Read_Port_Name` | copied out of the command line |
| measurement | calibrations in EEPROM | `ADC_*`, `SPI_*` | read by both supervisions |
| status reports | none | STATUS, PSTATUS, DEBUG, HELP | print |
| USB serial stream | an IN and an OUT endpoint bank, the endpoint selection | `CDC_Device_ReceiveByte`, `SendByte`, `USBTask`, `Flush` | called by `main` and by every print; the host at the other end |
| control endpoint | `USB_DeviceState`, configuration, address, line encoding, `USB_ControlRequest` | `USB_GEN_vect`, `USB_COM_vect` and the request handlers | interrupt every call above; spin until the host goes on |
| host utility | `src/SNMP/k7nvh_dc_pdu.c`: a locked terminal | one command, one reply, 1 s alarm, signals | the USB serial stream |
| SNMP bridge | none | `src/SNMP/pdu_snmp` | a saved STATUS report |

The application is one thread plus the watchdog interrupt. The interrupt only advances
the tick and sets two flags; the thread polls for a byte, executes a command to
its end when a line is complete, then runs the supervisions whose flag is set.
So nothing that touches a port is preempted by anything that touches a port. What makes it
hard is the sequence: three parties (the host, the overload trip, voltage
control) write the same bitmap and pins in turn, bits set by one are read by
another much later, settings live in RAM and in EEPROM, and power may fail
between any two of it. Below the application, LUFA's two interrupts do preempt
the thread: between any two steps of a read or a print they may change the device state,
the banks and the selected endpoint, and their handlers wait for the host.
Beyond the cable there are several runs of a program that share one terminal.

What makes each part correct:

- port control: the pins always show the state that is reported, and a port
  obeys the last one in charge;
- current supervision: a tripped port is off and shown, an overload trips;
- voltage control: acts only where it was put in charge, only against a
  threshold somebody stored, only after two polls, and settles;
- settings: what the host was told is stored survives any loss of power and reads
  back as what was accepted, no mixture of bytes reads as an illegal value, and no number makes a
  current limit laxer than it says;
- command line: what is executed is what was typed, and no string runs past
  the buffer;
- names: always end inside their bytes and read back as given, up to a byte 255;
- USB serial stream: bytes arrive in order, once and without gaps, but for what an upset
  of the bus takes;
- control endpoint: handlers end, do not pile up, and leave unit and host in agreement;
- host utility: a run shows its own reply and ends.

## The modules

**`PduCore`** is the whole loop. `pc` names the statement the thread is about to
run, `i` is the port of the `for` it is in. A step is one port of one loop, or one
statement between loops; while a command runs `pc` is the command's name. Bitmaps are sets of bit
numbers. The correspondence:

| In the model | In the code |
| --- | --- |
| `BootPort` | the loop at lines 66-70 |
| `NoByte`, `EditLine`, `Receive`, `EndCommand` | `main` 79-143; `lineOpen` says that `DATA_IN` holds a part of a line, whose content is `LineEditor`'s affair |
| `Pon`, `Poff`, `PcycleOff`, `PcycleWait`, `PcycleOn` | 224-253 with `PORT_Set_Ctl` and `PORT_CTL` |
| `SetDef`, `SetVctlEnable`, `SetCycle`, `SetVctl` | 254-359 |
| `EraseCell` | `EEPROM_Reset`; the cells of this module in the order of their addresses |
| `SkipScan`, `StartScan`, `ScanPort`, `EndScan` | 148-152, `Check_Current_Limits` |
| `SkipPoll`, `StartPoll`, `PollPort`, `Cut`, `Restore`, `EndPoll` | 154-158, `Check_Voltage_Cutoff`; `Cut` and `Restore` are the two `if`s at 664 and 668 |
| `Tick` | `ISR(WDT_vect)` |
| `LoadChange`, `PowerLoss` | the world: the loads, the mains |

The bootloader is a `pc` that the thread never leaves (the code jumps away and
the interrupt keeps running). A command that does nothing to this state (HELP,
STATUS, SETNAME, SETLIMIT, calibrations, an unknown line) is an `EditLine`.

**`PortPolicy`** is what the unit promises of its sockets: which are on, tripped, under voltage
control, and who may change that (`Manual` and `Entrust` by the command under way and only for
the ports it names, `Automatic` where voltage control is in charge, `Trip` by an overload of that port, `Start` when
power returns). `PduCore`'s `Policy` instance maps the pins, by the table of the header, and the bitmaps to it;
scans, polls, flags and loops vanish.

**`PduHistory`** adds variables that only record: the last order each port was
given (`order`), how many polls in a row found it beyond its thresholds
(`streak`) and how many since voltage control came on (`since`), and the boot
settings the host was told are stored (`want`, `wiped`).

**`LineBuffer`** is what a command line promises: a bounded editable sequence,
executed or dropped whole. **`LineEditor`** is the array, the position and the
branches of the `switch` in `main`; its `Abstract` instance maps the first
`DATA_IN_POS` cells to the abstract line. The executed string is what stands
before the first zero byte, since a host may type one.

**`NameStore`** extends `LineEditor` with the bytes of the names in EEPROM. "SETNAME n"
counts as one byte of the line and n is any name. The copy reads past the end of
`DATA_IN` as the code does, where it may find any byte. Byte 255 is both what erased EEPROM holds
and a byte that may be typed and stored, so `Readable` cuts a name at the first one. A write that a loss of
power cut off leaves its name in `torn`.

**`Settings`** is the layout of the EEPROM and the seven kinds of numbers in it. A
command is the integer typed behind it; `Argument`, `InRange` and `Bytes` are `atoi` with its
16 bit int, the casts, divisions and range checks of the SETxxx branches and the
single precision floats of the writers, `Read` the clamps of the readers. Cells are written
one byte at a time, in any order within a word, and power fails between any two. `given` and
`torn` only record the number accepted last and what a loss of power left mixed. `Wanted` says what an
accepted number stands for: itself, wrapped at 16 bits; a limit in whole tenths, negative ones as 0;
the default for a threshold above 4000. `Documented` is what README.md and the header both
allow; a refusal of such a number is held against the code as well.
`Trips` is `PORT_Check_Current_Limit` on a reading, in exact arithmetic.

**`UsbBus`** is the device state machine of `USB_GEN_vect` as this build compiles it. It is
extended by two modules:

- **`UsbStream`**: the four calls of `CDCClassDevice.c` that `main` makes, one step per access
  to an endpoint register, with the two banks. `sel` is UENUM: a step that was meant for
  one endpoint and reaches another reads whatever that one's flags hold. `Reset` may leave the
  control endpoint selected, the control requests put the selection back. Each direction is shown to
  implement **`ByteStream`**, whose actions are `Write`, `Read`, `Upset` and `Astray`: an upset may drop
  what is in flight, and the one call it interrupts may go wrong, and no more.
- **`UsbControl`**: `USB_COM_vect` and the handlers of the standard and CDC requests, each
  at one of the places where it waits (`Places`). Handlers form a `stack`, since a bus
  reset enables the setup interrupt again while one waits; `request` is the global the
  handlers share, which a nested one overwrites. A setup packet still waiting when a handler ends is
  cleared and stalled (`StallLate`, lines 118-122 of `DeviceStandardReq.c`) before `Leave` enables the interrupt
  again: the host's new request fails and it must ask again. That takes a host that gave up the transfer before.
  After SetConfiguration another endpoint is selected, so there the packet stays and is served.

**`HostLink`** is several runs of the utility and a unit that answers. What is printed is
a sequence of pieces: the echo of a command, the reply, the `#` of the prompt, the rest of the
prompt. `Open` is the lock, `Read` the loop up to the first `#`, `Expire` and `Kill` the alarm
and the signals, `Leave` the end of a process, after which the system discards any part
of what was received or not yet sent. `Notice` is a trip or a voltage switch, which prints
and clears the line.

How they compose: `NameStore` extends `LineEditor`; `PduHistory` extends `PduCore`; `UsbStream` and
`UsbControl` extend `UsbBus`. Between the groups the interface is an assumption of one that is a
result of another. `PduCore` assumes that the main thread goes on; `UsbControl`'s `HandlersEnd`
says on which condition it does. `LineEditor` assumes a sequence of bytes from the host and
`HostLink` one of pieces to it; `UsbStream` says when that is what arrives. The boot bytes
of `PduCore` are whole because `Settings` and the assumption on single byte writes make them so.

`MCPduCore`, `MCPduHistory`, `MCNameStore` and `MCSettings` give the constants of the runs
their values; `UsbStream`, `UsbControl` and `HostLink` take theirs from the `.cfg`. The
theorems are in `PduCoreProofs`, `PduHistoryProofs`, `LineEditorProofs`, `NameStoreProofs`,
`SettingsProofs`, `UsbStreamProofs`, `UsbControlProofs` and `HostLinkProofs`.

## The runs

| Run | Module | Shows |
| --- | --- | --- |
| `supervise` | `MCPduHistory` | Two ports under manual, automatic and overload control at once: `OverloadMeansOff`, `OverloadShowsLed`, `OrdersObeyed`, `TwoPollsOnceSettled`, the refinement `ImplementsPolicy` |
| `durable` | `MCPduHistory` | Every command that writes the boot settings, a loss of power at any step: `SettingsDurable`, `OrdersObeyed` and `VctlAuthority` across the reboot, the types |
| `eight` | `MCPduCore` | All eight ports: `PinsMatchState` against the pin table of the header, and the refinement `ImplementsPolicy` across a loss of power |
| `liveness` | `MCPduCore` | Thresholds set, set out of range and erased between polls: `SwitchNeedsThreshold`, `PollEndsRight`. Under fairness: `OverloadTrips`, `PcycleRestores`, `LedGoesOut`, `VoltageControlSettles` |
| `names` | `MCNameStore` | `CleanTail` and the refinement `CommandLine` of the abstract line, while SETNAME reads from it; `NamesEnd`, `NamesKept` with byte 255 among those typed, the types |
| `settings` | `MCSettings` | `SettingsKept` for all numbers accepted, in and out of the documented ranges, `LimitNeverLaxer`, `DefaultNeverTrips`, legal values from any mixture of bytes |
| `usb_stream` | `UsbStream` | Both directions refine `ByteStream` (`RepliesStream`, `TypingStream`); what is printed is sent (`PrintedIsSent`) |
| `usb_control` | `UsbControl` | `NestingBounded`, `MainListens`, `SessionAgrees`; under fairness `HandlersEnd` and `RequestsTaken` |
| `host_link` | `HostLink` | `NothingStolen`, `CalmReplies`, under fairness `RunsEnd` |

Three more runs state what a document or a comment says and the code does not do;
TLC finds the counterexample:

- `two_polls`: README.md says a switch takes two consecutive polls. The changing
  mark is left standing when voltage control goes off between the first and the
  second, so the port is switched by the first poll after VCTLON. What does
  hold is `TwoPollsOnceSettled`: from the second poll under voltage control on.
- `reset_settings`: Ctrl-] erases the EEPROM but not `PORT_BOOT_STATE`, so the
  next SETDEF or VCTL of a port writes the erased setting back.
- `usb_starved`: README.md says that current is checked continuously. A host that gives up a
  control read after the data and starts another transfer leaves
  `Endpoint_ClearStatusStage` waiting for a packet that never comes, with the interrupt
  that would take the new transfer disabled; the main loop stands still.

Other places where a document and the code differ, met while modelling and without a run of
their own:

- README.md limits a threshold to 4000; the integer division at line 345 lets 4001 to
  4099 pass. The unit answers with the number typed and reads back the default, which means
  "never": 0 (cutoff) or 40 V (cuton). `Wanted` says so.
- SETLIMIT accepts -99 to -1 as 0 and 10001 to 10099 as 100, and every number wraps at 16 bits: 65636 is taken as
  100 hundredths or mA. `Wanted` says so too.
- README.md:98 says a long name is truncated; a command that reaches the end of `DATA_IN` is
  dropped instead (line 136) and its tail begins a new command.
- README.md:98 speaks of any string of up to 15 characters. A byte 255 is taken from the host (lines 130-135) and
  stored (line 778) like any other, but ends the name when it is read (line 761). So names
  read back as typed only up to the first such byte, which is what `NamesKept` says.
- README.md:152 gives SETVREF the range 4000 to 4400 and the default 4.2 V, the header
  4300 to 4700 and 4.5 V. The code follows the header: 4000 to 4299 are refused, 4401 to 4700 taken.
  `Documented` is what both allow, 4300 to 4400, and the default is the header's.
- Line 126 masks timer 0 so that no interrupt disturbs the bootloader, but the tick is
  the watchdog interrupt (line 26), which stays enabled.
- `CDC_Device_ReceiveByte` can return a byte nobody sent after a bus reset
  (`CDCClassDevice.c:255`), where its comment promises -1 when there is none. `ByteStream` allows it.
- `SetConfiguration(0)` leaves an addressed device `Configured` (`DeviceStandardReq.c:203`)
  where `Device.h:91` speaks of a selected configuration.
- `src/SNMP/README.md:5` says that the utility returns all output of one second; it stops at the first `#`, so a
  run that finds one left over from an earlier session ends without its reply.

### Bounds

- Ports: two where ports interact (every loop over the ports has a first and a last
  turn, and one port can be in a command's set while the other is not), one for
  `liveness` (the loops do not relate ports), eight for the pins: the ports at the ends of each register
  one by one, the others together.
- `TIMER_MOD` and `VCTL_DELAY` are 1 or 2 instead of 2^32 and 20, `ICTL_DELAY` is 1 as in
  the code: with 2 a tick may ask for a scan alone or for both, and any number of
  ticks may pass between two steps. 2^32 is not a multiple of 20, so
  the real counter has one short interval between scans when it wraps (after 34
  years); an interval of any length is already in the model.
- Voltages: one below and one above the thresholds, erased thresholds and one between 40 and
  41 V included.
- Losses of power: at most one in `durable` and `eight`, any number in
  `names` and `settings`, none elsewhere. The proofs have no bound, and a
  second loss starts from an image that the first set of initial images covers.
- PCYCLE waits two of at most 30 steps; its time byte in `durable` is set, set out of range and erased.
- The line is 5 cells of 32 with four bytes (SETNAME, a blank, zero and 255), the names are two of three
  bytes: an overlong name, a name that begins in the last cell, one with a 255 in it and a read past the
  buffer all occur.
- `settings`: ports 6 and 7, the last of the layout, where a wrong offset meets the next
  region; at most `MaxCommands` = 3 commands and resets, enough to set a setting, set its neighbour and
  refuse or reset. What may be typed are both ends of every range, the
  numbers next to them, negative ones, ones that wrap, and thresholds of 4001 and 4099. `MCSettings` assumes `TenthsExact`, which
  TLC evaluates: no calibration loses a tenth.
- `usb_stream`: banks of 2 bytes of 16, so that a bank fills, and with it the empty packet
  after a full one; 3 bytes out, 2 in, and at most `MaxUpsets` = 4 upsets: reset, address,
  configuration and one more at any point.
- `usb_control`: 3 resets and suspensions, 2 transfers given up (1 and 1 in `usb_starved`, where
  one is enough). `SessionAgrees` holds at any time through two of the events, and is stated up to there: with a third, two
  handlers lie on the stack and a SetAddress at the bottom ends after a later configuration.
- `host_link`: two runs, a bank of 2 pieces (a prompt does not fit together with a reply), one notice.

### Fairness

- `PduCore`'s `FairSpec` has weak fairness of the main thread and of the watchdog interrupt, which
  nothing masks. The thread waits for nothing unbounded of its own: a command ends, USB writes time
  out, PCYCLE counts to at most 30. It does stand still while a control request is
  handled; that it goes on needs a host that completes its transfers, as
  `HandlersEnd` says and `usb_starved` shows. Nothing is assumed of the load, the
  voltage or the mains. The jump to the bootloader is allowed at any time and every
  liveness property yields to it.
- `UsbStream` has weak fairness of the main thread, whose `Wait` ends by a count
  of frames or by the suspension that follows when frames stop, and of a host that reads.
  `PrintedIsSent` yields when the line closes.
- `UsbControl`: handlers run and a descriptor has a last packet; a host goes on with a transfer
  it has not given up and resumes a bus it has suspended. Both properties yield to a
  transfer given up.
- `HostLink`: a process sends its command, and an alarm that was set goes off (strong fairness, since
  the step is disabled outside the reading stage). Nothing is assumed of the unit.

## The proofs

All theorems hold for every value of the constants that satisfies the named
assumptions: 1 to 8 ports, any delays, any set of commands, loads, voltages and
initial images, buffers, names and banks of any size, any integers typed, any number of losses of power,
resets and runs. The assumptions on `PduCore` say that a unit
starts with boot bytes and a cycle byte the firmware could have written (or
erased ones); the threshold words may be any.

`PduCore` and `PduHistory`:

- `TypeCorrect`: `TypeOK`, one lemma per group of actions.
- `PowerCorrect`: `PowerInv`. `PinsMatchState` alone is not inductive in a usable
  form, since a step changes one bit of one register and one port; `PinsAgree`
  says for each bit which port it belongs to, which needs `PinBit` to be
  injective per register. `MarkedOff` and `OverloadShowsLed` join it. From it follow
  `OverloadedPortsAreOff`, `OverloadIsShown` and `PinsShowState`.
- `SwitchesNeedThresholds` and `PollsEndRight`: `SwitchNeedsThreshold` and `PollEndsRight`, from invariants
  that tie the statement reached to what the earlier ones of the same poll did.
- `FirmwareFollowsPolicy`: `ImplementsPolicy`, by `PolicyStep` from `PolicyInv`, which adds to the types and `PowerInv` that
  the command under way is the one received (`CommandInv`), that `Cut` and `Restore` run only for a port under voltage
  control (`ChargeInv`), and that the sockets by the pin table are the ports with the Enabled bit.
  `NobodyElseSwitches` draws the consequence in the terms of the firmware, step by step: which socket goes on or
  off, or loses its mark, and by whose right. It is no property of a run.
- `HistoryOnlyRecords`: every behaviour of `HSpec` is one of `Spec`, so the
  theorems above carry over.
- `StoredSettingsLast`: `SettingsDurable`, by `SettingsInv`, which adds that RAM mirrors
  the EEPROM for the ports the boot loop has passed. Without that a command could
  write back a RAM byte that never was the stored one; after Ctrl-] it really can.
- `ManualWins` and `PortsObey`: `VctlAuthority` and `OrdersObeyed`, by `AuthorityInv`, which
  adds that `Cut` and `Restore` only run for a port under voltage control.
- `TwoPollsBehindASwitch`: `TwoPollsOnceSettled`, by `PollInv`: a changing mark made
  under the present voltage control has a poll behind it.

The command line and the names:

- `TailStaysClean`: in `LineEditor`, the position stays in the buffer and all cells
  from it on are zero. It is inductive as it stands.
- `EditorRefinesLine`: `LineEditor` implements `LineBuffer`. The lemma that matters is
  `StringIsText`: the string up to the first zero in the array is the text of the
  abstract line, which is where the clean tail is needed. `TailCleanForNames` and
  `NamesRefineLine` carry both over to `NameStore`, where they are the properties of the run.
- `NamesAlwaysEnd`: `NamesEnd`, by the stronger `LastEnds`: the last byte of every name is an
  end byte, which no other write touches because cells of different names differ.
- `NamesReadBack`: `NamesKept`, for any bytes typed, 255 included, by `KeptInv`, which adds for a write under way that the cells before the
  position already hold the argument (`CopyInv`), and for a reset which cells are
  erased (`EraseInv`). Where a name ends is the least index of an end byte.

The settings:

- `SettingsTypeCorrect`: every setting reads as a legal value from any bytes at all.
- `SettingsReadBack`: `SettingsKept`, for every integer typed that the code accepts, by its own `KeptInv`: the bytes
  already written of the job, the cells already erased below `at`, no single byte setting torn, and the rest as
  accepted. `AcceptedTaken` says which argument a number accepted becomes and `ValueWanted` that its bytes read as
  `Wanted`. Under it lie lemmas
  about the arithmetic: `TenthsKept` (the float round trip of a calibration is exact, over all values
  in range), `MantissaBytes`, `LimitTaken`, and `OffsetInjective` (no two settings share a cell).
- `LimitsNeverLaxer`: `LimitNeverLaxer`, by `LimitInv`, from -32768 on, where a number no longer wraps to
  a larger one.
- `DefaultsNeverTrip`: `DefaultNeverTrips`, since no mixture of bytes reads as a reference
  above 4.7 V.

The USB modules and the utility:

- `StreamTypeCorrect`, `RepliesImplement`, `TypingImplements`: `UsbStream` refines `ByteStream` in both directions, by
  `StreamInv`. It says that a call no upset interrupted works on its own endpoint, with the bank in
  the condition its last test found; all that may go wrong is under `shaken`.
- `RepliesInOrder`, `CommandsInOrder`: whatever the number of upsets, what was received and
  what is in a bank is in the order it was sent and holds no byte twice (but for byte 0, the one nobody
  sent). They follow from the two refinements, by what the actions of `ByteStream` keep.
- `ControlTypeCorrect`, `HandlersPileUpNoFurther`, `MainAlwaysListens`: by `Nesting` (there is
  one handler at most for each event on the bus, and one fewer while the interrupt is enabled) and
  `Listening`. `SpinOrLeave` says that a step of a handler leaves the host's setup packet alone or stalls it.
- `AcknowledgedIsInForce`: `SessionAgrees`, by `SessionInv`. That the two sides agree is not inductive: it
  rests on where the host is in its transfer (`Transfer`), on where the handler of that transfer is
  meanwhile (`Served`), on what every handler on the stack still waits for (`Frames`), and on the two handlers
  that a reset leaves never meeting a suspension (`Apart`).
- `HandlerAndHostGoOn`: while the host gives up no transfer, a handler that waits has what it waits for or it is
  the host's turn, and a setup packet finds no handler, the interrupt enabled and the clock running
  (`NobodyStuck`, no property of a run). It is the safety core of `HandlersEnd` and `RequestsTaken`: what is left to
  fairness is only that whoever can go on does. `CourseInv` says for each place where a handler waits which
  stage of which transfer the host is in.
- `HostTypeCorrect`, `NoRunSteals`: `NothingStolen`, by `Alone` (one run at most has the port) and `Continues`:
  the bank goes on where the run that has the port is, and ends with the last piece printed, since a
  piece is lost only while nobody has the port open.
- `RunsShowTheirReplies`: `CalmReplies`, by `CalmInv`. In calm times what a run has shown, what waits
  in the bank for it and what the unit is printing follow each other in one script: the rest of
  the last prompt, the echo, the reply, the `#`. How far the script has come is read off what is left
  of the command typed; between two runs nothing is left but the rest of a prompt.

Only model-checked: everything under fairness (`OverloadTrips`, `PcycleRestores`, `LedGoesOut`,
`VoltageControlSettles`, `PrintedIsSent`, `HandlersEnd`, `RequestsTaken`, `RunsEnd`), which is out of the prover's
reach. Every other property that a passing run checks is a theorem.

## Not modelled

Inside the modelled parts:

- Time. A step has no length, so nothing is said of the 10 ms or 5 s of README.md, nor how long an overload
  of another port waits for a PCYCLE (line 245).
- The ADC, its averaging and the SPI bus. Which ports are over
  their limit, and the voltage, are inputs of `PduCore`; `Settings` has what a reading means.
- The matching of command words and of port digits. `Commands` lists results.
- What the commands print. The status reports only read `PORT_STATE`, which `PinsMatchState` ties to the pins.
- `SetFeature(ENDPOINT_HALT)`, the descriptors, and the loop of `USB_DeviceTask`, which in this build finds
  nothing to do (control requests are served by the interrupt).

Assumed:

- a write of one byte to the EEPROM is atomic; the order of the bytes of a word is open;
- single precision operations are correctly rounded, and `atoi` wraps at 16 bits;
- the controller drops an answer nobody fetched when a setup packet comes, and handlers are
  faster than the host's pause between two transfers;
- SetConfiguration's handler is not split by a suspension in `UsbStream` (it is in `UsbControl`);
- the terminal does not echo what the unit prints before the utility has set it up.

Seen and without a property, because there is no statement of what ought to hold: what becomes of the rest of a
line that a message or its own length dropped (lines 136 and 628; `LineBuffer` lets a line be dropped at any time),
or of the part of a line that an earlier session left (`CalmReplies` is about calm times); a cuton threshold below the cutoff
makes a port switch twice in one poll (line 668); VCTLON on a port that tripped lets voltage
control turn it on again (line 309); one voltage sample serves all ports of a poll, which may print in
between (line 653); with the default calibration nothing above about 8.17 A can be measured; a
flush that an upset interrupts may leave out the empty packet.

Left out whole: the SNMP bridge (a stateless script), the Cacti templates, the case, the build files, and of
LUFA its host mode, its other device classes, its other chips and its
demos. The build compiles none of these; they are most of the lines of the repository, so
the mapped share of it stays small however much of the firmware is modelled.

## Plan

Done: all modules above with their proofs. What would come next, in this order:

1. `PduTimed`: the loop with durations (PCYCLE, printing to a host that does not
   read), to bound how long an overload lasts.
2. `CommandParse`: the prefixes in the order they are tried, and the port digits.
