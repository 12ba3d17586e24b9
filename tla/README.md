# A verification model of JcPimMultiBandV2

`src/JcPimMultiBandV2` is a Windows DLL that drives a test rig for passive
intermodulation (PIM): two signal generators with power amplifiers, a spectrum
analyzer, a power sensor and a matrix of relays in nine TCP modules that routes
seven bands and two ports.  A client selects a band and a port, requests a power,
sets two carriers and reads the intermodulation product.  Before every
measurement the library levels both carriers through couplers, with corrections
from a calibration database that it also records itself.

The library starts no thread.  A call runs to its return before the next one
starts.  What makes it hard is that every command to an instrument may fail, be
lost or take effect although it was reported as failed; that drivers, matrix and
API each keep their own idea of what the hardware does; and that power is on
while it is being corrected and re-routed.

## Inventory

| part | state it keeps | operations | talks to |
|---|---|---|---|
| Transmit control (`JcApi.cpp` 134-361, 483-663, 833-896) | selected band and port, requested powers, internal offsets, corrections `dd1` `dd2` (`JcPimObject.h`) | `fnSetMeasBand`, `fnSetDutPort`, `fnCheckReceiveChannel`, `fnSetTxPower`, `fnSetTxOn`, `fnSetTxFreqs`, `HwSetTxFreqs` | generators, matrix, sensor, database |
| Signal generators (`ClsSigAgN5181A.hpp`, `ClsSigRsSMxSerial`) | last frequency and level written, status of the last command | `InstrSetFreqPow`, `InstrOpenPow`, reference status | VISA or serial port |
| Switch matrix driver (`Switch/`, `ClsJcSwitch`) | frame of every module, a socket and a "connected" flag per module | `SwitchExcut`, repair (disconnect, reset, reconnect) | nine TCP modules |
| Relay tables (`Switch/switch_info.h`) | none | rows of band, port and coupler | read by the driver |
| Transmit calibration (`JcApi.cpp` 1098-1380) | sensor choice | `JcSetOffsetTx`, `JcSetOffsetTx_Single`, `JcSetOffsetTX_Config` | generators, matrix, analyzer, sensors, database |
| Receive side (`JcApi.cpp` 363-400, 547-563, 783-793, 960-1060) | order, averages | `fnGetImResult`, `JcSetOffsetRx`, `HwGet_Vco` | analyzer, generator 1, database |
| Spectrum analyzers (`ClsAnaAgN9020A.hpp`, `ClsAnaRsFspSerial`) | last frequency, preset settings | `InstrGetAnalyzer`, centre frequency, settings | VISA or serial port |
| Power sensors (`ClsSenRsNrpz`, `ClsSenRsNrt`, `ClsSenAgU2000A`) | none but the session; the instrument's answers on their way | `InstrGetSesnor` | VISA, NRP library |
| Offset database (`JcOffsetDB.hpp`) | one row per band, port, carrier, kind and power | `Store_v2`, `OffsetTx`, `OffsetRx`, `OffsetVco` | SQLite |
| Session (`JcApi.cpp` 35-131, 670-781, 1336-1423, `JcPimObject.h`, `dllmain.cpp`) | the singleton with the addresses, drivers, connection statuses and the VISA resource manager | `fnSetInit`, `fnSetExit`, `JcConn...`, the external sensor | all of the above |
| Transport (`ClsInstrAgilent.hpp`) | a VISA session | `AgWrite`, `AgWriteAndRead` | VISA |

The network analyzer driver is never instantiated.  `3rdParty/` is vendored,
`TestDemo/` is a manual client, and there are no automated tests.

What makes each part correct:

* transmit control: bounded corrections and levels, readings taken where they
  are believed to be taken, amplifiers off after a measurement;
* generators: the cached level is the level of the generator, a good status means
  set;
* sensors: a reading is of the measurement it triggered, and it returns;
* matrix driver: success means relays in position, failures of the past do not
  make a healthy command fail, one channel per switch;
* calibration: levels below the limit, level and detector rows that belong
  together, no reading with the wrong amplifier on;
* receive side: the reading belongs to the frequency, the offset to the band;
* database: exact on the grid, between the corners elsewhere, an error outside;
* session: what counts as connected is, nothing of an earlier connection is taken
  for a present one, and an exit leaves nothing open.

## Modules

| module | models |
|---|---|
| `Instruments` | the rig shared by transmit control and calibration: two generators, the level caches of their drivers, the position of the matrix |
| `TxCycle` | transmit control |
| `SwitchTable` | the relay tables and their translation into frames |
| `MatrixContract` | what a matrix command promises to its callers (abstract specification) |
| `SwitchMatrix` | `implementsetting::Excute` with the socket operations of `com_io_ctl` |
| `TxCalibration` | `JcSetOffsetTx` with `JcSetOffsetTx_Single` |
| `Analyzer` | the analyzer and its two drivers: presets, centring, offset, their caches, lost commands |
| `Receiver` | programming and reading the product, the VCO check, `JcSetOffsetRx` |
| `OffsetDB` | tables of frequencies, stored rows, interpolated lookups |
| `Session` | connecting to the instruments, the external sensor, letting everything go |
| `Drivers` | the drivers of generators and power sensors, and the bus below them |
| `MCTxCycle`, `MCSwitchMatrix`, `MCTxCalibration`, `MCReceiver`, `MCOffsetDB`, `MCSession`, `MCDrivers` | instances for TLC |
| `TxCycleProofs`, `SwitchMatrixProofs`, `TxCalibrationProofs`, `ReceiverProofs`, `OffsetDBProofs`, `SessionProofs`, `DriversProofs` | theorems |

`TxCycle`, `TxCalibration` and `Receiver` extend `Instruments`, whose `SetSwitch` is the
contract of the matrix: every relay in position, or a failure that leaves any
mixture.  `SwitchMatrix` implements that contract (`MatrixContract`, instantiated
with a refinement mapping, and `MatrixIsSetSwitch`), and `Drivers` shows that the drivers of the generators
keep the contract of `SetFreqPow` and `OpenPow` (`GeneratorContract`, an instance of
`Instruments`).  So the parts compose without multiplying their states.

### Transmit control

Variables are the fields of `JcPimObject` (`now_band`, `now_dut_port`, `internal`
for `offset_internal_txPowN`, `dd` for `dd1` and `dd2`) and the program counter
and locals of the one running call (`pc`, `call`, `cr`, `i`, `acc`, `ret`).
`target` is `now_txPowN + offset_txPowN`, the only way the code uses the two.
`avg` and `refused` record for the properties what the last average looked like
and which generators refused an output command.

A call that only selects is one step.  `fnSetTxFreqs` is a step per instrument
command: two programmings (`Program`), two output commands (`OpenSig1`,
`OpenSig2`), and for each carrier the coupling (`Couple`), up to four rounds of
reading (`Read`, and `Reread` when the first average is outside the window) and
correction (`Adjust`), then the switch-off.  Every error path of the code is a
disjunct.

Powers are whole dB and corrections tenths of a dB, so that the gains 0.9 and
0.6 are the integers 9 and 6.  A reading is a deviation chosen from
`Deviations`.  Frequencies are abstracted; that a frequency write may fail shows
as a command that fails although the level did not change.  The band table is
that of external bands (`isUseExtBand` is true unless a client changes it).

### Signal generators and LateWrites

`SetFreqPow` writes a level only when it differs from the cached one, and updates
the cache only when the write succeeded.  With `LateWrites` a write reported as
failed may reach the generator all the same, which is what a timeout on the bus
means.  `CorrectionBound` and `DriveBound` are checked and proved with late writes;
`LoopInSync` and `SensedAtStored` do not hold with them, and are checked and
proved without.

A generator and its driver's cache also part through a reset.  The reference check of
the Rohde & Schwarz driver (`GetReferenceStatus`, reached by `fnCheckTwoSignalROSC` and
`JcGetSig_ExtRefStatus`) sends `*RST` when the external reference is lost and leaves the
caches alone (lines 138-144), so that the next request of the cached level is not sent.
`SMx` are the carriers with that driver, `ResetPow` the level of the preset, and
`AtPreset` a generator after it, which is also how a new session finds one while the new
driver's cache is 0.  The checks are calls of `TxCycle`, `TxCalibration` and `Receiver`
(`CheckTwoSignalROSC`, `CheckReference`).

Nothing in the code keeps a skipped request from meeting a preset, so the properties say
what is left: `LoopInSync` that only the first round of a levelling can judge such a
generator, because its correction is a new level and always sent; `SensedAtStored`,
`SwitchedOnProtected` and `RxProtected` that the generator is at the level meant or at
its preset, never at one of an earlier call; and `Honest`, on which they rest, that a
generator is at its cached level or its preset.

### Switch matrix

`bak` is `__ipGpioBak`, `state` is `__socketState`, `sock` is `__socketClient` with
what the handle really is, and `rx` the receive buffer of `Excute`.  One command
(`SwitchExcut`) builds the frames of all its rows (`AddActionList`) and then, for
each module in the order of their addresses, writes and reads (`Write`, `Read`);
on any failure every module of the command is disconnected, reset and
reconnected (`Reset`, `Reconnect`) and the command is sent again, three times at
most.

`IODisConnect`'s way of recording success as "connected" and the early end of
the reconnection loop are kept, with the sockets they leave behind (`none`,
`raw`, `pending`, `open`, `gone`).  A frame arrives whole or not at all; frames
are compared as sets of closed outputs, the checksum being a function of them.
`echoed` and `faults` record for the properties who answered and whose
connection failed, `hungup` which of them closed it in an orderly way: `recv` then
returns 0 and leaves in the buffer what was read before, so that such a module may be
taken as confirmed.  The contract excepts these modules.  Message boxes, logs and delays are left out, and `socket()`
itself does not fail.

### Transmit calibration

One step per generator command, reading, detector reading and stored row.
`written` says whether the last generator write succeeded, `refused` which
generators refused an output command, `forgotten` which amplifier the error path of
an unreadable spectrum should have switched off and did not.  What is stored is the number of the
calibration that stored it (`run`): the properties are about which rows belong
together.  The statuses are the code's: a failed switch, a failed save of either row and
no power all return `JC_STATUS_ERROR` (lines 1137, 1167, 1172, 1264), so `RowsMatchStatus`
says of that status only that the rows are a prefix of the order in which they are
stored.  That a caller cannot tell whether the level row was replaced without its
detector row is a defect of the code.  The test of `p_true` against the source limit inside the reading loop
(line 1248) is left out; `LevelInv` in `TxCalibrationProofs` shows that it never
succeeds.  A frequency table without points is not modelled.

### Receive side

`sa` is the analyzer with its driver: what it is set to (`at`), the cached frequency
of the Agilent driver (`freq_now`), the cached preset of the Rohde & Schwarz driver
(`pp`) and, for the properties, the settings whose last command was lost (`missed`).
The drivers look at no status, so every group of commands may lose any member of
`Losses`.  Calls are one step, except `JcSetOffsetRx`, which has a step per generator
command and reading.  `read` records the last reading of a call: what for, at which
frequency and with which offset it was meant, and what the analyzer was set to.

`Orderly` is a client that reads every product it programs.  For any other client the
Agilent driver reads at the wrong frequency: a VCO check leaves its frequency in the
cache, `fnSetTxFreqs` moves the centre to the product behind the cache, and the next
VCO check skips the centring.  The documented sequence does not do this, so
`ReadsWhereAsked` is stated for it; the Rohde & Schwarz driver needs no such client.

A transmit call (`Transmitted`) may leave generator 1 as it was, or in any state of
`Leftovers`: cache, level and output.  `LeftoverAssumption` says that without late writes
the level is the cached one or the preset, which `CachesTellLevels` proves of both models
of the transmit side; among the states checked is a cache that holds the protective level
over a generator at its preset.  `JcSetOffsetRx` looks at no status of its level
commands.  `written` remembers whether one was acknowledged in the present call (a
skipped one counts as acknowledged), and `RxProtected`
speaks from then on; before that, the generator may radiate at what it was left with.  A transmit calibration that failed leaves its
settings in the analyzer; `unrestored` remembers that, and `SettingsFit` excepts the
readings until something restores them.

### Offset database

`txRows` and `rxRows` are the two tables of offsets, `TxGrid` and `RxGrid` the tables
of frequencies the library only reads.  A lookup is one expression, since it changes
nothing: the interval of the frequency, the columns of its ends, the interval of
levels among the rows stored, and two interpolations.  Three conversions matter and
are kept: numbers enter a query with six digits (`Printed`, any monotone rounding),
the maximum or minimum of no row is NULL and reads as 0 (`Largest`, `Smallest`), and
`FreqHeader` stops at the first blank row while lookups search all.  Values are
fractions, so that no rounding of the arithmetic hides a wrong formula; the rounding
of doubles is left out.  IDs number the rows of a table of frequencies from 1, and
offsets are stored by that number.  Port, carrier and kind are one key.

That NULL reads as 0 makes a lookup outside the range fail only because no row has
the frequency or level 0.  With a calibration at 0 dBm, or a blank frequency stored
as 0, a lookup above every row silently extrapolates to that row: `FailsOutside`
excepts exactly this.

### Session

The object exists from the first call on, so a state without it is not needed.
`vaddr`, `rm` (`viDefaultRM`), `now_status`, `isSwhConn`, `ext_sen_index` and
`isExtSenConn` are its fields; `driver` holds for each device the kind of library its
driver uses, the address it was opened at and the resource manager its session belongs
to.  A call that connects is a step per device (`Step`), in the order of `fnSetInit`;
everything else is one step.  Any connection may fail, and any instrument may stay
silent or identify as something unknown.

`rms` and `orphans` are what VISA holds open: resource managers, and those to which
sessions belong that no driver holds any more.  `asked` is the address the client last
gave for a device.  `orderly` is a client that exits before it initialises again, does
not connect a device twice and closes an external sensor of the NRP library itself;
what the properties say of addresses and of leaks is about such a client, because of
any other these are true of the code:

* addresses are appended to those of the calls before (line 48), so that a repeated
  initialisation connects to the old ones, and one after a list that was too short reads
  its own list off by as many places;
* a device left out or not identified keeps its status and driver;
* the matrix counts as connected when its tables are loaded, whether or not a module
  answers (this holds for every client);
* a driver that is replaced leaves its session open, and a second initialisation the
  first one's resource manager.

An external sensor counts as connected before it is identified (line 1348).  Closing
one that was not calls a driver that does not exist; the process ends, which is the
action `CloseMissing`.

### Drivers and bus

One instrument of one of five kinds is connected, on a bus that discards unread answers
when a new message arrives (`"message"`: GPIB, USB) or keeps them (`"socket"`).

For a generator, `now` are `_freq_now` and `_pow_now`, `isCmdSucc` the status, `gen` and
`rf` the instrument.  A request that is equal to what the driver remembers is not sent
and returns the status of the call before; `_isCmdSucc &= InstrSetPow(..)` calls a
function that assigns the variable on its left, and both orders are allowed (`early`).
`claims` is what the last request with a good status says was set, both frequency and
level.  The code does not keep that promise everywhere, and `SuccessMeansSet` names where:
the generator is at its preset, because a new session or the reference check
(`ClsSigRsSMxSerial.cpp:141`) reset it and the caches did not follow; the command of the
frequency failed and the good status is that of the level; or the setting is `astray`, a
command reported as failed having been carried out late.  What is left is that a success
never leaves the value of another request.

For a sensor, `queue` and `owed` are the answers that wait and that are yet to come,
`held` the measurement the instrument has.  A query is lost, answered in time, or
answered after the driver stopped waiting.  The NRT driver ignores every status, polls
`*OPC?` until it reads an odd number and then reads whatever comes; so does the model.
The NRP-Z driver asks whether the measurement is complete until it is, ignoring the
status of the query (`ClsSenRsNrpz.hpp` lines 149-156); both polls are unbounded, and
`Poll` may find the measurement incomplete any number of times.

The steps of the drivers are not interleaved with the API's calls in one state space:
`GeneratorContract` carries the generators over to `TxCycle` and `TxCalibration`, and
`FreshReading` says when a reading there is a measurement.

## Runs

| run | properties | what it shows |
|---|---|---|
| `TxLevels` | `CorrectionBound` `DriveBound` `FaultConfirmed` `NoHotPathMove` | four rounds, four readings, late writes, a reset of generator 1, a client in the documented order: corrections and levels stay bounded, single bad averages do not abort, no path is moved under power |
| `TxRouting` | `TypeOK` `ReadsOwnPath` `RfOffAfterLevelling` `LoopInSync` `CallReturns` | two bands, both ports, resets of both generators, a client in any order: readings are what they are taken for, the rig is silent after a success or a levelling fault, calls return |
| `SwitchMatrix` | `TypeOK` `EchoIsOwn` `AnsweredMeansSet` `HealsItself` `OneChannelClosed` `KeepsContract` `CallReturns` | the real tables, closed, garbled and lost connections; the driver implements the contract and commands return |
| `CalLevels` | `TypeOK` `BelowLimit` `SensedAtStored` `ReadsAlone` `RowsMatchStatus` `CalibrationReturns` | two calibrations, two points, two paths, both sensors, a reset of generator 1, every failure |
| `Receiver` | `TypeOK` `ReadsWhereAsked` `OffsetFits` `SettingsFit` `RxProtected` `PassMeansReference` `RxEndsSilent` | calls in any order with either driver, a generator reset or left with a stale cache: readings are taken as they were meant, a receive calibration is at its protective level or the preset and ends silent |
| `OffsetDB` | `TypeOK` `ExactWhereCalibrated` `BetweenNeighbours` `FailsOutside` | every lookup over every set of stored rows: exact on the grid, between neighbours inside, an error outside |
| `Session` | `TypeOK` `ConnectedMeansLive` `LeavesNothing` | initialisations, reconnections, external sensor and exits in any order, every failure: connected devices are live and the right ones, an orderly exit leaves nothing open |
| `Drivers` | `SuccessMeansSet` `FreshReading` `GeneratorContract` `ReadingReturns` | all five drivers, lost and late commands and answers: what a status and a reading mean, the contract of the generators, readings return |
| `TxSecondPower` | `SecondPowerHonoured` (violated) | `fnSetTxPower` ignores the second power |
| `TxSwitchOff` | `BothToldToStop` (violated) | switching both off stops at the first failure |
| `CalReadError` | `SilentAfterReadError` (violated) | the wrong amplifier is switched off |
| `SessionInitTruth` | `InitTellsTruth` (violated) | an initialisation without a resource manager returns success |

The four violated properties are statements of the code's comments and of its client:

* `JcApi.cpp:142` documents two powers; line 260 uses the first one for both.
* `JcApi.cpp:147` says that carrier 0 acts on both; line 349 returns before the
  second generator is told to stop, and the callers ignore the status.
* `JcApi.cpp:1229` says "switch off the amplifier"; line 1230 names the first one
  whichever is being calibrated.  The next calibration then starts with the
  second amplifier on, which is why `ReadsAlone` excepts an amplifier that is
  `forgotten`.
* `TestDemo.cpp:98` takes the status 0 of `fnSetInit` for success; line 71 returns
  `false`, which is 0, when VISA has no resource manager.

### Bounds

* `MCRouteDevs` and `MCLevelDevs` hold a reading on target, one inside and one
  outside the window, and (levels) one below the floor; three integer deviations
  separate all branches of the loop.
* `Rounds` is 4 (the code's) where levels matter and 2, one of each gain, where
  routing does.
* `SMx` is {1} where levels matter (one generator that can be reset, one that cannot),
  {1, 2} in `TxRouting`, and empty in the two runs whose violations have nothing to do
  with resets.  The preset is -144 dBm, apart from every level that is requested.
* Two bands: the reading's band, and one that is translated to another index;
  both ports.  Requests of 43 and 45 dBm lie on both sides of the source limit.
* The matrix run uses the tables of the rig with two commands whose frames
  overlap in every module they share, and `Attempts` is the code's 3.
* Calibration: 2 rounds of which 1 corrects, where the code has 8 and 4: one that
  does, and one after it that does not.  Two readings for the code's three.  Deviations
  on target, one whose single correction ends exactly at the limit, and one below.  Two points, so that one follows another; two
  calibrations, so that rows of an earlier one exist.

* Receiver: one pair of carriers whose products in either band, the points of the
  receive calibration and the transmit calibration's frequency coincide where a stale
  cache would show; a VCO that is received and one that is not; one calibration, so
  that its row and the one before differ.  Of the commands only centring gets lost
  (`Losses`), the one whose loss a cache could prolong.  Two orders, one of which is refused.
  Leftovers are a level with its cache, and a preset under a cache that holds the
  protective level.  About 390,000 states.
* Offset database: numbers print with two digits, and the frequencies looked up lie
  on, between and outside the points, some rounded onto a point or across one.  The
  receive table has a blank row with a point behind it.  Four levels, 0 dBm among
  them, two kinds, two different rows each: every combination of stored rows.
* Session: one instrument of each class and a second generator; a full list of
  addresses, and one that is too short, after which the full list is read one place off.
  Nine addresses allow two lists between exits, two resource managers a leaked one.
  About 3.7 million states.
* Drivers: two frequencies, two levels, one of them the 0 dBm a new driver remembers;
  four answers on a socket, so that answers of a poll and of an earlier reading can wait
  at once.

The proofs below are for all values of these constants.

### Fairness

`FairSpec` adds weak fairness of `Step`, a disjunction of the steps inside a call.
The code justifies it: it is sequential, every socket operation has a timeout,
and VISA calls have one of their own.  The drivers of two sensors poll without
a bound; that a reading returns is an assumption of `CallReturns` and
`CalibrationReturns`.  `Drivers` says what it takes: its `FairSpec` has weak fairness
of the driver's own steps and of the poll that ends the polling, that is, the instrument
answers one of the NRT's polls, or tells one of the NRP-Z's that the measurement is
complete, some day.  It need not answer any given one, and answers may
be lost or late.  Without that, either driver polls for ever.  Nothing is assumed of the
client.

## Proofs

All theorems hold for every value of the constants that the named assumptions admit.

Every safety property of the passing runs is a theorem.  The proofs also state
properties no run checks, defined beside their proofs.

`TxCycleProofs`: `TypeCorrect`, `CorrectionBounded`, `DriveBounded`, `ReadsItsOwnPath`,
`SilentAfterLevelling`, `FaultsAreConfirmed`, `NoHotPathMoves` (for a disciplined
client), `LoopsInSync` and `CachesTellLevels` (without late writes), `SuccessAccounted`
and `CallsEnd`.  Bounding a level needs that the accumulated correction is bounded by
the round number and that internal offsets were accepted by the range check; what a
reading measures needs the matrix and output commands that precede it in the same call,
so the invariant says for each control point what has been established so far.
For `SyncInv` a generator is at its cached level or its preset (`Honest`), a cached level
that was computed is the one in use (`CacheInv`), and after the first round the level is
the computed one (`LaterRounds`): a correction differs from the cached level by
definition, so it is sent, and a failed one ends the call.  `CachesTellLevels` is `Honest`
alone, through every call and reset.  `SuccessAccounted`: what a success of `fnSetTxFreqs` or `HwSetTxFreqs` says about the
levels the generators acknowledged.  `AccountInv` carries it: a correction is kept in
`dd1` or `dd2` as soon as it is computed, and the carrier levelled first is not touched
again.

`SwitchMatrixProofs`: `SwitchTypeCorrect`, `EchoesAreOwn`, `SuccessMeansSet`,
`DriverHealsItself`, `ChannelsExclusive`, `ChannelsNeverJoined`, `ContractKept` (the
refinement), `SuccessConnects`, `MatrixIsSetSwitch` and `CommandsEnd`.  The inductive
invariant `SwitchInv` says which modules have been confirmed (those before the first one
still to do), whose frame is in the shared buffer, and what a broken socket implies
about `faults`.  The tables enter through `TableAssumption`, `DistinctFrames` (frames of
one command always differ, whatever earlier commands left closed) and
`SwitchAssumption`; TLC evaluates these on the rig's tables. `SuccessConnects` is proved
of the contract and reaches the driver through the refinement.  `MatrixIsSetSwitch`
joins the driver to its callers: the position they believe in (`Position`, known from a
success without hung-up modules until the next failure) moves as `SetSwitch` of
`Instruments` says when a command returns, and while it is known the relays are there.

`TxCalibrationProofs`: `CalibrationTypeCorrect`, `NeverAtLimit`, `SensesWhatItStores`,
`OpensProtected`, `CachesTellLevels` (these three without late writes),
`StatusTellsRows`, `CalibratesAlone`, `CalibrationEndsSilent`, `NeverSwitchesHot` and
`CalibrationsEnd`.  The invariants follow the control points: `LevelInv` (a level about
to be set is below the limit), `CacheInv` (the level is the cached one or the preset),
`RowsInv` (which rows are new while a carrier is in progress), `AloneInv` (which
amplifiers are quiet, and where the matrix is).

`ReceiverProofs`: `ReceiverTypeCorrect`, `ReadingsCentred`, `OffsetsFit`,
`SettingsFitReadings`, `ProtectsReceiver`, `CalibrationEndsSilent`,
`PassedAgainstReference`, `StoresWholeRows` and `ReceiveCalibrationsEnd`, for every set
of losses.  `AnalyzerInv` relates the caches to the analyzer: the preset cache is never
"vco" between calls (`PresetInv`), the range is that for products unless a failed
calibration left its own or a command was lost (`RangeInv`), the offset is cleared for
the whole of a receive calibration (`OffsetInv`), and the frequency cache equals the
centre except where the client owes a reading or the calibration is about to read
another frequency (`CentreInv`, `OrderInv`).  `GeneratorInv` follows generator 1
through the calibration: an acknowledged protective level is in the cache and no later
command of the call asks for another (`Acknowledged`), and the level is the cached one or
the preset (`Honest`).  That the check passes only against a
recorded level rests on `VcoAssumption`: the threshold is smaller than the distance of
any VCO reading from 0 and from -10000.

`OffsetDBProofs`: `RowsTyped`, `InterpolatesBetween`, `LooksUpExactly`,
`FailsExactlyOutside`, `StoresLocally`, `AnswersAreKept` and `AnswersInRange`, for any
tables, levels and monotone rounding.  `LineBetween`: a line between two points stays
between them.  `PrintedInterval` and `PrintedNeighbours`: the interval found for a
printed number has the number in it or is a single point, and its ends are neighbours of
the number, since rounding can move a number onto a point but never past one.
`LookupTx` applies the first twice, for frequency and level.  The invariant `RowsInv`
says that rows are complete and hold nothing that looks like an error.  Assumed: the
points of the tables survive printing (`GridAssumption`) and measurements are above
-10000 (`MeasuredAssumption`).  `StoresLocally` and `AnswersAreKept` compare lookups
before and after a calibration.  They rest on `LookupSame`, that a lookup reads the two
rows around its level only, and on a new level being at most closer than the neighbours
a query had.  Level 0 and frequency 0 are excepted where `max()` and `min()` over
nothing find them.

`SessionProofs`: `TypeCorrect`, `ConnectedLive`, `NothingLeft`, `HandlesStayLive` (which
needs no orderly client) and `CallsEnd`, for any addresses, lists and instruments.  The
invariants say of every device which resource manager its session belongs to, that this
one is open as long as the object is, and, in an orderly session, that a driver is at
the address last asked for and that nothing is open but the present resource manager and
its sessions.

`DriversProofs`: `TypeCorrect`, `SetWhenSuccessful`, `ContractImplemented` (an action
property, from what a request does to level and cache), `ReadsFresh`, `OneAnswerAtMost`,
`PollsAreNotReadings` and `OnlyPollsRepeat`. `Remembered`: what is not `astray` is at
what its driver remembers or at the preset, and the driver remembers what it claims or
its frequency command failed.  `Reading`: from
the trigger to the reading the sensor holds the new measurement, and an NRT on a message
bus owes no answer but that of the last poll.

Termination.  The prover handles neither fairness nor ENABLED, so `CallReturns` (of
transmit control and of the matrix), `CalibrationReturns` and `ReadingReturns` are only
model-checked.  Proved is the part of them that is about the code: a measure `StepsLeft`
that stays in a fixed range and falls with every step of a call (`CallsEnd`,
`CommandsEnd`, `CalibrationsEnd`, `ReceiveCalibrationsEnd`; for a sensor,
`OnlyPollsRepeat` says that the polls of the NRT and the NRP-Z are the only steps that
may repeat).  What TLC adds is that some step
is always possible and that, given an answer to one of them, the polls end.

How the parts fit.  Each model assumes something of the parts below it; these
assumptions are theorems of the models below: `MatrixIsSetSwitch` for the relays,
`ContractImplemented` for the generators (writes, outputs and resets), and
`CachesTellLevels` for `LeftoverAssumption`, the states in which `Receiver` takes over
generator 1 from the transmit side.

## Seen while modelling

Facts about the code that the models contain or leave out, and no run is made of:

* `fnSendCmd` (lines 421-432) sends commands for device 2, the spectrum analyzer by its
  own comment, to the power sensor, and those for device 3 to the analyzer.
* After a lost reference the Rohde & Schwarz generator is reset: its output is off, its
  level at the preset and its reference internal, but the driver's caches stay, and the
  next check finds no error and reports an external reference
  (`ClsSigRsSMxSerial.cpp` lines 138-148).  A request of the cached frequency or level is
  then skipped and reported as success.  Reset, output and caches are modelled; that the
  second check reports an external reference is not.
* `InstrSetFreqPow` can report success for a frequency that was not set: when the
  frequency fails and the power then succeeds, the status depends on the order in which
  the compiler reads `_isCmdSucc`.  The contract holds for the level in both orders.
* On a socket, the late `1` of a poll is read as a power of 1; and when the trigger is
  lost, `*OPC?` says at once that everything is complete and the last measurement is
  read again.  `FreshReading` excepts these two.
* A levelling that needs no correction leaves in `dd1` and `dd2` what an earlier one
  found (`JcApi.cpp` lines 612-613), and `HwSetTxFreqs` then adds that to the level (lines 652, 656).
  So a success of `fnSetTxFreqs` is stated as level or level plus kept correction.
* The range checks of the generators (`freq > max && freq < min`) never fail.

## Not modelled

* Ports other than 0 and 1: `JcSetSwitch` does not check its index, and what an index
  beyond the tables does is undefined.
* The matrix's sockets at exit (`SwitchClose`, `DisConnect`), and the enable flags of its
  modules, which only that disconnection looks at.
* The commands that configure a power sensor at connection, whose loss nobody sees.
* Raw commands (`fnSendCmd`): they may do anything to an instrument.
* A whole measurement from selection to product in one state space.  The contracts
  connect the parts instead; together they have too many states to be checked.
* The UDP and serial variants of the matrix transport and the network analyzer driver,
  which the library never uses, and the averaging of the analyzers' trace, which only
  computes a number.
* Logs, strings, configuration files, message boxes, the demonstration client.
* `3rdParty/`: about 12,200 of the 19,400 lines are vendored headers and the SQLite
  wrapper.  They are used through a handful of calls that are modelled by what they do
  to their callers, so most of the repository's lines have no definition here by nature.
