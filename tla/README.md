# rigflow: a TLA+ development

rigflow is a networked SDR transceiver: a server (`rigflow-server`, tokio tasks and one set of
blocking threads per radio) drives the hardware, a client (`rigflow-client`, egui plus a tokio
control task) shows the spectrum, plays the audio and keys the transmitter. This directory
models the control core of both sides, the media streams between them, and what the client
remembers and logs; checks it with TLC, and proves with TLAPS, for every value of the constants, each
invariant and action property the runs check. Paths below are relative to `src/`; server means `rigflow-server/src`,
client means `rigflow-client/src`, core means `rigflow-core/src`.

Contents: [1 inventory](#1-inventory) · [2 plan](#2-plan) · [3 modules](#3-modules-and-the-code) ·
[4 runs](#4-runs) · [5 disagreements](#5-where-the-code-and-its-documents-disagree) ·
[6 fairness](#6-fairness) · [7 proofs](#7-proofs) · [8 limits](#8-what-is-not-modelled-and-why)

## 1 Inventory

### Server

| Component | State | Operations | Talks to |
|---|---|---|---|
| Radio manager (`radio/manager.rs`, `types.rs`, `session.rs`) | map radio → state, lease, runtime, behind one RwLock | acquire, release, renew, send_command, rescan, list; daemons lease_expiry_loop and shutdown_all | spawns and joins workers; called by sessions |
| Worker life cycle (`radio/worker.rs` 302–1109) | async wrapper, std threads, stop_flag, startup and exit oneshots | open source, report Ready or Failed, run, take Stop, end of stream, join | manager (oneshots, command channel) |
| Worker transmit control (`radio/worker.rs` 1240–2560) | SharedControlState with its pending requests, live flags (tone, CW, mic), sweep cancel, snapshot | command thread: press and release of each key, tune, sweep, cancel, Stop; capture loop: take, refuse, key, end, re-arm | source, amplifier poller |
| Hermes-Lite 2 source (`source/hermeslite2.rs`) | socket, registers, tx_active, state of each transmit path | tune, tone, CW keying, SSB microphone, receive, PTT sequencing | capture loop |
| HR50 amplifier poller (`amplifier/mod.rs`) | last_freq_sent, command channel, published status | apply commands, follow the transmit frequency, query | capture loop, through atomics |
| Single-client slot (`net/websocket.rs` 45–160, `app_state.rs`) | active_client, udp_audio_target | claim, release, heartbeat eviction | UDP registration listener |
| UDP registration (`net/udp/udp_registration.rs`) | udp_audio_target, udp_waterfall_target | registration, time-sync probe | clients |
| Message handlers (`net/websocket.rs`) | SessionState.acquired_radio | acquire, release, renew, forwarded commands, disconnect; status forwarder | manager |
| Microphone queue (`net/udp/mic_audio.rs`) | bounded sample queue | push, drain, clear | SSB transmit |
| IQ recorder (`recording/iq_recorder.rs`) | bounded queue, drop count, file | start, write, stop | capture thread |
| Receive control (`radio/worker.rs` 1100–2330, 2900–3120) | SharedControlState, control_b, what the source was last set to, the queues to DSP-A and DSP-B | command thread; capture loop: configure, tune, filter, read, queue; rate switch | source, DSP threads, status forwarder |
| DSP, waterfall generator, other sources, discovery, configuration | filters; device handles; arguments | | capture thread; main |

### Client

| Component | State | Operations |
|---|---|---|
| Control connection (`net/websocket.rs`) | the socket halves; reconnect and re-acquire timers; last radio; rejection streak | user commands, server messages, two timers |
| Media runtime (`client_runtime.rs`) | media socket, registered server, probe thread | register, probe each second, stop |
| Media receiver (`net/udp.rs`) | partial waterfall rows by row_seq | chunk, expiry |
| Jitter buffer (core `audio/jitter_buffer.rs`) | ring of samples, priming, drift estimate | push, pop |
| Microphone (`mic.rs`) | ring, tx_streaming, external_tx_source | capture, send, clear |
| Owners of the transmitter (`ui/app.rs`, `ui/app_audio.rs`, `voice_keyer.rs`, `cw_text.rs`, `tci_server.rs`, `rigctl_server.rs`, `digital_tx.rs`) | focus latch, cat_ptt, playing and abort flags | a frame of the UI; clip and text threads; `trx`, `T`; end of a session |
| Tuning (`ui/app_center.rs`, `ui/view_interaction.rs`) | centre, target, drag, momentum, throttle | wheel, click, arrows, strip, QSY, drag, fling |
| Panels (`ui/panels/*.rs`) and echoes (`net/websocket.rs`) | UiState | mode with its stored preferences, VFO, split, swap, copy, source control |
| Persistence (`persistence/`, `ui/app_actions.rs`, `ui/panels/operator.rs`, `radios.rs`) | app state, one file per operator, bundle per radio, mirror in memory, autosave deadline | load, save, switch, reset, acquire, release |
| Contact log (`logging/`, `ui/app_logging.rs`, `app_import.rs`, `app_sync.rs`) | open store, view, query worker, selection, dialogs, plan | log, edit, delete, import, upload, download, switch |
| `rigflow-log`, export (`ui/app_export.rs`) | rows, row ids, bookmark | insert, delete, export |
| Digital receive, CW decoder, recorder, sidetone; callbook, DX cluster | audio devices; sockets | |

`PROJECT.json` has one entry for every component with its status, and under `hazards` what is
hard to test in each, at its line.

### Interactions and what is hard

* **The radio map is shared by every session and two daemons, and no operation holds its lock to
  the end.** acquire, release and cleanup each drop it to await a worker; afterwards some of their
  final steps write without looking again. What makes that correct is an ownership argument
  nobody wrote down: whoever took the runtime is the only one who will clear the lease.
* **A worker is stopped by two ways that race**, a Stop in its command queue and a oneshot that
  sets `stop_flag`; if the flag wins, what the handler of Stop would have done never happens.
* **Keys are flags other threads move at any moment.** An over goes through take, checks, lead
  delay, RF, tail; the key may go up, or the worker be stopped, between any two of these.
* **The amplifier hangs if it hears serial while keyed.** The poller and the capture thread share
  only atomics and a channel. The SWR sweep must know the amplifier is bypassed, through a lossy
  line and a status that is a cycle old.
* **The client reconnects and re-acquires by itself**, and the user can change their mind in the
  middle of either.
* **Every setting lives twice.** The client edits its copy at once, the worker applies commands
  later, and echoes of older edits come back in between and overwrite newer ones.
* **The operator can change under everything that is in flight**: a query, an import plan, an
  upload, an autosave.
* **Queues have limits**: microphone, DSP-A and DSP-B, the recorder, the jitter buffer; each has its
  own rule for what happens when it is full.
* **UDP decides where the stream goes** without looking at the slot that decides who is served.

### Correctness, component by component

| Component | What makes it correct |
|---|---|
| Radio manager | one lease per radio; a radio's stored worker is the lease's; a lease ends only with its worker told to stop; no worker is left that nobody can stop; expired leases end; operations return |
| Worker | stop ends every thread, whatever it is doing; the source is closed before a clean exit |
| Transmit control | RF only for a key that is down; release and stop end the over; an old cancel does not hit a new sweep |
| CW keyer | RF is ramped; hang time is honoured; abort and key-up end the session; a stuck key is cut |
| Amplifier | silent while keyed; sweeps only bypassed; the operator's mode returns; on the right band |
| Slot and media | one client; dead client evicted; stream goes to the served client |
| Client connection | connects only as asked; re-acquires only what is still wished; retry loops end |
| Settings and dial | at rest client and radio agree; the last choice wins; the controls of a mode follow it; no command of a gesture exposes a frequency nobody asked for |
| Owners of the transmitter | a key message is of somebody who still wants it; no key from a finger that is not there |
| Persistence | an operator's file holds that operator's choices; a newer file is not overwritten; an edit left alone is saved |
| Log and export | the list and the worked-before index are the open log's; no contact is skipped by the incremental export |
| Waterfall and audio | no row mixed of two; nothing in the jitter buffer behind its position; playout does not stall |
| Microphone, recorder, capture | no samples of an earlier press; a finished recording is what was captured; DSP-B cannot stall capture; the antenna filter follows the dial |

## 2 Plan

Order of work, most important behaviour first. All modules of 1–14 are written and checked; proofs as noted.

| # | Module | Composes | Abstract specification | Proof |
|---|---|---|---|---|
| 1 | `RadioManager` | `WorkerLifecycle` | `RadioLease` | done (`RadioManagerProofs`, `RadioManagerRefinement`): inductive invariant, the refinement |
| 2 | `TxControl` | | | done (`TxControlProofs`): TypeOK, PendingSweepNotCancelled, RfOnlyWhilePressed |
| 3 | `CwKeyer` | | | done (`CwKeyerProofs`): TypeOK, NoKeyClick, HangHonoured |
| 4 | `AmpInterlock` | | | done (`AmpInterlockProofs`): TypeOK, QueriesSilent, SweepBypassed |
| 5 | `ClientConnection`, `ClientSlot` | | | done (`MCLiveProofs`): types, ServedOwnsSlot, UserRespected |
| 6 | `SettingsSync`: panel, command thread, publisher, forwarder, echo | | | done (`MCPanelsProofs`): types, LastClickWins, FilterFollowsMode |
| 7 | `Dial`, `VfoControls`, `SourceSettings`: what the panels edit | | the server's state, at rest | done (`MCPanelsProofs`): types, RestAgrees, VfosAsShown, TxWhole, SourceAsShown |
| 8 | `PttOwners` | | each key has an owner, or is one of two orphans | done (`MCPanelsProofs`): KeyedByOwner, KeysUnderFinger |
| 9 | `OperatorStore` | | | done (`MCPanelsProofs`): OwnPreferences, KeepsNewer |
| 10 | `OperatorLog`, `LogExport` | | | done (`MCStreamsProofs`): types and the parts of LogWhole |
| 11 | `WaterfallRows`, `RxAudio` | | a row shown is one row sent | done (`MCStreamsProofs`): types and the parts of MediaInOrder |
| 12 | `MicUplink` | | FIFO that loses a prefix | done (`MCStreamsProofs`): types, QueueIsCurrent |
| 13 | `CaptureLoop`, `RateSwitch`, `IqRecording` | | | done (`MCStreamsProofs`): types, GateOfB, FilterFollowsDial, OneStrayBlock, FileWhole |
| 14 | `MCLive`, `MCPanels`, `MCStreams`: parts of one run | 3–13 | | their properties, from those of the parts |

Left: the refinements named above that are stated only as invariants (a FIFO that loses a prefix, an owner for each key); `Session`, the composition of `ClientConnection`, `ClientSlot` and `RadioManager` over one
network (their interface, RadioAcquired and RadioReleased, is in all three, but the product is far beyond the bounds at which
each is interesting), and a CW key-follower as the abstract specification of `CwKeyer`.

## 3 Modules and the code

### WorkerLifecycle, RadioManager, RadioLease

`WorkerLifecycle` has one record per worker, named by the lease it was spawned for. The tokio task
`run_radio_worker` and the thread set behind it are two parts of the record (`task`, `threads`)
because they end separately: the `stop_rx` arm sets `stop_flag` and returns, and the threads notice
later, when their source lets them. A failed startup is the state `failed`: the error was reported
and the main thread is blocked joining the command thread, until somebody stops the worker.

`RadioManager` is the map, its callers and the daemons. **An action is one critical section** and the
`pc` of a task's `job` record says which await it is in. acquire is `Reserve` (lease, Starting, spawn),
`Install` (store the runtime), then `Ready`, or `StartFails` and `FinishCleanup`; release is `Take` and
`FinishRelease`, reached from the client's message, from its disconnect, from a failed renewal and
from `ReleaseExpired`; send_command is `CheckCommand` (checks, clone of the sender) and `SendCommand`.
`Scan` collects the expired leases of a tick into `todo`; they are released one by one after.
`ShutdownAll` takes the runtimes, `ShutdownOne` signals one, `ShutdownJoin` waits for it, and the connection tasks
go on meanwhile, as they do in `main.rs`. Lease ids are uuids: a new one is any id that nothing
refers to (`Referenced`), which makes a finite set of ids reusable without hiding a stale reference.

`TtlCoversStartup` is the constant that says a lease does not expire under the acquire that took it.
`main.rs` 140–142 sets 30 s for the lease, 5 s for startup and 3 s for shutdown: the code has no
check of it, and with FALSE the safety properties fail, so it is an assumption of the proofs too.
`JoinTimeouts` says a join may give up; the safety run sets it TRUE, the liveness run FALSE.

`RadioLease` is the promise: a free radio is granted under an unused id, the worker of a lease begins
to take its commands, workers stop taking them, and a lease ends only when nothing is driven under it.
The refinement maps `holder` to the lease record, `driven` to the stored runtime.

### TxControl

The command thread and the capture loop of a Hermes-Lite worker. `pending` is the set of `pending_*`
requests, `live` the flags that keep an over up. The capture loop visits tune, sweep, tone, CW and
microphone in the order of the code (`After`) and works from `snap`. Within an over `phase` goes from
taken (the request is out of the control state) to lead (PTT, no RF), rf, tail; a sweep alternates gap
and rf over its points. The exits the source takes before any PTT (frequency out of range, inhibited,
a send that failed) are `Release` from taken. Two stop paths: `TakeStop` clears the live flags, `WrapperStops`
sets only the flag. One dial value stands for the effective transmit frequency and mode.

### CwKeyer

`tx_cw_key`, one action per state of its loop, one step per transmit packet, times in packets. The raised
cosine is its position (`level`, 0 to `Ramp`). The key and the abort flag move at any moment. `quiet` and
`down` are histories: packets since RF, and packets of RF since the key was last up.

### AmpInterlock

`run_amplifier_poller` and the part of the capture loop that touches what they share: `tx_active`, `amp_freq`,
`amp_fa_sent`, the command channel, the published status. The poller's checks of the keys are where they
are in the code: at the top, once before the queued commands, before the frequency, before each query
(four queries are one `Query` with one result) and nowhere after the last query. A look at `tx_active` and the write that follows are one
step: the write comes microseconds later while PTT follows `tx_active` by the FIFO pre-fill of some 50 ms.
Between two commands there are 120 ms (`SET_DRAIN`), which is more than that, so `ApplyNext` is a step of its own.
With `LossySerial` any write may fail; a keying mode that fails is logged and dropped (`amplifier/mod.rs` 373–391), and there is neither
a reply nor a retry. The restore after a sweep is one such write, made by the poller some time later, of the mode the sweep read at its begin. `lost` and `stale` are histories of
the two ways this goes wrong (the last keying mode written did not arrive; the sweep saved a mode that is not the operator's), `CutShort` is the third, a poller
that ended with commands left. `BypassUndone` excepts exactly these, and `RestoreArrives` and `RestoreIsCurrent` show that the first two happen (section 5).

### ClientConnection

`websocket_control_task`: its locals are the variables. `UserAcquire`, `UserRelease`, `UserConnect`,
`UserDisconnect` and `OtherSend` are the command arm, `Receive` and `SocketEnds` the read arm, `Reconnected`,
`ReconnectFails`, `Reacquire` and `ReacquireEnds` the timers. The network is the environment: a dead socket
still delivers what arrived before, and a send on it succeeds or fails; sends that use `?` end the task.
Answers join `inbox` when the request is sent, since the server answers in order.

### ClientSlot

The slot, the two media targets (always set together to one host: one variable), the connections, and the
probes of client programs, which begin with an attempt to connect and go on for as long as the program
runs. Datagrams are a set of hosts: a duplicate or a reordered probe says nothing new.

### RadioManagerInv, MCRadioManager, and the modules of theorems

The inductive invariant of the manager and the symmetry sets for TLC. `RadioManagerProofs`, `RadioManagerRefinement`, `TxControlProofs`,
`AmpInterlockProofs` and `CwKeyerProofs` prove about the module they are named after, `MCLiveProofs`, `MCPanelsProofs` and `MCStreamsProofs` about the
components those three put together: section 7.

### SettingsSync

What happens to a setting that both sides hold. Three kinds are told apart by what the code does with them: `mode`
travels both ways; `filter` is sent again by the client with every mode (`apply_mode_preferences`); `pitch` is filed by the
worker under its own mode. `BeginFrame` takes the snapshot of UiState and `DrawPanel` acts on it: the network task may write in between. `SendSnapshot` and `Forward` are the status forwarder: a snapshot with the acquire, the first update only
remembered, then differences.

### Dial

Each control of a VFO is an action with its own rule of what it sends (`Relative`, `Click`, `CenterOnTarget`, `MoveLo`, `Qsy`,
`Arrow`), and there is the drag with throttle (`open`), momentum, and the over that stops it. **A frame computes from the snapshot it began with** (`shot`, taken by `Look`), its
controls run in their order (`at`), and echoes are received in between: the wheel writes the snapshot's LO back over one that an echo has just shown, and sends the target alone
unless it panned (client `ui/app_center.rs` 607–614, 641–643, 649–652). The arrow keys take the LO under the lock. `Panned` and the clamps are
`freq_limits` and `tune_target_relative`; the two messages of a band button are those of `Qsy`. `paths` is the set of controls an operator keeps to in one behaviour. The drag keeps `lastSent`
(`last_sent_center_hz`), which no other control of this VFO writes, but the drag of the other VFO does (`OtherVfo`).

Two histories say when client and server may rest apart, and `RestAgrees` excepts these cases and no others: `held` (the throttle kept the last frame of a drag: the target), and `strayed` (a control put
an LO on the dial that is not the one sent last, and did not send it: the centre). `Steady` says who can be guilty of the second: the wheel, and a drag mixed with other controls; for everybody else the
property has no exception for the centre. Both go wrong in the code, see `WheelKeepsLo`, `DragKeepsLo` and `GestureLands` in section 5.

### PttOwners

Space through egui and the focus latch, one `Frame` from one snapshot; the clip thread and its guard, whose drop is three stores; the CW
text thread; and programs on rigctl and TCI connections. Any number of connections may be open (`Opens`), each is a thread or task of its own, and `set_ptt` is **three unlocked steps**: `SetPtt` stores
`cat_ptt`, `Route` switches the producer of the ring, `Send` queues the key message (client `rigctl_server.rs` 371–388, `tci_server.rs` 687–707). The sets of two connections interleave between any of these.
A connection ends whenever it is not in the middle of a request: `RigctlEnds` un-keys nothing (109–115, 124–144); `TciEnds` un-keys when `cat_ptt` is set, whoever set it (`end_session`).
`keyed` is the last key message sent, with its sender, which is what the server ends up with as
the queue is FIFO. `keyed.lapse` marks the two ways a program's key is left without an owner: its rigctl connection ended (`left`), or its key-down went out after another connection
had cleared `cat_ptt`, so that the end of its TCI session finds nothing to un-key (`raced`). `KeyedByOwner` excepts these two, `NoneLeavesTheKey` (section 5) does not. An acquired radio is needed for a message to have effect.

### VfoControls, SourceSettings

`VfoControls` has both VFOs and what they share; a gesture is a sequence of commands (swap, copy, split, tuning, a CAT
request) applied one by one with the transmit path reading between any two. `before` is the server at the begin of the gesture in
progress. `hasty` and `copied` are histories: whether a gesture began before the echoes of the last one had arrived, whether A was copied to B.
`SourceSettings` has the source's settings with the tuner (RTL-SDR: gain and gain mode are two calls whose order matters) and
the saved copy that is replayed.

### OperatorStore

Files by kind (missing, corrupt, of an older or a newer version), every save as load, migrate, change, write; a value is the operator who
chose it, so a preference that leaks is visible. `End` may come between the two writes of a handler.

### OperatorLog, LogExport

`OperatorLog` is a frame of the UI in its phases (snapshot, drain, draw, click, sync) with the query worker beside it. A selection, a dialog and a
plan remember the log they were made in, which the code does not; `misplaced` collects what was applied to another one. `LogExport` has
SQLite's row ids (one more than the highest there is), and a log with a bookmark for each operator. The worker writes the log it was given, while `ExportDone` moves the bookmark of
**the operator whose log is open by then** (client `ui/app_export.rs` 259–279), who may be another, or nobody; and an incremental run has the filter of the contact view ANDed to its condition (525–527), so each
run has a filter of its own. Three histories name what a bookmark can pass without writing it: `reissued` (contacts logged under a row id given before), `narrowed` (contacts the filter left out), `misfiled` (how far a run over another log moved the bookmark).

### WaterfallRows, RxAudio

`WaterfallRows` has the `row_seq` that wraps (`RowIds`), workers one after the other, each with a sender that counts from 0 again (`NextSender`) into the one reassembler of the client, chunks that are lost, reordered and doubled, and rows that are not
finite. A row is known by its sender and its number, so that rows of equal `row_seq` differ: two that are `Far` apart (`RowIds` or more numbers, or of two senders) can be mixed when everything between them is lost. `RxAudio` is the jitter buffer with
priming, concealment, re-anchoring and trim in samples, the session generation the media thread compares, and datagrams of an earlier session still
in flight.

### MicUplink

Blocks of audio by the press they were captured under; ring and queue drop their oldest; commands and datagrams travel apart and overtake
each other. The capture callback looks at `tx_streaming` and then takes the lock of the ring (client `mic.rs` 140–143); the two are one step here: a callback between them
when the key moves could add one block of the other side of the edge.

### CaptureLoop, RateSwitch, IqRecording

One turn of the capture thread in the order of the code: snapshot, configure (dual watch, mirror, direct sampling), tune and filter, recording requests, Spot, SWR sweep, and the over of tone, CW key or microphone,
read, queue. Each step takes what is asked for when it comes to it, while the filter and the bands it keys on come from the snapshot of the turn, so one turn may have several overs and a sweep on one snapshot. The sweep programs the antenna filter for its own band and
remembers it (`radio/worker.rs` 2423–2430); a same-band over programs without remembering (617–672). `swept` and `astray` are the histories of the two ways in which belief and source part.
A frequency stands for its band; band 1 is 160 m, below the high-pass, and 0 is outside the bands. `RateSwitch` follows one block at a time from
the source to the pipeline; `IqRecording` has the recorder's channel, its writer and the file, and what `source/wav.rs` plays of it.

### MCLive, MCPanels, MCStreams

These put several components into one run. The components of such a module share no variable, so a property of one says nothing about
the others, and interleaving them would only multiply states. `part` is chosen in the initial state and never changes: a behaviour is a behaviour of that
component alone, with the others at rest. Hence each property there is exactly that of the component, instantiated (`Store!EditsSaved` and so on), and the state count is
the sum, not the product. Their constants get values in the configuration and are otherwise free: what the proofs need of them is one named assumption per
module (`LiveAssumption`, `PanelsAssumption`, `PartsAssumption`), which TLC evaluates on each run. `AllTypeOK` is the conjunction of their type invariants; in `MCLive`
those of the keyer, the connection and the slot, since the other parts are typed in `MCPanels` and `MCStreams`. Every start of a component is taken, except that the operators of the log are symmetrical.

## 4 Runs

A run is listed in `PROJECT.json` with the properties it checks; each property of a passing run has a mutant, a
version of one action with a plausible slip (defined beside the action and marked *Slip*), under which it is violated.
More slips than mutants are in the modules: those also break the property they stand beside.

| Run | Bounds | What it shows |
|---|---|---|
| `RadioManager_safety` | 2 radios (one prunable), 2 connections, 2 leases, joins may time out; symmetric | all ownership properties in every interleaving of acquire, release, renew, commands, expiry, rescan, disconnect and shutdown, with workers that fail or end; `RadioLease` is implemented |
| `RadioManager_live` | 1 radio, 1 connection, 2 leases | operations return even if the source blocks for ever; expired leases end; Stopping and Faulted radios come back |
| `TxControl` | 2 dials (CW, SSB), 1 sweep point | RF starts only for a key that is down, in spite of every race of press, release, cancel and stop; key-up and stop end overs and threads |
| `AmpInterlock_sweep` | 1 band, 2 sweeps, 1 operator command, lossy line, stop | queries and frequencies are never written under PTT; the first sweep pulses only with the amplifier bypassed; after the last the operator's mode comes back, unless the restore was lost, out of date or cut off |
| `MCLive`, CwKeyer | ramp 2, hang 2, guard 4 packets | no key click, hang honoured, abort and key-up end the session |
| `MCLive`, ClientConnection | 2 servers, 1 radio, 2 messages under way | the client connects only as asked, the timers respect the user, retry loops end |
| `MCLive`, ClientSlot | 3 connections, 2 client programs | one client is served; a dead one is evicted; the stream finds the served client once nobody else probes |
| `MCLive`, RxAudio | 1 session, 3 packets | what waits is played, whatever is lost |
| `MCLive`, OperatorStore | 1 operator, 1 radio, writes may fail | an edit left alone is saved |
| `MCLive`, CaptureLoop | 2 bands, 1 command, queues of 1 | the capture thread comes round for ever though DSP-B may stop |
| `MCPanels` | 2 modes and 2 choices; 4 frequencies and 2 moves of the dial, over three sets of controls; 2 rigctl and 1 TCI connections, by four sets of owners; 2 frequencies, 2 pitches and 2 gestures of the VFOs; 2 gains, 2 edits, 1 acquire; 2 operators, 1 radio, writes may fail | at rest client and radio agree on mode, filter, dial, VFOs and source; keying has an owner; stored settings stay their operator's; each but in the ways its property names |
| `MCStreams` | 2 operators, 2 contacts, 2 clicks; 2 logs, 2 contacts exported, filters on 2 bands; 3 rows of 2 chunks under 2 row ids, 2 senders, 1 repeat; 5 audio packets; 2 presses, ring 2, queue 3; 3 bands, 2 commands; 2 rates, 2 switches; 4 IQ blocks | list and index are the open log's; the export skips nothing but in three ways; rows and audio keep their order; no stale microphone audio; gate, filter, rate and recording follow, the filter except after the overs `astray` marks |
| `RadioManager_exit`, `AmpInterlock_second_set`, `ClientConnection_failed_send`, `CwKeyer_stuck`, `OperatorLog_switch` | as small as shows it | violations: see section 5 |

**Why the bounds are enough.** Two radios are needed for a radio to keep its own lease while another moves (a
wrong key in the map, the expiry loop working through two claims), two connections for two parties to want one
radio, two leases for the old and the new owner of it. The server admits one client at a time, so two sessions in the
manager are more than the code can have, apart from the tail of one that is ending; what holds for two holds for one. `RadioManager_safety` sets
`HasTransmitter` FALSE since keying touches no other variable there. In `TxControl` the kinds of over are all present;
two dials distinguish old from new and CW from SSB. `CwKeyer`'s numbers are the smallest with a middle of the ramp, a hang
that can be cut short, and a guard longer than the ramp. In the client, two servers tell the one asked for from an earlier one,
and two messages under way let a verdict be followed by another.

For a setting that lives twice, two values and two edits are the shortest history in which an echo of the first edit meets the
second; a third edit meets the same echo. The dial's range has a received span and a soft edge inside it, so panning, clamping and both
ends occur; an echo within a frame needs two moves, one to be echoed and one that meets it. Two rigctl connections are two programs of one kind whose sets cross, the TCI one has the other way to end. Three rows of two chunks let an unfinished row meet a later one, and two chunks have a first and a last;
with two row ids the third row bears the id of the first, and with two senders the first row of the second bears it too, so both ways to meet an equal `row_seq` occur (the real one is 16 bits wide and comes round after 65 536 rows). Five packets are past one concealment run (three silences) and a full buffer (16 samples of
4 a packet). A press before and one after is what stale audio needs, and a queue longer than the prefill. Bands 0, 1 and 2 are outside, below and above the high-pass corner. Two operators are the
one before the switch and the one after, and the export that one of them began ends under the other; two clicks let something be begun with one and finished with the other.
Two sweeps are a sweep and one that begins before its restore was applied; one band is enough for what is said of keying mode and silence (the first frequency is new as well), and the proofs are for any bands.

`SweepBypassed` speaks of the first sweep. A second one begun before the poller applied the restore of the
first can read the bypass as the operator's mode, see below.

Invariants over `mode = "up"` exclude what shutdown_all leaves behind on purpose: it takes the runtimes without clearing the
leases, and the process is about to end. Properties "at rest" (`RestAgrees`, `VfosWhole`, `SourceAsShown`) say nothing while messages are under way, where
the two sides differ by design.

**Exceptions.** Where the code breaks a property in a way that could be pinned down, a history marks that way, the property excepts what is marked and nothing else, and the property without the exception is an entry of section 5 that TLC violates:
`hasty` (VFOs), `held` and `strayed` (dial), `keyed.lapse` (owners), `lost`, `stale` and `CutShort` (amplifier), `reissued`, `narrowed` and `misfiled` (export), `Far` rows (waterfall), `astray` (antenna filter). `overtaken` (microphone) and `doubtful` (rate) mark such ways too; what happens in them is told at the end of section 5 and in section 7.

## 5 Where the code and its documents disagree

Five are listed runs and findings (each quotes its line in `PROJECT.json`):

| Run | Property | What happens |
|---|---|---|
| `RadioManager_exit` | `StopUnkeys` | `run_radio_worker`'s stop arm returns before its threads have un-keyed, so shutdown_all finishes waiting, main returns and the process ends with PTT up |
| `AmpInterlock_second_set` | `SilentWhileKeyed` | the keys are looked at before the first queued command only: the second goes out under PTT |
| `ClientConnection_failed_send` | `TaskSurvives` | a send with `?` that meets the broken socket first ends the control task; nothing reconnects |
| `CwKeyer_stuck` | `StuckKeyGuarded` | with the key still down the fall turns into a rise with a new element: the guard dips the carrier for one packet |
| `OperatorLog_switch` | `NoneSurvivesSwitch` | selection, import plan, dialogs and the answer of an upload outlive a change of operator and are applied to the next operator's log |

More properties state what a document says or a reader might expect and the code does not provide. TLC finds each violated; a configuration
is kept for those that have one, the others need only their component's constants (those of its instance in `MCPanels` or `MCStreams`) and the property:

| Property (module) | Configuration | What happens |
|---|---|---|
| `OnlyExpiredReleased` (RadioManager) | `RadioManager_stale_scan.cfg` | a lease renewed between the scan and its turn is released all the same |
| `StopBreaksTone` (TxControl) | | if `stop_flag` wins, Stop is never taken and the tone plays to its own limit of 5 s |
| `SweepHeedsStop` (TxControl) | `TxControl_stop_sweep.cfg` | a sweep starts further pulses after the worker was told to stop |
| `KeyedOnCurrentDial` (TxControl) | `TxControl_stale_dial.cfg` | an over is keyed on the snapshot taken before other overs of the same iteration |
| `AmpLeftAsFound` (AmpInterlock) | | the worker ends with the restore still in the queue: the amplifier stays off |
| `RestoreArrives`, `RestoreIsCurrent` (AmpInterlock) | | the restore is written once without a reply, so a lossy line leaves the amplifier bypassed; a second sweep that begins before the restore was applied, or a mode set by hand during a sweep, makes the restored mode the wrong one |
| `EverySweepBypassed` (AmpInterlock) | `AmpInterlock_two_sweeps.cfg` | a sweep right after another one confirms its bypass from the old status while the restore is under way |
| `CrossBandOnTxBand` (AmpInterlock) | | `amp_fa_sent` is stored although the write failed |
| `OverOnTxBand` (AmpInterlock) | | only cross-band overs wait for the amplifier: after a change of the whole dial an over may go out first |
| `DropIsRetried` (ClientConnection) | | a Connect that fails has already cleared the pending reconnect |
| `ReacquireHeld` (ClientConnection) | | a radio that was refused, or was on another server, is asked for by the timer |
| `StreamStays` (ClientSlot) | `ClientSlot_second_client.cfg` | a client that is turned away, or only runs beside, takes the stream until the next probe of the served one |
| `CleanStart` (ClientSlot) | | a probe of the last client sets the target again before the next one is served |
| `TelemetryArrives` (SettingsSync) | `SettingsSync_TelemetryArrives.cfg` | the forwarder drops the first update after the snapshot (`net/websocket.rs` 346): what it alone carried does not arrive until it changes again |
| `ModesAgree`, `PitchReplayed` (SettingsSync) | | Ready precedes the first published status, so an acquire may get no snapshot; a replayed pitch is filed under the mode the worker is in |
| `DragKeepsLo` (Dial) | | only `pan_target_by` writes `last_sent_center_hz` (client `ui/app_center.rs` 719–727), one field for both VFOs. Drag, move the LO with another control, drag back to the LO sent before: the LO is taken to be sent, the target goes alone, and the server stays on the other LO (the comment there and `ui/state.rs` 526–528 say a change of centre still reaches it). Shown by `PathSets = {{"drag", "lo"}}` and three moves |
| `WheelKeepsLo` (Dial) | | two moves of the LO, the first echoed before the frame's snapshot, the second after it: a wheel notch that does not pan writes the first LO back over the second and sends the target alone (607–614, 641–652). At rest the client shows one LO and the server is tuned to the other. Shown by the first set of controls of `MCPanels` and three moves |
| `GestureLands` (Dial) | | the frame the throttle kept is not sent when the drag ends slowly, or an over cuts it |
| `EchoConfirms`, `PitchAsShown` (VfoControls) | | an echo of an earlier gesture overwrites the local copy of A to B; the client knows only the pitch of the mode it shows and copies it as both of B's |
| `GainAsShown` (SourceSettings) | `SourceSettings_gain.cfg` | in automatic mode a gain that was applied puts the tuner in manual mode: replayed settings and hardware differ |
| `SavedAsSet` (SourceSettings) | | an echo of an earlier edit is what gets saved |
| `FilterPassesBoth` (CaptureLoop) | | under dual watch an over on VFO A's own band leaves the filter of that band: `restore_rx_band` resets only after cross-band overs |
| `FilterOnTunedBand` (CaptureLoop) | | the same of the next tune: the over under dual watch moved the filter without the loop's knowledge, so when VFO A is tuned to the band the filter was on before, with dual watch off, the filter is believed to be there and not programmed (`radio/worker.rs` 617–672, 2193–2222). A single receiver meets the same after a sweep: the sweep stores the value of its own band (2423–2430), a same-band over later in that turn puts the filter back without storing it, and when the dial moves to the swept band nothing is programmed. `astray` marks both overs, and `FilterFollowsDial` excepts them |
| `TunerInRange` (CaptureLoop) | | the dial is clamped only when the capture thread sees the switch: on and off between two of its turns leaves the tuner with a dial it cannot reach |
| `SingleProducer` (PttOwners) | `PttOwners_producers.cfg` | rigctl or TCI during a voice clip: two producers fill one ring |
| `NoneLeavesTheKey` (PttOwners) | | a rigctl program that goes away while it transmits leaves the key down for nobody; so does a TCI program whose key-down crossed the key-up of another connection, as `cat_ptt` is then clear when its session ends |
| `BundleOfAcquiredRadio`, `ResumesAsLeft` (OperatorStore) | | a click on another radio while one is acquired files settings under it; the waterfall smoothing is saved and not restored |
| `ImportsOnce` (OperatorLog) | `OperatorLog_imports.cfg` | the plan is committed as it was made: a contact logged meanwhile is imported again |
| `InsertionOrder` (LogExport) | `LogExport_row_ids.cfg` | the id of a deleted newest contact is given again, and the next contact falls behind the bookmark |
| `OwnPosition` (LogExport) | | export the log of A, switch to B before it is done: Done moves B's bookmark to A's highest row id, and B's contacts up to it are skipped |
| `FilteredLater` (LogExport) | | an incremental run under a narrower view filter moves the bookmark past the contacts the filter left out |
| `OneRowAlways` (WaterfallRows) | | a row left unfinished and, 65 536 rows or one worker later with nothing received between, a row of the same `row_seq`: the second is completed with bins of the first, against client `net/udp.rs` 62–63 |
| `AnchoredInSession` (RxAudio) | `RxAudio_anchor.cfg` | a datagram of the old session that arrives after the reset anchors the new one |
| `KeyUpClears` (MicUplink) | | the queue is cleared at StartMicTx only |
| `PlaysWhole` (IqRecording) | | the sizes in the header are cut to 32 bits, 224 s at 2.4 MS/s |
| `OneRate`, `LossShown` (IqRecording) | | a recording goes on over a change of rate; blocks after a failed write are not counted |

Two changes of rate within one turn of the DSP thread leave its pipeline at the first (`doubtful` in `RateSwitch` marks it), and a recording's file name has
whole seconds, so one begun within the second of another replaces it; neither is a property here.

## 6 Fairness

| Specification | Assumed | Because |
|---|---|---|
| `RadioManager` | a started operation continues, the expiry loop ticks and releases, the wrapper tasks are polled, shutdown goes on | tokio polls a ready task; the critical sections never block. **No fairness for the worker's threads**: a source may block for ever, and no client needs to renew, release or disconnect |
| `TxControl` | the capture thread and the command thread run | they are OS threads; a tone and a microphone over end by time; no fairness for the user's commands. `Press` is not fair and neither is `Unpress`: `KeyUpReleases` starts from a key that is up |
| `AmpInterlock` | the poller and the capture thread run; strong fairness of `EndSweep`: a sweep has finitely many points | the model does not count points. The poller writes with a timeout, so it never blocks |
| `ClientConnection` | reads and drops are taken, the windows pass; strong fairness of `Reconnected` | `select!` takes an arm that stays ready; a server that is tried again and again is reached again and again, which is what "may reconnect" needs: `BusyStreakEnds` speaks of such a server |
| `ClientSlot` | tasks run; a probe sent every second gets through now and then (strong); the heartbeat ends the connection of a client that is gone | 15 s ping, 40 s without a frame |
| `RxAudio` | the audio callback is called | cpal calls it for as long as the stream is open; nothing makes the network deliver |
| `OperatorStore` | an autosave that is due is made | a frame of the UI looks at the deadline, and egui repaints |
| `CaptureLoop` | the capture thread and DSP-A run; **none for DSP-B** | OS threads; the property is that DSP-B may stall |
| `CwKeyer` | the loop runs | a non-blocking socket and a paced sleep |

In `MCLive` each of these is restated for the component's own part: `WF_vars(part = "x" /\ A)` is `WF(A)` in the behaviours of that part and vacuous in the others. The modules checked by
`MCPanels` and `MCStreams` are checked for safety, without fairness.

## 7 Proofs

Every invariant and every action property of the passing runs is a theorem, for all values of the constants under the assumptions below.

| Module | Theorem | Property |
|---|---|---|
| `RadioManagerProofs` | `Invariance` | `SafetySpec => []IInv` |
| | `TypeCorrect` | `TypeOK` |
| | `RuntimeAlwaysServesLease` | `RuntimeServesLease` |
| | `RunningAlwaysServed` | `RunningIsServed` |
| | `AvailableAlwaysFree` | `AvailableIsFree` |
| | `FinisherAlwaysOwnsLease` | `FinisherOwnsLease` |
| | `NeverOrphanWorker` | `NoOrphanWorker` |
| | `AlwaysOneFinisher` | `OneFinisher` |
| | `CommandAlwaysReachesOwnWorker` | `CommandReachesOwnWorker` |
| | `OwnerAlwaysServed` | `OwnerIsServed`: the three about one radio together |
| | `LeaseAlwaysEndsOnce` | `LeaseEndsOnce`: the two about the tasks that end a lease |
| `RadioManagerRefinement` | `HandoverAlwaysStops` | `HandoverStops`, an action property |
| | `ImplementsAlways` | `ImplementsLease`: the manager refines `RadioLease` |
| `CwKeyerProofs` | `CwTypeCorrect`, `NeverKeyClick`, `HangAlwaysHonoured` | `TypeOK`, `NoKeyClick`, `HangHonoured` |
| `TxControlProofs` | `TxTypeCorrect`, `SweepRequestsAreFresh` | `TypeOK`, `PendingSweepNotCancelled` |
| | `RfNeedsKey` | `RfOnlyWhilePressed`, an action property |
| `AmpInterlockProofs` | `AmpTypeCorrect`, `FirstSweepBypassed` | `TypeOK`, `SweepBypassed` |
| | `PollerKeepsSilent` | `QueriesSilent`, an action property |
| `MCLiveProofs` | `LiveTypeCorrect`, `OneIsServed` | `AllTypeOK`, `ServedOwnsSlot` |
| | `UserIsRespected` | `UserRespected`, an action property |
| `MCPanelsProofs` | `PanelsTypeCorrect` | `AllTypeOK` |
| | `SettingsAlwaysFollow`, `RestAlwaysAgrees`, `VfosStayWhole`, `SourceStaysAsShown` | `SettingsFollow`, `RestAgrees`, `VfosWhole`, `SourceAsShown` |
| | `KeyingStaysOwned`, `PreferencesStayKept` | `KeyingIsOwned`, `PreferencesKept`, action properties |
| `MCStreamsProofs` | `StreamsTypeCorrect` | `AllTypeOK` |
| | `LogStaysWhole`, `MediaStaysInOrder`, `QueueStaysCurrent` | `LogWhole`, `MediaInOrder`, `QueueIsCurrent` |
| | `CaptureStaysFollowing`, `BlocksStayKept` | `CaptureFollows`, `BlocksKept` |

**What is assumed.** `TtlCoversStartup` in the theorems about the manager (section 3). Otherwise only the named assumptions of the constants:
bounds are numbers; `None` is none of the values it stands beside; in `LiveAssumption`, that an inbox holds a message; in `PanelsAssumption`, that the values a
radio opens with are among the gains and pitches; that the dial's soft part has some width, and that a rigctl connection is no TCI connection and neither is named like an owner in the client; in `PartsAssumption`, that a list shows at least one row, the keys of a log are finitely many and there is one, a client buffers at least a packet
before it plays and no more than its buffer takes, there is a highest band, the tuner and direct sampling have a band, and there are a row id, a chunk and a sender. How many rows are sent and how many row ids there are is free, so the theorems about the waterfall hold over any number of wraps. `MCLive` fixes the constants of the audio, the store and the capture loop in the module; its own theorems do not speak of these.

**The radio manager.** Hardly any of the properties is inductive. `FinishRelease` clears a radio without looking, so
`RuntimeServesLease` needs `FinisherOwnsLease`; that in turn needs that nobody else ends the lease in the meantime,
which is `BusyRuntime` (a release or cleanup in progress has already taken the runtime, and without a runtime a second
release is refused) and `OneTaskPerRadio` (which follows step by step from the same fact and from `AvailableIsFree`: only an Available
radio is reserved, and a busy one is leased). An acquire is different: between `Install` and `Ready` the runtime is stored and could be
taken. That nobody does is `AcquirerAlone`: the session learns of the lease only when acquire returns, and the expiry loop has not
collected it, the one place where `TtlCoversStartup` is used. After shutdown_all the runtimes are gone early, so several parts are
conditional on `mode = "up"`, and `HaltingLate` says it has nothing in hand before.
`IInv` (module `RadioManagerInv`) is the conjunction of these parts with `TypeOK`, `JobsWellFormed`, `AbsentIsEmpty` and `LeasesDiffer`.

The proof has one lemma per action, grouped by what the action touches (a worker's own steps, acquire, release, daemons, shutdown), each with
a step per part of `IInv` that the action can disturb; `Invariance` combines them. `MCRadioManager` extends `RadioManagerInv`: `IInv` was checked with TLC
on the bounds of `RadioManager_safety` before it was proved.

`RadioManagerRefinement` says of each action which of five effects it has on leases and runtimes (`Effect`: kept, granted, driven, halted, freed); both of its theorems
read off that. What is new there is `TakenIsTold`: a task about to clear a lease holds the runtime's worker alone, so by `NoOrphanWorker` that worker
has been told to stop, or shutdown_all has it.

**The CW keyer.** `NoKeyClick` is inductive with the type invariant. `HangHonoured` is not: at the end of the hang one must know that every packet since the hang timer began was
silent, which is `HangIsQuiet`.

**Transmit control.** RF is raised on the live flag, while the property speaks of the key: `LiveIsPressed` connects the two. It is not true of the tone as it stands, since `tx_tone_stop` starts
FALSE and so the tone counts as live before anybody asked for one; it holds with the rider that in this case no tone is pending or under way. `SweepCounts` bounds the points of a sweep by its phases.

**The amplifier.** A sweep takes its bypass from the published status, which is a cycle old, over a line that loses commands. That the first one may rely on it is an argument
about the whole way of a mode: every command queued is a bypass (`OnlyBypasses`), so a bypass once read, or published, is still in force (`OffIsOff`), and the capture thread goes past its confirmation only
with one (`PulsesBypassed`). All three stop being true once a restore has been queued, or the operator has set a mode, which is what `FirstSweep` says and why the second sweep is an entry of section 5.

**Connection and slot.** `UserRespected` is about steps of timers, long after the command they answer. `AimsAsAsked` says what an armed or connected client aims at, with the exception the code has (a
Connect that fails leaves the old address behind but disarms the timer); `LastIsWished` that the radio to ask for again is still wished; `GrantsName` that what arrives names a radio. `ServedOwnsSlot` is inductive
with the types.

**Streams** (`MCStreamsProofs`; one invariant per part, `PartsInv` their conjunction).
*Log*: the list is filled by answers of a worker that lags behind edits and switches. Query numbers grow along the queue (`NumberedInOrder`), so only the last one matters, and
`ListCurrent` follows it: unless the list is marked to be read again, the last query is of the open log, or its answer has all the rows, or the list has them; `Leaving` is the frame that saw a switch and still has to open the new log.
*Export*: a contact is written or its row id is still ahead of the bookmark of its log, also of the bookmark the run just done will set if nobody switches before (`StillToCome`, of the contacts none of the three histories names). The ids a bookmark can reach are those given in the log, unless a run over another log moved it (`IdsGiven`).
*Rows*: a row is emitted when as many chunks were counted as it has. What is in the buffer is of rows that bear the `row_seq` at hand (`OfItsRows`), and two rows that do are the same or `Far`, whatever the wraps: `NotMixed` follows. `HolesCounted` bounds holes plus chunks counted plus places that may come again by the chunks of the row plus the repeats, for as long as the chunks are of one row, which is why a hole costs a doubled chunk.
*Audio*: every turn of the playout loop yields a `Sound` buffer, with nothing behind its position. `Filled` is a recursive function of the turns, and that there is such a function is a least-element argument, as the prover has no induction rule to cite.
*Microphone*: the ring is emptied on both edges of PTT, so what is sent was captured under the press it is sent under; the order of datagrams and StartMicTx does the rest, except for what `overtaken` marks.
*Capture*: `BeliefIsTrue` (the filter the source has is the one the thread believes it has), `TunedForSnapshot` when the turn comes to its transmissions, and `StillTuned` through them: with one receiver each over leaves the belief on the dial's band or forgets it, until a sweep puts it on another (`SweptLast`). The first fails after a same-band over
in dual watch, or behind such a sweep in the same turn: the history `astray` marks these two, and the theorem excepts them.
*Rate*: either the DSP thread has seen every change and pipeline, queue and source agree, or there is one it has not seen and the block in its hands is the one stray (`Seen`, `Unseen`).
*IQ*: blocks written, queued and counted as dropped add up to those captured, in order (`NothingLost`).

**Panels** (`MCPanelsProofs`). A setting that lives twice agrees at rest because of what is under way when it is not. One operator says it, `Lands(s, touch, sets, d, v)`: a variable that is `d` now will be `v` once the messages
of the queue `s` are taken, because none of them touches it and `d` is `v`, or the last that does sets it. A small theory of it (append, take the head, concatenate, change what counts) carries five parts:
*sync*: the filter, mode and pitch commands under way land on what the user asked for, the echoes under way on what the forwarder saw last (`FilterLands`, `ModeLands`, `PitchLands`, `EchoesAsTold`), and `ModeShown`: what will be shown is one of the two.
*Dial*: the target the server will have is the one the client will show, or was when it last published, except for a frame the throttle keeps (`TargetShown`). The centre the server will have is the one sent last (`CenterTuned`), and unless a control put another on the dial unsent, the client will show that or what the server last published (`CenterShown`): so an LO that a frame writes back from its
snapshot is either the one sent last, or `strayed` is set. `Guiltless` and `DragSent` say who never sets it for good: who neither wheels nor drags, as every control sends its LO; and a drag alone, whose `last_sent_center_hz` is the LO sent last. Mixing the drag with other controls breaks the second, which is how `DragKeepsLo` was found.
*VFOs*: `Becomes` is the state the gestures under way lead to; the client's state agrees with it place by place or with the last echo (`Agreed`, `Follows`, `Reported`), except for the pitches of B after a copy. `PairIsWhole` is about the transmit frequency between the two commands of a gesture, for every pair there is.
*Source*: user, queue and worker are bound for one set of settings (`SourceBound`), with the echoes behind (`ShownAsBound`), and the tuner has what was applied (`TunerAsApplied`).
*Owners*: whoever in the client keyed and has not un-keyed still wants it (`OwnersKey`); a program that keyed wants it with `cat_ptt` set, or some connection is about to un-key (`ProgramKeys`): this is what lets a TCI session end in any of the gaps of another's `set_ptt`. A key that egui holds down without a finger is latched (`DownIsLatched`).
*Store*: what is shown, mirrored and on disk is of one operator (`ShownIsOwn`, `FilesOK`), which makes each write a write of the operator's own.

**Only model-checked.** Every liveness property and every use of fairness: this prover has neither liveness rules nor ENABLED. They are `OperationsReturn` and `RadiosComeBack` of the manager, `OversEnd` of `TxControl`, `BypassUndone` of `AmpInterlock_sweep`,
and `KeyerEnds`, `RetriesEnd`, `SlotHeals`, `NoStall`, `EditsSaved` and `NeverBlocked` of `MCLive`. The violations of section 5 are counterexamples of TLC. No module uses a RECURSIVE operator.

## 8 What is not modelled and why

* **Data.** Samples, spectra, packet layouts, register formats. The properties are about control; a block of audio or IQ is
  known by where it came from, a waterfall bin by its row.
* **Times** are orders of events, except in `CwKeyer`, where packets are counted, and `RxAudio`, where samples are. That a lease's TTL outlasts a startup is a constant.
* **Settings that are one assignment under a lock on either side** (noise blanker, notch, AGC, de-emphasis, squelch level, amplifier ATU): the ones modelled stand for them,
  see the head of `SettingsSync` and `VfoControls`.
* **DSP, waterfall generator, sidetone, decoders, audio devices**: floating point and I/O.
* **Parsing** of HR50 replies, TCI, rigctl, ADIF, callbook XML, and the migration of single fields: pure functions with unit tests.
* **SWR sweep ranges and ham bands**: pure numeric functions with unit tests; a sweep that is refused is a choice in `TxControl`.
* **SQLite**: a transaction is one step; that it is atomic and durable is taken from it.
* **Callbook and DX cluster clients**: they show what they receive and command nothing; a spot that is clicked is `Qsy` of `Dial`.
* **Failure of the UDP listener** (`udp_registration.rs` 33: one socket error ends it): listed as a hazard, not in `ClientSlot`.
* **The product of client, slot and manager**: see the end of section 2.
* `rigflow-probe`: a diagnostic tool.
