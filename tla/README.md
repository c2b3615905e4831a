# A verification model of the drone firmware

This directory holds TLA+ models of the quadcopter firmware in `src/src`, the TLC
configurations that check them, and proofs for the TLA+ proof system. The firmware is a
Zephyr application for an ESP32-S3: two threads, a radio on SPI, an IMU on I2C, four
ESCs on PWM and a Wi-Fi access point with a control page.

File references without a directory are to `src/src`.

## 1. Inventory

| Component | State it keeps | Operations | Talks to |
|---|---|---|---|
| **Boot** (`main.c`) | none | creates the flight thread, priority 5 | flight state machine |
| **Flight state machine** (`drone_fsm.c`) | `current_state`, `state_enter_ms`, `landing_throttle`, `last_landing_step_ms`; where its thread is | hardware initialisation; 250 Hz deadline loop: IMU, packet, handler of the state | calls every driver; starts the web server |
| **Motor controller** (`drone_mc_controller.c`) | pulses of the ESCs; statics of the mixer: `last_pct[]`, `throttle_smooth`, `last_update_ms` | `motor_esc_init`, `motors_set_all`, `motors_set_from_rc` | PWM, which may refuse |
| **Radio receiver** (`drone_receiver.c`) | `data`; in the chip a queue of three packets and the flag RX_DR | `nrf_driver_init`, `read_data` | nRF24L01+ over SPI, whose errors are ignored |
| **Web server** (`drone_webserver.c`) | `wifi_rc`, `rc_last_ms` under `rc_mutex`; `req_buf`; semaphore `ap_ready` | thread of priority 7: access point, socket, one client at a time; `drone_webserver_get_rc` for the flight thread | clients over TCP; reads attitude and state for its answers |
| **Command arbitration** (`drone_fsm.c` 232-240) | none of its own | a fresh active web packet overrides the radio's last packet | radio, web server |
| **IMU driver** (`drone_mp9250.c`) | gyro bias, filter memory, attitude | `mpu9250_driver_init`, `mpu9250_update` | MPU9250 over I2C |
| **Control page** (HTML and JavaScript in `drone_webserver.c`) | sliders, armed flag | posts `/rc` every 200 ms | web server |
| Build output, device tree, Kconfig (`build/`, `app.overlay`, `prj.conf`) | - | - | - |

The two threads share one core. The flight thread preempts the web server's thread;
they meet in `rc_mutex`, in the functions that read the state and the attitude, and
nowhere else.

### What is hard about it

* **Stale state.** Three caches outlive the moment they were right: the mixer's
  `last_pct` (written behind its back by `motors_set_all`), the ramp `throttle_smooth`,
  and the radio's last packet, which is returned again when none has come.
* **Timing.** Arming, failsafe and landing compare timestamps in passes whose spacing is
  4 ms only when the thread is not delayed. A pass may find several deadlines expired.
* **Partial failure.** PWM writes, SPI and I2C transactions, I2C readings and HTTP bodies
  can fail half way, mostly without anyone looking at the result. A calibration of which
  every reading failed counts as a success.
* **Feedback.** The attitude is computed from the last attitude 250 times a second: what is
  wrong in one reading stays in it for a while, what is wrong in all of them adds up.
* **Interleaving.** Packets arrive between the four SPI transactions of one
  `read_data`; the flight thread interrupts the copy of a web packet.
* **Liveness.** A drone without a command has to come down by itself. The server has no
  timeouts; the control loop must not depend on it.

### What makes each component correct

* Motor controller: legal pulses; the mixing table of the header; a ramp that holds over
  time, not per call, and ends where the stick points; a cache that agrees with the ESCs.
* State machine: no motor turns on the ground; arming needs the whole held gesture; a
  descent tracks its own throttle, keeps its pace, speeds no motor up and ends; loss of command
  ends with standing motors within a known time; an error is final.
* Arbitration: flight only on a command that could still be given; loss of command ends it.
* Radio: a queued packet is announced, none lags behind or comes twice or after a later
  one; `data` is the latest packet.
* Web server: what the loop reads is a box of whole commands, stored at once; the server
  starts whenever the access point answers; no client can hold the control loop; a client
  that is not silent cannot hold the server.
* IMU driver: a drone at rest is reported at rest, whichever readings of the calibration
  failed; an error that a movement leaves in the attitude fades.

## 2. The modules

| Module | What it is | Source |
|---|---|---|
| `CInt` | C's division, clamping, saturated ages | |
| `RcPackage` | the packet, and the packet a web request stands for | `drone_receiver.h`, `handle_rc` |
| `DroneMotors` | the motor controller, a component without a `Next` of its own | `drone_mc_controller.c` |
| `DroneFsm` | the flight state machine on top of it | `drone_fsm.c` |
| `FlightContract` | abstract: when motors may turn and which way a flight can go | |
| `CommandBox` | abstract: the box with the last web command that the state machine reads | `drone_webserver.c` |
| `LossyRadio` | abstract: the line from the transmitter that the state machine is given packets by | `drone_receiver.c` |
| `DroneSystem` | the state machine with radio, command box and arbitration | `drone_fsm.c`, `drone_webserver.c`, `drone_receiver.c` |
| `NrfReceiver` | `read_data` against the radio chip, one SPI transaction per action | `drone_receiver.c` |
| `WebServer` | the server's thread, its clients, the mutex | `drone_webserver.c` |
| `Imu` | calibration, filters and attitude, one sensor reading per action | `drone_mp9250.c` |
| `MC*` | instances and history variables for TLC | |
| `*Proofs` | theorems and proofs; `HistoryProofs` those about `MCDroneFsm`, `MotorHistoryProofs` those about `MCMotors`, `DroneMotorsProofs` the lemmas about the motor controller's operators that both use | |

`DroneFsm` EXTENDS `DroneMotors`; `DroneSystem` EXTENDS `DroneFsm` and `CommandBox`.
`NrfReceiver` and `WebServer` look inside two things that `DroneSystem` takes as single
steps: `read_data` (any of the transmitter's packets, or the last one again) and the
critical sections of `rc_mutex`. For the second `WebServer` shows that this is right: it
implements `CommandBox` (`ImplementsBox`), and what the loop obtains is what the box holds
in that moment (`ReadsBox`). The refinement mapping takes a command to be in the box from
the moment the server holds the mutex for it, since nobody can look before it is released.
`NrfReceiver` implements `LossyRadio` (`ImplementsLine`): the chip's queue is the set of
packets that may still come. It may lose them and hand out noise or zeros, which
`DroneSystem`'s `read_data` allows as well, but it does not repeat or reorder.
`Imu` looks inside the two calls of which `DroneFsm` sees only success or failure.

### How state and actions correspond to the code

* **One pass of the control loop is one action** (`Control(rc)`, `ImuFailure`). Between
  the choice of the packet and the end of the handler the thread neither blocks nor
  shares what it changes. Each handler is an operator of the same name, each branch of it
  a disjunct. `Boot` is the initialisation up to the loop; a failed ESC initialisation
  leads into the loop without the IMU's bus handle, and `MpuFault` is the null
  dereference that follows.
* **Ages instead of timestamps.** `k_uptime_get() - stamp` becomes an age that `Elapse`
  raises, saturated at the value from which the code cannot tell ages apart
  (`STATE_AGE_MAX`, `LANDING_STEP_MS`, `ESC_PERIOD_MS`, `RC_AGE_MAX`). `Elapse` also
  raises `loop_age`, the time since the pass began: a pass may start once it has reached
  `MPU9250_LOOP_MS` and may be late, until `MAX_STALL_MS`. Delays by interrupts, the
  network stack and the bus drivers are all in this one bound.
* **`pulse`** is what the ESCs emit, in microseconds (0 before the first write). A write
  succeeds on the channels of some set in `PwmOutcomes`.
* **Packets** are records of five fields; the proofs allow any packet, so a failed SPI
  transaction that fills `data` with noise is covered by them.
* **The radio** numbers packets in the order of their receipt. The chip (queue, overflow,
  RX_DR) is modelled from how the driver uses it and marked external; an empty queue read
  because RX_DR was set between "clear" and "flush" yields `Noise`. A transaction that
  fails may have reached the chip or not; what the driver then takes from its uninitialised
  buffer is a status of either kind, or `Noise` or the bytes of the read before for a
  payload. An initialisation of which one register was not written leaves a chip that does
  not receive, unless it was configured before.
* **A web request** is stored by `DroneSystem` in one step: all of what it asks for, or an
  inactive packet, which is what a body that was cut off comes to (`Whole`, as in
  `CommandBox`). In `WebServer` it arrives in units: the header, then two units per field of the body,
  the second of which carries the last digit. Cutting it anywhere therefore gives a missing
  field, a shortened number or a whole one. The packet is copied in two pieces, so that
  a reader without the mutex would see half of it. `drone_webserver_get_rc` is one action
  because the other thread cannot run while it holds the mutex; the wait for the mutex is
  a state of its own. The event that starts the server may come before or after its thread
  waits for it, and never if there is no interface.
* **A request for anything but `/rc`** is answered with the page, a POST only after its body
  was read. A header without an empty line or a path ends the connection.
* **The IMU** is modelled for one axis, roll; pitch runs the same code with `gy` and `-ax`
  and yaw has a rate only. A float becomes a whole number of units: rates in counts of the
  gyro (`GYRO_SCALE` is divided out), angles in what one count adds in one `DT`, which turns
  `CF_ALPHA` into 49/50 exactly. Where the code divides, either neighbour of the quotient may
  come out (`Rounded`), so nothing depends on fractions being lost in one direction; what
  the properties say of the last units is said with that margin (`ROLL_ROUNDING`,
  `LPF_ROUNDING`). An acceleration is represented by its direction, which is all `atan2f`
  takes from it, and in motion it may point anywhere within `TILT_MAX`. The exponential
  average of two accelerations points between them: anywhere there while the board moves,
  since their strengths are free, and nearer to the new one by at least one part in
  `LPF_FADE` at rest, where the new one is gravity. One `CalibSample`, `SeedFilter` or `mpu9250_update` is one reading of 14 bytes. A reading
  that fails is skipped, leaves the filter unseeded, or leaves all globals alone.

Operators introduced as "a faulty variant" are plausible mistakes in the definition that
follows them. They are not used by the models; each property has one that breaks it.

## 3. What the runs check

| Run | Module / cfg | Checks |
|---|---|---|
| `motors` | `MCMotors` | real constants, 10 ms ticks, any caller: `RampBounded` (the ramp holds over time however often the mixer is called), `ThrottleLimited` (it stays within what a stick can ask for), `MixBalanced` (sums and differences of the outputs are the header's table), `CacheTracksOutput` (skipping a write is safe except where `motors_set_all` wrote) |
| `fsm` | `MCDroneFsm` | `MotorsIdleOnGround`, `DescentTracksThrottle`, `ArmedOnlyAfterHold` (from IDLE on; a pilot who lands to ARMED keeps the arming), `DescentPaced` (the pace of the steps from the hold throttle down), `LossStopsMotors` (without an active packet for `LossBound` the drone is down), refinement of `FlightContract` (`ImplementsContract`), `LandingEnds` |
| `faults` | `MCFaults` | PWM that loses writes on either diagonal or everywhere: `OnlyFlightSpinsUp`, `GroundedMotorsStop` |
| `system` | `MCSystem` | `FlyingIsCommanded` (on an active packet of the radio or an active web request that is not stale), `SilenceStopsMotors`, refinement of the state machine (`FsmSpec`) |
| `nrf` | `MCNrf` | with failing transactions and restarts: `NothingStranded` (a queued packet is announced by RX_DR, unless a flush was lost and none carried out since), `NoBacklog` (nothing older than the last flush is delivered), refinement of `LossyRadio` (`ImplementsLine`) |
| `web` | `MCWeb` | refinement of `CommandBox` (`ImplementsBox`, `ReadsBox`), `AnswerStartsServer`, `LoopGetsMutex`, `ConnectionEnds`, `SilenceDisarms` |
| `imu` | `MCImu` | `DriftBounded` (a board that has not moved is not reported to turn, with the bound the sensors' noise gives), `RestShrinksError` (at rest what a movement left in the two filters only shrinks), `AttitudeRecovers` (after any movement the filtered acceleration and the attitude come back to what the readings at rest give) |

Five runs show a disagreement between the code and what the repository says of it:

| Run | Property | What happens |
|---|---|---|
| `cache` | `UpdateReachesMotors` | after FLYING -> ARMED or FAILSAFE -> FLYING, `last_pct` is not the "last applied value per motor", and needed writes are skipped |
| `takeoff` | `SmoothTakeoff` | `throttle_smooth` survives a landing; the next take-off is not ramped |
| `link_loss` | `LossIsDetected` | a radio that falls silent after an active packet never counts as signal loss |
| `error_state` | `ErrorKeepsRunning` | after a failed ESC initialisation the thread faults on the IMU's bus handle instead of holding ERROR |
| `nrf_latest` | `LatestPacket` | of two queued packets the newer is flushed, and a packet that arrives between "clear" and "flush" makes the next read take bytes that are no packet |

Five more disagreements have no run. `drone_fsm.c` line 22 gives a total landing time of
about `(100/STEP) * STEP_MS`, with its constants 10 s; but a landing starts at
`FAILSAFE_HOLD_PCT`, 25 %, and needs 13 steps of 200 ms, about 2.6 s. `DescentPaced` and
`LossBound` count these steps (`AllSteps`). `drone_webserver.h` line 23 and `drone_fsm.c` line
236 speak of a stale guard of 500 ms, `RC_STALE_MS` is 2000. `drone_webserver.h` lines
17-18 list the endpoints `/telemetry` and `/control`, the server only knows `/rc`.
`mpu9250_driver_init` returns 0, success, when every reading of the calibration failed,
where `drone_mpu9250.h` promises -1 on a hardware error; `DriftBounded` says what the
attitude is worth then. `drone_mc_controller.c` line 125 calls `throttle_smooth` a value
of 0-80 %, which `ThrottleLimited` shows for sticks within their range; the receiver does
not check that range, and a failed SPI transaction may put any `int16_t` into `y_left`.

### Bounds, and why they are enough

Constants keep the order they have in the code rather than their values: arming shorter
than the failsafe timeout, one stall shorter than it, a landing of two steps the
last of which is not a whole one (3 % by 2 %), an ESC period of more than one pass, a take-off
threshold above zero. Ticks are periods of the loop; a pass may be one period late
(`MAX_STALL_MS = 2`), which already lets two deadlines expire together. Sticks are at
minimum, at the threshold and fully raised, level or rolling. `LossBound` comes to 18
ticks; the latest descent the run reaches stays within three ticks of it. The `motors` run needs no
such reduction and has the real percentages and stick values.

The radio's queue has its real depth of 3 and five packets, enough to overflow it and to
have a packet arrive in every gap of a read. The web server's buffer has room for exactly the
shortest header and a body: other clients overflow it in the header or in the body.

The IMU's run has two calibration readings of which any may fail, a gyro whose offset
(-3 or -2 counts) is larger than its noise, so that a calibration that went wrong shows,
and the real weights of the attitude's filter: with 49/50 it takes more than a hundred steps
to settle, all of which are explored. Movements may happen at any time after the
calibration, which the header asks to run at rest; in them the accelerometer points five
times as far from level as at rest. `LPF_FADE` is 3, a third of the way or more with every
reading; in the code (`LPF_ALPHA`, 0.15) it is 3/20 of the way when the old acceleration was as
strong as gravity, less when it was stronger. How fast it fades does not matter to the
properties, and the theorems hold for every value. Directions lie within a
half circle.

The failure of a stall bound is deliberate: with `MAX_STALL_MS >= FAILSAFE_TIMEOUT_MS`
the failsafe expires in the pass that should first apply the hold throttle, and
`DescentTracksThrottle` does not hold. In the code this takes a stall of 2 s.

### Fairness

* `WF` of the boot steps and of a pass: the flight thread has the highest application
  priority and runs when it is due. `WF` of `Elapse`: time passes. Since `loop_age` may not
  exceed `MAX_STALL_MS`, time cannot pass without passes.
* No fairness for packets, requests, IMU failures or stalls: liveness never depends
  on a pilot.
* `faults` adds strong fairness of a motor obeying a repeated stop. This is an assumption
  about hardware: a channel that never obeys again cannot be stopped by software.
* `Imu`: weak fairness of the initialisation and of a successful update, that is, readings
  do not fail for ever from some point on; `AttitudeRecovers` needs no more. How long the
  board moves is free.
* `WebServer`: weak fairness of the server's steps, except that an answer to a silent
  client need not get through; none for clients and none for the access point's event. Without an
  interface the thread waits for ever, which `AnswerStartsServer` allows.
  A thread that waits for the mutex is handed it, as Zephyr's `k_mutex_unlock` does.

## 4. What is proved

All for every value of the constants that satisfies the named assumptions.

| Theorem | Statement |
|---|---|
| `FsmTyped`, `SystemTyped` | type correctness: no throttle wraps, all pulses legal, under any PWM failures and any packets |
| `MixingBalanced` | the mixing table, for every packet and throttle, before clipping |
| `RequestsInRange` | every stick of a packet that a page's request stands for lies in `0..RC_MAX` |
| `MotorsTyped`, `RampHolds`, `OutputsAreBalanced` | `MotorTypeOK`, `RampBounded`, `MixBalanced` under any caller (`CallerAssumption`: percentages that fit a `uint8_t`, any packets) and any PWM failures |
| `ThrottleHolds` | `ThrottleLimited`, for sticks in `0..RC_MAX` |
| `CacheIsTrue` | `CacheTracksOutput`, for `PwmOutcomes = {Motor}` |
| `GroundIsSafe` | `MotorsIdleOnGround`, for `PwmOutcomes = {Motor}` |
| `SpinsUpOnlyInFlight` | `OnlyFlightSpinsUp`, for any `PwmOutcomes`: whichever writes are lost |
| `ArmingNeedsHold` | `ArmedOnlyAfterHold`, for every confirmation time and every spacing of the passes |
| `LandingIsPaced` | `DescentPaced`, for every step, interval and stall bound, counted from the hold throttle |
| `LossEndsOnGround` | `LossStopsMotors`, for every timeout, step, interval and stall bound, for `PwmOutcomes = {Motor}` |
| `DescentIsTracked` | `DescentTracksThrottle`, for reliable PWM and `MAX_STALL_MS < FAILSAFE_TIMEOUT_MS` |
| `FsmKeepsContract`, `SystemKeepsContract` | the state machine, and the whole system, refine `FlightContract`, under the same two assumptions |
| `SystemImplementsFsm` | the system refines the state machine fed with arbitrary packets |
| `FlightIsCommanded` | `FlyingIsCommanded`, whatever the transmitter and the clients send |
| `NrfTyped`, `NeverStranded`, `NeverBacklogged` | the radio's type invariant; `NothingStranded`: an unannounced packet means that a flush failed, or a restart came before it, and none was carried out since; `NoBacklog`; for every depth of the queue |
| `RadioIsLine` | the receiver refines `LossyRadio`, for every depth of the queue |
| `ServerImplementsBox`, `LoopReadsBox`, `WebTyped` | the web server refines `CommandBox`; the loop reads what the box holds; requests fit into `req_buf`, for every size of it and all clients |
| `ImuTyped`, `DriftIsBounded` | the IMU's type invariant and `DriftBounded`, for every number of calibration readings, every sensor and any rounding |
| `ErrorShrinks` | `RestShrinksError`, for every sensor and whatever the board did before |

The arguments:

* *Ground.* `MotorsIdleOnGround` is not inductive: nothing in it says that the state is
  INIT exactly while the thread initialises, so the handler of INIT might run with motors
  turning. `GroundInv` adds `InitStage`, the agreement of `pc` and the state.
* *Descent.* `DescentInv` adds the same to `DescentTracksThrottle`, whose first conjunct
  is already in inductive form: in FAILSAFE either no pass has been spent yet
  (`state_age <= loop_age`) or every motor is at the hold throttle. With a stall shorter
  than the timeout the first pass cannot be the one that starts the landing.
* *Arming.* `ArmingHeld`: in ARMING the history has seen the gesture for at least as long
  as `state_age` says, so the comparison in the code is one with what the pilot did.
* *Pace.* `StepsInv`: the throttle has come down by whole steps, the last one aside.
  `PaceInv`: `state_age` is at least the steps taken times `LANDING_STEP_MS` plus
  `landing_age`, and at most the `Allowance`: an interval and a stall for each step taken,
  plus `SinceStep`, how long ago the last one can have been. A step that is due waits for
  one pass, and so does the touch-down. Rounding the number of steps up is `CeilingIs`.
* *Loss.* `LossStopsMotors` says nothing of how the time without a command is spent, so
  `LossInv` gives each state its share: in FLYING it is no more than `loop_age`, since the
  last pass saw an active packet; in FAILSAFE a stall and `state_age`, or the timeout and
  a second stall once `state_age` is saturated; in LANDING two stalls, the timeout and the
  `Allowance`, which `LandingWithinBound` bounds by that of all steps and one more
  stall. Beyond `LossBound` no state of flight is left, and `GroundInv` says that the
  motors stand in the others.
* *Ramp.* `RampBounded` is not inductive: right after an update it does not know that the
  next one is an ESC period away. `RampInv` counts the age of the last update as a credit
  towards the next: `throttle_smooth * ESC_PERIOD_MS + RAMP_UP * update_age` grows with the
  clock and not with the updates. The limit of the throttle is `RampLimited`: a stick's
  share of `RC_MAX` is the throttle's share of its maximum (`ProportionRange`), and the
  ramp's last step ends there.
* *Mixing.* `MixedInv`: what the mixer holds is the last packet it mixed at the throttle it
  has reached, or zeros after a reset. An output in 1..99 was not clipped
  (`UnclippedIsMix`), so `MixingBalanced` applies.
* *Cache.* `CacheInv` adds that the mixer holds zeros until the ESCs are armed, which is
  what arming writes.
* *Contract.* Under `PhaseOf` every handler's branch maps to one action of
  `FlightContract` or to a stutter; its `speed` is what the ESCs are told. A landing step
  speeds no motor up because `DescentInv` says that all of them are at `landing_throttle`,
  and the next one is not above it.
* *System.* Every step of `DroneSystem` is a step of `DroneFsm` with the arbitrated packet,
  or leaves its variables alone, so the state machine's theorems carry over.
* *Commanded.* `FlyingIsCommanded` is inductive with the type invariant: a pass refreshes
  one of its disjuncts, time raises both sides of the other.
* *Radio.* `OrderInv`: the queue is ordered, newer than the driver's packet and newer
  than the last flush. `AnnouncedInv`: RX_DR may be clear over a packet only between
  "clear" and "flush", which is why the order of these two matters, or after a flush that
  was lost there. Then the next arrival announces what is queued; but over a full queue
  nothing arrives any more, and since neither `read_data` nor `nrf_init_rx` flushes without
  RX_DR, the receiver stays deaf for ever. The same `OrderInv`
  makes the head of the queue a packet that ends the wait of no newer one, which is
  `LossyRadio`'s delivery.
* *Box.* `WebInv`: the packet `rc` of the server's thread is inactive or a whole request,
  because the active flag is the last field of the body (`ActiveIsComplete`); the mutex is
  held exactly from `Lock` to `Unlock`; at `Stamp` the copy is complete. Then `Lock` is the
  step that stores in the box, the copying shows nothing, and a read finds the server
  outside of the section.
* *IMU.* The mean of readings between `REST_MIN` and `REST_MAX` lies between them too,
  rounded either way, so a rate at rest is at most `Residual`. For the attitude,
  `DriftLimit(tilt) = 49 * Residual + tilt` is a fixed point of the filter
  (`FilterBounded`): 49 * (DriftLimit + Residual) + tilt = 50 * DriftLimit, a whole number,
  so that rounding does not leave the bound either. On a board that has never moved `tilt` is
  `TILT_REST` (`LevelInv`: the filtered acceleration points where readings at rest do). After a
  movement it is what the filter still holds; beyond the bound by more than the 49 units
  in which rounding may hide a fiftieth of the way, the accelerometer's 2 % weigh more than
  the residual rate (`FilterShrinks`).

Only model-checked: everything with fairness (`LandingEnds`, `GroundedMotorsStop`,
`SilenceStopsMotors`, `AttitudeRecovers`, the web server's four). Liveness under fairness is
beyond the proof system; `DescentPaced`, `LossStopsMotors` and `RestShrinksError` are the
safety properties behind three of them, and those are proved. Every invariant and every
action property of a run, and each of the refinements, is a theorem.

## 5. What is not modelled

* The size of a float's rounding error (any result is rounded to a whole unit, either
  way), overflow of the 32-bit products in `handle_rc` (for posted numbers beyond two
  million the stick is another one in its range), `/rc` bodies that are not in the page's
  order of fields, the values of the IMU's and the radio's configuration registers, and
  the values in the telemetry. No control decision depends on the attitude: it is only
  reported. Telemetry reads it without a lock, which may mix two updates in one answer.
* The second axis of the IMU, which is the first one's code again.
* The page beyond the order of its fields, the HTML, the DHCP set-up, logging.
* The network stack below the sockets, the kernel, the generated build tree.
* The 3 s wait of `esc_arm_all`: nothing else runs before the web server is started.

## 6. Plan

Done, in this order: `DroneMotors`, `DroneFsm` with `FlightContract`, `DroneSystem`,
`NrfReceiver`, `WebServer`, `Imu`, the refinement from `WebServer` to `CommandBox` below
`DroneSystem`; the theorems above.

Also done: `NrfReceiver` against `LossyRadio`, and the motor controller under any caller.

Left: the loss of command through the whole system, as a theorem about `DroneSystem`: when
the radio is inactive and the page falls silent, `RC_STALE_MS` and `LossBound` together limit
the time until the motors stand. It needs the state machine's history below the arbitration.
