---------------------------------- MODULE Imu ----------------------------------
(***************************************************************************)
(* The IMU driver, src/src/drone_mp9250.c: mpu9250_driver_init, which      *)
(* configures the sensor, averages CALIB_SAMPLES readings of the gyro at   *)
(* rest and seeds the accelerometer's low-pass filter, and mpu9250_update, *)
(* which fuses both sensors into the attitude.  Any transfer may fail.     *)
(*                                                                         *)
(* One axis, roll; pitch runs the same code.  Floats are whole numbers of  *)
(* units, and where the code divides either neighbour of the quotient may  *)
(* come out: a rate is in counts of the gyro, and an angle in what one     *)
(* count adds in one DT, 3/100000 of a degree.  Of an acceleration only    *)
(* its direction matters, and that is the angle atan2f() makes of it.      *)
(***************************************************************************)
EXTENDS Integers

CONSTANTS
    CALIB_SAMPLES,
    RestWords, MotionWords,  \* what the gyro's two bytes hold, at rest and in motion
    REST_MIN, REST_MAX,      \* what the gyro reads at rest lies between these
    RestTilts, MotionTilts,  \* directions of the accelerometer's readings
    TILT_REST, TILT_MAX,     \* how far these are from level
    LPF_FADE                 \* at rest a reading takes one part in LPF_FADE of its
                             \* distance to the filtered acceleration, or more

VARIABLES
    pc,           \* where the driver is: "init", "calib", "seed", "loop"
    i, sum, good, \* calibrate_gyro: readings tried, their sum, and how many came
    bias,         \* gyro_bias_x
    filled, lpf,  \* lpf_ay and lpf_az are not both 0; their direction
    roll,         \* att.roll_deg
    rate,         \* gyro_x_dps
    motion        \* the board has "never" moved, is "moving", or has "ended"

calibVars == <<i, sum, good, bias>>
imuVars == <<pc, calibVars, filled, lpf, roll, rate, motion>>

-----------------------------------------------------------------------------
Abs(x) == IF x < 0 THEN -x ELSE x

\* (int16_t) of the two bytes
Int16(word) == IF word < 32768 THEN word ELSE word - 65536

ASSUME ImuAssumption ==
    /\ CALIB_SAMPLES \in Nat \ {0}
    /\ \A w \in RestWords \cup MotionWords : w \in Nat /\ w < 65536
    /\ REST_MIN \in Int /\ REST_MAX \in Int /\ REST_MIN <= REST_MAX
    /\ \A w \in RestWords : REST_MIN <= Int16(w) /\ Int16(w) <= REST_MAX
    /\ TILT_REST \in Nat /\ TILT_MAX \in Nat /\ TILT_REST <= TILT_MAX
    /\ \A t \in RestTilts : t \in Int /\ Abs(t) <= TILT_REST
    /\ \A t \in MotionTilts : t \in Int /\ Abs(t) <= TILT_MAX
    /\ LPF_FADE \in Nat \ {0}

\* The whole numbers next to a / b, for b > 0.
Rounded(a, b) == {a \div b, -((-a) \div b)}

Between(s, t) == s..t \cup t..s

\* A faulty variant: the filter adds up instead of averaging.
LpfAccumulates(new) == {lpf + new}

\* A faulty variant: the filter holds the direction that is furthest from level.
LpfHoldsPeak(new) == {IF Abs(new) > Abs(lpf) THEN new ELSE lpf}

\* accel_lpf: the average of the old and the new acceleration points between the two
\* (from the zeros it starts with, it points where the new one does).  How near
\* to the new one depends on how strong they are: in motion a reading may weigh nothing,
\* at rest it is the gravity.
accel_lpf(new) ==
    IF filled
    THEN {t \in Between(lpf, new) :
             motion = "moving"
             \/ LPF_FADE * Abs(t - new) < (LPF_FADE - 1) * Abs(lpf - new) + LPF_FADE}
    ELSE {new}

\* complementary_filter, with CF_ALPHA = 49/50.
complementary_filter(angle, gyro, tilt) == Rounded(49 * (angle + gyro) + tilt, 50)

-----------------------------------------------------------------------------
ImuInit ==
    /\ pc = "init"
    /\ i = 0 /\ sum = 0 /\ good = 0 /\ bias = 0
    /\ filled = FALSE /\ lpf = 0 /\ roll = 0 /\ rate = 0
    /\ motion = "never"

\* mpu9250_init: every register is written, or the driver gives up and reports it; the
\* state machine then polls the sensor all the same, in ERROR.
mpu9250_init ==
    /\ pc = "init" /\ pc' \in {"calib", "loop"}
    /\ UNCHANGED <<calibVars, filled, lpf, roll, rate, motion>>

\* A reading that fails is skipped.
CalibSample ==
    /\ pc = "calib" /\ i < CALIB_SAMPLES
    /\ i' = i + 1
    /\ \/ UNCHANGED <<sum, good>>
       \/ \E w \in RestWords : sum' = sum + Int16(w) /\ good' = good + 1
    /\ UNCHANGED <<pc, bias, filled, lpf, roll, rate, motion>>

\* A faulty variant: the sum is divided by the number of attempts.
MeanOfAttempts == Rounded(sum, CALIB_SAMPLES)

\* The zero-rate offset; without a single reading it is left as it is.
GyroBias == IF good = 0 THEN {bias} ELSE Rounded(sum, good)

CalibEnds ==
    /\ pc = "calib" /\ i = CALIB_SAMPLES
    /\ bias' \in GyroBias /\ sum' = 0
    /\ pc' = "seed"
    /\ UNCHANGED <<i, good, filled, lpf, roll, rate, motion>>

\* The filter starts with a first reading, if there is one.
SeedFilter ==
    /\ pc = "seed" /\ pc' = "loop"
    /\ \/ UNCHANGED <<filled, lpf>>
       \/ filled' = TRUE /\ lpf' \in RestTilts
    /\ UNCHANGED <<calibVars, roll, rate, motion>>

\* What the two sensors can read.
Gyro == IF motion = "moving" THEN MotionWords ELSE RestWords
Accelerometer == IF motion = "moving" THEN MotionTilts ELSE RestTilts

\* A faulty variant: the attitude integrates the rate without its offset.
UpdateUnbiased ==
    /\ pc = "loop"
    /\ \E w \in Gyro, a \in Accelerometer :
          /\ lpf' \in accel_lpf(a) /\ filled' = TRUE
          /\ roll' \in complementary_filter(roll, Int16(w), lpf')
          /\ rate' = Int16(w) - bias
    /\ UNCHANGED <<pc, calibVars, motion>>

\* An update whose reading fails changes nothing and returns -1.
mpu9250_update ==
    /\ pc = "loop"
    /\ \E w \in Gyro, a \in Accelerometer :
          /\ lpf' \in accel_lpf(a) /\ filled' = TRUE
          /\ rate' = Int16(w) - bias
          /\ roll' \in complementary_filter(roll, rate', lpf')
    /\ UNCHANGED <<pc, calibVars, motion>>

\* The board starts or stops to move, after the calibration.
Move ==
    /\ pc = "loop"
    /\ motion' = IF motion = "moving" THEN "ended" ELSE "moving"
    /\ UNCHANGED <<pc, calibVars, filled, lpf, roll, rate>>

mpu9250_driver_init == mpu9250_init \/ CalibSample \/ CalibEnds \/ SeedFilter

ImuNext == mpu9250_driver_init \/ mpu9250_update \/ Move

ImuSpec == ImuInit /\ [][ImuNext]_imuVars

\* The initialisation runs to its end, and readings do not fail for ever.
FairImuSpec ==
    ImuSpec /\ WF_imuVars(mpu9250_driver_init) /\ WF_imuVars(mpu9250_update)

-----------------------------------------------------------------------------
\* How far a rate at rest may be from 0: as far as two readings are from each other, or,
\* when no reading came, as far as the gyro's own offset.
Residual ==
    IF good > 0 THEN REST_MAX - REST_MIN
    ELSE IF Abs(REST_MIN) > Abs(REST_MAX) THEN Abs(REST_MIN) ELSE Abs(REST_MAX)

\* The angle at which a rate of Residual and the accelerometer's 2 % balance.
DriftLimit(tilt) == 49 * Residual + tilt

\* The last units in which rounding either way may keep the two filters from where
\* fractions would take them in the limit: 49/50 and (LPF_FADE - 1)/LPF_FADE of less than
\* a unit may still be one.
ROLL_ROUNDING == 49
LPF_ROUNDING == LPF_FADE - 1

ImuTypeOK ==
    /\ pc \in {"init", "calib", "seed", "loop"}
    /\ i \in 0..CALIB_SAMPLES /\ good \in 0..i
    /\ sum \in Int /\ bias \in Int /\ roll \in Int /\ rate \in Int
    /\ filled \in BOOLEAN /\ lpf \in Int /\ Abs(lpf) <= TILT_MAX
    /\ motion \in {"never", "moving", "ended"}

\* On a board that has not moved neither the rate nor the attitude drifts away, whichever
\* readings of the calibration failed, the seed's too: the error is bounded by
\* the noise of both sensors, not by the gyro's offset (unless every reading failed).
DriftBounded ==
    motion = "never" => Abs(rate) <= Residual /\ Abs(roll) <= DriftLimit(TILT_REST)

\* At rest what a movement left in the two filters does not grow, whatever the noise: the
\* acceleration does not turn further from level than the readings, and an attitude beyond
\* what the rate and the filtered acceleration can hold comes nearer with every reading.
RestShrinksError ==
    [][mpu9250_update /\ motion # "moving" =>
          /\ Abs(lpf') <= Abs(lpf) \/ Abs(lpf') <= TILT_REST
          /\ \/ Abs(roll') < Abs(roll)
             \/ Abs(roll') <= DriftLimit(Abs(lpf')) + ROLL_ROUNDING]_imuVars

\* Whatever the board did, once it rests again the filtered acceleration comes back
\* to what it reads at rest, and the attitude after it to what that and the rate can hold:
\* nothing that a movement left in either memory stays.
AttitudeRecovers ==
    <>[](motion # "moving") =>
        <>[]/\ Abs(lpf) <= TILT_REST + LPF_ROUNDING
             /\ Abs(roll) <= DriftLimit(TILT_REST + LPF_ROUNDING) + ROLL_ROUNDING
=============================================================================
