------------------------------- MODULE ImuProofs -------------------------------
(***************************************************************************)
(* The attitude of a board at rest does not drift, for any number of       *)
(* calibration readings, any sensor and any failures.                      *)
(***************************************************************************)
EXTENDS Imu, TLAPS

LEMMA AbsIsNat == \A x \in Int : Abs(x) \in Nat
BY DEF Abs

LEMMA FactorCancels ==
    ASSUME NEW g \in Nat, NEW a \in Int, NEW b \in Int, g * a < g * b
    PROVE  a < b
<1>1. SUFFICES ASSUME a >= b PROVE FALSE
  OBVIOUS
<1>2. PICK d \in Nat : a = b + d
  BY <1>1
<1>3. g * a = g * b + g * d
  BY <1>2
<1>4. g * d \in Nat
  OBVIOUS
<1> QED BY <1>3, <1>4

LEMMA DivBounds ==
    ASSUME NEW s \in Int, NEW g \in Nat \ {0}, NEW lo \in Int, NEW hi \in Int,
           g * lo <= s, s <= g * hi
    PROVE  s \div g \in Int /\ lo <= s \div g /\ s \div g <= hi
<1> DEFINE q == s \div g
<1>1. q \in Int /\ g * q <= s /\ s < g * q + g
  BY Z3
<1> HIDE DEF q
<1>2. g * q < g * (hi + 1) /\ g * lo < g * (q + 1)
  BY <1>1
<1>3. q < hi + 1 /\ lo < q + 1
  BY <1>1, <1>2, FactorCancels
<1>4. lo <= q /\ q <= hi
  BY <1>1, <1>3
<1> QED BY <1>1, <1>4 DEF q

\* A quotient lies between the bounds of its dividend, whichever way it is rounded.
LEMMA QuotientBounds ==
    ASSUME NEW s \in Int, NEW g \in Nat \ {0}, NEW lo \in Int, NEW hi \in Int,
           g * lo <= s, s <= g * hi, NEW q \in Rounded(s, g)
    PROVE  q \in Int /\ lo <= q /\ q <= hi
<1>1. CASE q = s \div g
  BY <1>1, DivBounds
<1>2. CASE q = -((-s) \div g)
  <2> DEFINE d == (-s) \div g
  <2>1. g * (-hi) <= -s /\ -s <= g * (-lo)
    OBVIOUS
  <2>2. d \in Int /\ -hi <= d /\ d <= -lo
    <3>1. -s \in Int /\ -hi \in Int /\ -lo \in Int
      OBVIOUS
    <3> QED BY <2>1, <3>1, DivBounds
  <2>3. q = -d
    BY <1>2
  <2> HIDE DEF d
  <2> QED BY <2>2, <2>3
<1> QED BY <1>1, <1>2 DEF Rounded

LEMMA ConstantTypes ==
    /\ CALIB_SAMPLES \in Nat \ {0}
    /\ TILT_REST \in Nat /\ TILT_MAX \in Nat /\ TILT_REST <= TILT_MAX
    /\ REST_MIN \in Int /\ REST_MAX \in Int /\ REST_MIN <= REST_MAX
BY ImuAssumption

LEMMA RestRange ==
    ASSUME NEW w \in RestWords
    PROVE  Int16(w) \in Int /\ REST_MIN <= Int16(w) /\ Int16(w) <= REST_MAX
<1>1. w \in Nat
  BY ImuAssumption
<1>2. REST_MIN <= Int16(w) /\ Int16(w) <= REST_MAX
  BY ImuAssumption
<1> QED BY <1>1, <1>2 DEF Int16

-----------------------------------------------------------------------------
\* The offset is the mean of readings at rest, or 0 when there was none.
BiasInv ==
    /\ pc = "init" => i = 0
    /\ pc \in {"init", "calib"} =>
          bias = 0 /\ good * REST_MIN <= sum /\ sum <= good * REST_MAX
    /\ pc \in {"seed", "loop"} =>
          IF good = 0 THEN bias = 0 ELSE REST_MIN <= bias /\ bias <= REST_MAX

\* Until the first update there is neither a rate nor an angle.
UnusedInv == pc # "loop" => rate = 0 /\ roll = 0 /\ motion = "never"

\* The filtered acceleration of a board that has not moved is one it can read.
LevelInv == motion = "never" => Abs(lpf) <= TILT_REST

ImuInv == ImuTypeOK /\ BiasInv /\ UnusedInv /\ LevelInv /\ DriftBounded

LEMMA ResidualPositive == Residual \in Nat /\ Residual' \in Nat
<1>1. Residual \in Nat
  BY ConstantTypes DEF Residual, Abs
<1>2. Residual' \in Nat
  BY ConstantTypes DEF Residual, Abs
<1> QED BY <1>1, <1>2

\* A rate and an attitude of 0 are within every bound.
LEMMA ZeroIsBounded ==
    ASSUME rate' = 0, roll' = 0 PROVE DriftBounded'
<1>1. PICK R \in Nat : R = Residual'
  BY ResidualPositive
<1>2. Abs(0) = 0
  BY DEF Abs
<1>3. 0 <= R /\ 0 <= 49 * R + TILT_REST
  <2>1. TILT_REST \in Nat /\ 49 * R \in Nat
    BY ConstantTypes
  <2> QED BY <2>1
<1>4. Abs(rate') <= Residual' /\ Abs(roll') <= 49 * Residual' + TILT_REST
  BY <1>1, <1>2, <1>3
<1> QED BY <1>4 DEF DriftBounded, DriftLimit

\* An average is no further from level than the two it is of.
LEMMA BetweenIsBounded ==
    ASSUME NEW s \in Int, NEW t \in Int, NEW T \in Nat, NEW u \in Between(s, t),
           Abs(t) <= T
    PROVE  u \in Int /\ (Abs(u) <= Abs(s) \/ Abs(u) <= T)
BY DEF Between, Abs

LEMMA FilteredDirection ==
    ASSUME NEW a \in Int, NEW T \in Nat, Abs(a) <= T, lpf \in Int, NEW u \in accel_lpf(a)
    PROVE  u \in Int /\ (Abs(u) <= Abs(lpf) \/ Abs(u) <= T)
<1>1. CASE filled
  BY <1>1, BetweenIsBounded DEF accel_lpf
<1>2. CASE ~filled
  BY <1>2 DEF accel_lpf
<1> QED BY <1>1, <1>2

\* A rate at rest is the distance between a reading and the offset.
LEMMA RestingRate ==
    ASSUME ImuTypeOK, BiasInv, pc = "loop", NEW x \in REST_MIN..REST_MAX
    PROVE  Abs(x - bias) <= Residual
<1>1. REST_MIN \in Int /\ REST_MAX \in Int /\ x \in Int /\ REST_MIN <= x /\ x <= REST_MAX
  BY ConstantTypes
<1>2. good \in Nat /\ bias \in Int
  BY ConstantTypes DEF ImuTypeOK
<1>3. CASE good = 0
  <2>1. bias = 0
    BY <1>3 DEF BiasInv
  <2> QED BY <1>1, <1>3, <2>1 DEF Residual, Abs
<1>4. CASE good # 0
  <2>1. REST_MIN <= bias /\ bias <= REST_MAX
    BY <1>4 DEF BiasInv
  <2> QED BY <1>1, <1>2, <1>4, <2>1 DEF Residual, Abs
<1> QED BY <1>3, <1>4

\* The filter does not leave the angle at which rate and tilt balance.
LEMMA FilterBounded ==
    ASSUME NEW R \in Nat, NEW T \in Nat, NEW angle \in Int, NEW gyro \in Int, NEW tilt \in Int,
           Abs(angle) <= 49 * R + T, Abs(gyro) <= R, Abs(tilt) <= T,
           NEW next \in complementary_filter(angle, gyro, tilt)
    PROVE  next \in Int /\ Abs(next) <= 49 * R + T
<1> DEFINE s == 49 * (angle + gyro) + tilt
           B == 49 * R + T
<1>1. s \in Int /\ B \in Nat /\ 50 * (-B) <= s /\ s <= 50 * B
  BY DEF Abs
<1>2. next \in Rounded(s, 50)
  BY DEF complementary_filter
<1>3. next \in Int /\ -B <= next /\ next <= B
  BY <1>1, <1>2, QuotientBounds
<1> QED BY <1>1, <1>3 DEF Abs

-----------------------------------------------------------------------------
LEMMA InitEstablishes == ImuInit => ImuInv
<1> SUFFICES ASSUME ImuInit PROVE ImuInv
  OBVIOUS
<1>1. ImuTypeOK
  <2>1. filled \in BOOLEAN
    BY Zenon DEF ImuInit
  <2>2. lpf \in Int /\ Abs(lpf) <= TILT_MAX
    BY ConstantTypes DEF ImuInit, Abs
  <2> QED BY <2>1, <2>2, ConstantTypes DEF ImuInit, ImuTypeOK
<1>2. BiasInv /\ UnusedInv /\ LevelInv
  BY ConstantTypes DEF ImuInit, BiasInv, UnusedInv, LevelInv, Abs
<1>3. DriftBounded
  <2>1. PICK R \in Nat : R = Residual
    BY ResidualPositive
  <2>2. DriftBounded <=> (motion = "never" => Abs(0) <= R /\ Abs(0) <= 49 * R + TILT_REST)
    BY <2>1 DEF DriftBounded, DriftLimit, ImuInit
  <2> QED BY <2>1, <2>2, ConstantTypes DEF Abs
<1> QED BY <1>1, <1>2, <1>3 DEF ImuInv

LEMMA SampleKeeps ==
    ASSUME ImuInv, CalibSample
    PROVE  ImuInv'
<1>1. i \in Nat /\ i < CALIB_SAMPLES /\ i' = i + 1 /\ good \in 0..i /\ sum \in Int
  BY ConstantTypes DEF ImuInv, ImuTypeOK, CalibSample
<1>2. /\ good' \in 0..i' /\ sum' \in Int
      /\ good' * REST_MIN <= sum' /\ sum' <= good' * REST_MAX
  <2>1. good * REST_MIN <= sum /\ sum <= good * REST_MAX
    BY DEF ImuInv, BiasInv, CalibSample
  <2>2. CASE UNCHANGED <<sum, good>>
    BY <1>1, <2>1, <2>2
  <2>3. ASSUME NEW w \in RestWords, sum' = sum + Int16(w), good' = good + 1
        PROVE  <1>2
    <3>1. Int16(w) \in Int /\ REST_MIN <= Int16(w) /\ Int16(w) <= REST_MAX
      BY RestRange
    <3>2. (good + 1) * REST_MIN = good * REST_MIN + REST_MIN
          /\ (good + 1) * REST_MAX = good * REST_MAX + REST_MAX
      BY <1>1, ConstantTypes
    <3> QED BY <1>1, <2>1, <2>3, <3>1, <3>2, ConstantTypes
  <2> QED BY <2>2, <2>3 DEF CalibSample
<1>3. ImuTypeOK'
  <2>1. i' \in 0..CALIB_SAMPLES
    BY <1>1, ConstantTypes
  <2> QED BY <1>2, <2>1 DEF ImuInv, ImuTypeOK, CalibSample
<1>4. BiasInv' /\ UnusedInv' /\ LevelInv'
  BY <1>2 DEF ImuInv, BiasInv, UnusedInv, LevelInv, CalibSample
<1>5. DriftBounded'
  BY ZeroIsBounded DEF ImuInv, UnusedInv, CalibSample
<1> QED BY <1>3, <1>4, <1>5 DEF ImuInv

LEMMA CalibEndsKeeps ==
    ASSUME ImuInv, CalibEnds
    PROVE  ImuInv'
<1>1. good \in Nat /\ sum \in Int /\ bias = 0
      /\ good * REST_MIN <= sum /\ sum <= good * REST_MAX
  BY ConstantTypes DEF ImuInv, ImuTypeOK, BiasInv, CalibEnds
<1>2. bias' \in Int /\ IF good = 0 THEN bias' = 0 ELSE REST_MIN <= bias' /\ bias' <= REST_MAX
  <2>1. CASE good = 0
    BY <1>1, <2>1 DEF CalibEnds, GyroBias
  <2>2. CASE good # 0
    <3>1. bias' \in Rounded(sum, good)
      BY <2>2 DEF CalibEnds, GyroBias
    <3>2. bias' \in Int /\ REST_MIN <= bias' /\ bias' <= REST_MAX
      BY <1>1, <2>2, <3>1, ConstantTypes, QuotientBounds
    <3> QED BY <2>2, <3>2
  <2> QED BY <2>1, <2>2
<1>3. ImuTypeOK'
  BY <1>2 DEF ImuInv, ImuTypeOK, CalibEnds
<1>4. BiasInv' /\ UnusedInv' /\ LevelInv'
  BY <1>2 DEF ImuInv, BiasInv, UnusedInv, LevelInv, CalibEnds
<1>5. DriftBounded'
  BY ZeroIsBounded DEF ImuInv, UnusedInv, CalibEnds
<1> QED BY <1>3, <1>4, <1>5 DEF ImuInv

\* The steps that touch neither the calibration nor the attitude.
LEMMA OtherStepsKeep ==
    ASSUME ImuInv, mpu9250_init \/ SeedFilter \/ Move \/ UNCHANGED imuVars
    PROVE  ImuInv'
<1> USE DEF mpu9250_init, SeedFilter, Move, imuVars, calibVars, ImuInv
<1>1. ImuTypeOK' /\ LevelInv'
  <2>1. CASE SeedFilter
    <3>1. CASE UNCHANGED <<filled, lpf>>
      BY <2>1, <3>1 DEF ImuTypeOK, LevelInv
    <3>2. CASE filled' = TRUE /\ lpf' \in RestTilts
      <4>1. lpf' \in Int /\ Abs(lpf') <= TILT_REST
        BY <3>2, ImuAssumption
      <4>2. Abs(lpf') <= TILT_MAX
        <5>1. Abs(lpf') \in Nat
          BY <4>1, AbsIsNat
        <5> QED BY <4>1, <5>1, ConstantTypes
      <4>3. filled' \in BOOLEAN
        BY <3>2, Zenon
      <4> QED BY <2>1, <4>1, <4>2, <4>3 DEF ImuTypeOK, LevelInv
    <3> QED BY <2>1, <3>1, <3>2
  <2> QED BY <2>1 DEF ImuTypeOK, LevelInv
<1>2. BiasInv'
  <2>1. CASE mpu9250_init
    BY <2>1 DEF BiasInv, ImuTypeOK
  <2> QED BY <2>1 DEF BiasInv
<1>3. UnusedInv'
  BY DEF UnusedInv
<1>4. DriftBounded'
  BY DEF DriftBounded, DriftLimit, Residual
<1> QED BY <1>1, <1>2, <1>3, <1>4

LEMMA UpdateKeeps ==
    ASSUME ImuInv, mpu9250_update
    PROVE  ImuInv'
<1>1. UNCHANGED <<pc, calibVars, motion>> /\ pc = "loop"
  BY DEF mpu9250_update
<1>2. PICK w \in Gyro, a \in Accelerometer :
          /\ lpf' \in accel_lpf(a) /\ filled' = TRUE
          /\ rate' = Int16(w) - bias
          /\ roll' \in complementary_filter(roll, rate', lpf')
  BY DEF mpu9250_update
<1>3. lpf' \in Int /\ Abs(lpf') <= TILT_MAX /\ LevelInv'
  <2>1. lpf \in Int /\ Abs(lpf) <= TILT_MAX
    BY DEF ImuInv, ImuTypeOK
  <2>2. a \in Int /\ Abs(a) <= TILT_MAX
    BY ImuAssumption, ConstantTypes DEF Accelerometer, Abs
  <2>3. lpf' \in Int /\ Abs(lpf') <= TILT_MAX
    <3>1. lpf' \in Int /\ (Abs(lpf') <= Abs(lpf) \/ Abs(lpf') <= TILT_MAX)
      BY <1>2, <2>1, <2>2, FilteredDirection, ConstantTypes
    <3>2. Abs(lpf') \in Nat /\ Abs(lpf) \in Nat
      BY <2>1, <3>1, AbsIsNat
    <3> QED BY <2>1, <3>1, <3>2, ConstantTypes
  <2>4. ASSUME motion = "never" PROVE Abs(lpf') <= TILT_REST
    <3>1. Abs(lpf) <= TILT_REST /\ Abs(a) <= TILT_REST
      BY <2>4, ImuAssumption DEF ImuInv, LevelInv, Accelerometer
    <3>2. Abs(lpf') <= Abs(lpf) \/ Abs(lpf') <= TILT_REST
      BY <1>2, <2>1, <2>2, <3>1, FilteredDirection, ConstantTypes
    <3>3. Abs(lpf') \in Nat /\ Abs(lpf) \in Nat
      BY <2>1, <2>3, AbsIsNat
    <3> QED BY <3>1, <3>2, <3>3, ConstantTypes
  <2> QED BY <1>1, <2>3, <2>4 DEF LevelInv
<1>4. filled' \in BOOLEAN
  BY <1>2, Zenon
<1>5. bias \in Int /\ roll \in Int /\ Int16(w) \in Int
  BY ImuAssumption DEF ImuInv, ImuTypeOK, Gyro, Int16
<1>6. rate' \in Int /\ roll' \in Int
  <2>1. rate' \in Int
    BY <1>2, <1>5
  <2>2. 49 * (roll + rate') + lpf' \in Int
    BY <1>3, <1>5, <2>1
  <2>3. \A s \in Int : Rounded(s, 50) \subseteq Int
    BY DEF Rounded
  <2> QED BY <1>2, <2>1, <2>2, <2>3 DEF complementary_filter
<1>7. ImuTypeOK'
  BY <1>1, <1>3, <1>4, <1>6 DEF ImuInv, ImuTypeOK, calibVars
<1>8. BiasInv' /\ UnusedInv'
  BY <1>1 DEF ImuInv, BiasInv, UnusedInv, calibVars
<1>9. DriftBounded'
  <2> SUFFICES ASSUME motion = "never"
               PROVE  Abs(rate') <= Residual /\ Abs(roll') <= 49 * Residual + TILT_REST
    BY <1>1 DEF DriftBounded, DriftLimit, Residual, calibVars
  <2>1. w \in RestWords
    BY DEF Gyro
  <2>2. Int16(w) \in REST_MIN..REST_MAX
    BY <2>1, RestRange, ConstantTypes
  <2>3. Abs(rate') <= Residual
    BY <1>1, <1>2, <2>2, RestingRate DEF ImuInv
  <2>4. Abs(roll) <= 49 * Residual + TILT_REST
    BY DEF ImuInv, DriftBounded, DriftLimit
  <2>5. Abs(lpf') <= TILT_REST
    BY <1>1, <1>3 DEF LevelInv
  <2>6. Abs(roll') <= 49 * Residual + TILT_REST
    BY <1>2, <1>3, <1>5, <1>6, <2>3, <2>4, <2>5, FilterBounded, ResidualPositive, ConstantTypes
  <2> QED BY <2>3, <2>6
<1> QED BY <1>3, <1>7, <1>8, <1>9 DEF ImuInv

LEMMA ImuStepKeeps ==
    ASSUME ImuInv, [ImuNext]_imuVars
    PROVE  ImuInv'
BY SampleKeeps, CalibEndsKeeps, OtherStepsKeep, UpdateKeeps DEF ImuNext, mpu9250_driver_init

LEMMA ImuInvariant == ImuSpec => []ImuInv
<1>1. ImuInv /\ [ImuNext]_imuVars => ImuInv'
  BY ImuStepKeeps
<1> QED BY <1>1, InitEstablishes, PTL DEF ImuSpec

\* The types of the driver.
THEOREM ImuTyped == ImuSpec => []ImuTypeOK
BY ImuInvariant, PTL DEF ImuInv

\* Neither the rate nor the attitude of a board at rest drifts away, whichever transfers
\* failed during the calibration: 49 times the residual rate is what the filter's
\* two weights make of it in the limit.
THEOREM DriftIsBounded == ImuSpec => []DriftBounded
BY ImuInvariant, PTL DEF ImuInv

-----------------------------------------------------------------------------
(* The attitude at rest, whatever came before *)

\* Beyond the bound the accelerometer's pull is stronger than the residual rate, and within
\* it the filter stays there: the last units are those that rounding may add.
LEMMA FilterShrinks ==
    ASSUME NEW R \in Nat, NEW T \in Nat, NEW angle \in Int, NEW gyro \in Int, NEW tilt \in Int,
           Abs(gyro) <= R, Abs(tilt) <= T,
           NEW next \in complementary_filter(angle, gyro, tilt)
    PROVE  next \in Int /\ (Abs(next) < Abs(angle) \/ Abs(next) <= 49 * R + T + 49)
<1> DEFINE s == 49 * (angle + gyro) + tilt
           L == 49 * R + T
<1>1. L \in Nat /\ s \in Int /\ next \in Rounded(s, 50)
  BY DEF complementary_filter
<1>2. PICK A \in Nat : A = Abs(angle)
  BY DEF Abs
<1>3. -(49 * A + L) <= s /\ s <= 49 * A + L
  BY <1>2 DEF Abs
<1> HIDE DEF s, L
<1>4. CASE A > L + 49
  <2>1. 50 * (-(A - 1)) <= s /\ s <= 50 * (A - 1)
    BY <1>1, <1>3, <1>4
  <2>2. next \in Int /\ -(A - 1) <= next /\ next <= A - 1
    BY <1>1, <2>1, QuotientBounds
  <2>3. Abs(next) < A
    BY <2>2 DEF Abs
  <2> QED BY <1>2, <2>2, <2>3
<1>5. CASE A <= L + 49
  <2>1. PICK B \in Nat : B = L + 49
    BY <1>1
  <2>2. 50 * (-B) <= s /\ s <= 50 * B
    BY <1>1, <1>3, <1>5, <2>1
  <2>3. next \in Int /\ -B <= next /\ next <= B
    BY <1>1, <2>2, QuotientBounds
  <2>4. Abs(next) <= L + 49
    BY <2>1, <2>3 DEF Abs
  <2> QED BY <2>3, <2>4 DEF L
<1> QED BY <1>1, <1>2, <1>4, <1>5

LEMMA UpdateShrinks ==
    ASSUME ImuInv, mpu9250_update, motion # "moving"
    PROVE  /\ Abs(lpf') <= Abs(lpf) \/ Abs(lpf') <= TILT_REST
           /\ \/ Abs(roll') < Abs(roll)
              \/ Abs(roll') <= DriftLimit(Abs(lpf')) + ROLL_ROUNDING
<1>1. PICK w \in RestWords, a \in RestTilts :
          /\ lpf' \in accel_lpf(a) /\ rate' = Int16(w) - bias
          /\ roll' \in complementary_filter(roll, rate', lpf')
  BY DEF mpu9250_update, Gyro, Accelerometer
<1>2. lpf' \in Int /\ (Abs(lpf') <= Abs(lpf) \/ Abs(lpf') <= TILT_REST)
  <2>1. a \in Int /\ Abs(a) <= TILT_REST /\ lpf \in Int
    BY ImuAssumption DEF ImuInv, ImuTypeOK
  <2> QED BY <1>1, <2>1, FilteredDirection, ConstantTypes
<1>3. PICK tilt \in Int : lpf' = tilt
  BY <1>2
<1>4. PICK T \in Nat : T = Abs(tilt)
  BY DEF Abs
<1>5. PICK gyro \in Int : rate' = gyro /\ Abs(gyro) <= Residual
  <2>1. bias \in Int /\ pc = "loop"
    BY DEF ImuInv, ImuTypeOK, mpu9250_update
  <2>2. Int16(w) \in REST_MIN..REST_MAX /\ Int16(w) \in Int
    BY RestRange, ConstantTypes
  <2> QED BY <1>1, <2>1, <2>2, RestingRate DEF ImuInv
<1>6. roll' \in complementary_filter(roll, gyro, tilt)
  BY <1>1, <1>3, <1>5
<1>7. roll \in Int /\ Residual \in Nat
  BY ResidualPositive DEF ImuInv, ImuTypeOK
<1>8. Abs(roll') < Abs(roll) \/ Abs(roll') <= 49 * Residual + T + 49
  <2>1. Abs(tilt) <= T
    BY <1>4
  <2>2. \A next \in complementary_filter(roll, gyro, tilt) :
           Abs(next) < Abs(roll) \/ Abs(next) <= 49 * Residual + T + 49
    BY <1>5, <1>7, <2>1, FilterShrinks
  <2> QED BY <1>6, <2>2
<1> QED BY <1>2, <1>3, <1>4, <1>8 DEF DriftLimit, ROLL_ROUNDING

\* At rest neither filter moves further from level than its inputs hold it, for every
\* sensor and whatever it read before; an attitude beyond that only comes nearer.
THEOREM ErrorShrinks == ImuSpec => RestShrinksError
<1>1. ImuInv /\ [ImuNext]_imuVars =>
          [mpu9250_update /\ motion # "moving" =>
              /\ Abs(lpf') <= Abs(lpf) \/ Abs(lpf') <= TILT_REST
              /\ \/ Abs(roll') < Abs(roll)
                 \/ Abs(roll') <= DriftLimit(Abs(lpf')) + ROLL_ROUNDING]_imuVars
  BY UpdateShrinks
<1>2. ImuInv /\ [ImuNext]_imuVars => ImuInv'
  BY ImuStepKeeps
<1> QED BY <1>1, <1>2, InitEstablishes, PTL DEF ImuSpec, RestShrinksError
=============================================================================
