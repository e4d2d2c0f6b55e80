-------------------------- MODULE FieldEnergyProofs --------------------------
(***************************************************************************)
(* Theorems of FieldEnergy, for every set of powers, unit, interval, length *)
(* of the queue and time.                                                  *)
(***************************************************************************)
EXTENDS FieldEnergy, TLAPS

(* What accumulator b counts of the energy used until t.                   *)
Counted(b, t) ==
    Unit * b.total + (IF b.power = None THEN 0 ELSE b.power * (t - b.until))

(* That is the energy u, but for what n roundings took.                    *)
Balanced(b, n, u, t) ==
    /\ Counted(b, t) <= u
    /\ u <= Counted(b, t) + n * (Unit - 1)

(* The accumulator agrees with the energy used until the next sample to be *)
(* taken, each sample with the next one, and the last one with now.        *)
EnergyInv ==
    /\ battery.until <= now
    /\ queue = <<>> => Balanced(battery, spans, used + twice, now)
    /\ queue = <<>> => level = IF battery.power = None THEN 0 ELSE battery.power
    /\ queue # <<>> => Balanced(battery, spans, queue[1].used + twice, queue[1].time)
    /\ \A i \in 1..(Len(queue) - 1) :
          queue[i + 1].used =
              queue[i].used + queue[i].power * (queue[i + 1].time - queue[i].time)
    /\ \A i \in 1..Len(queue) : queue[i].time <= now
    /\ queue # <<>> =>
          LET last == queue[Len(queue)]
          IN  level = last.power /\ used = last.used + last.power * (now - last.time)

-----------------------------------------------------------------------------
(***************************************************************************)
(* Types.                                                                  *)
(***************************************************************************)

LEMMA Division ==
    ASSUME NEW x \in Nat
    PROVE  /\ x \div Unit \in Nat
           /\ Unit * (x \div Unit) <= x
           /\ x <= Unit * (x \div Unit) + (Unit - 1)
  BY EnergyAssumption

LEMMA ProductIsNat ==
    ASSUME NEW a \in Nat, NEW b \in Nat
    PROVE  a * b \in Nat
  OBVIOUS

Battery == [power : Powers \union {None}, until : 0..MaxTime, interval : Nat, total : Nat]

LEMMA Fields ==
    ASSUME TypeOK
    PROVE  /\ battery.power \in Powers \union {None}
           /\ battery.power # None => battery.power \in Powers /\ battery.power \in Nat
           /\ battery.until \in 0..MaxTime /\ battery.until \in Nat
           /\ battery.interval \in Nat /\ battery.total \in Nat
           /\ battery = [power |-> battery.power, until |-> battery.until,
                         interval |-> battery.interval, total |-> battery.total]
           /\ now \in Nat /\ MaxTime \in Nat /\ Unit \in Nat /\ Unit > 0
           /\ log.due \in Nat
           /\ level \in Nat /\ used \in Nat /\ twice \in Nat /\ spans \in Nat /\ reported \in Nat
<1>1. /\ battery.power \in Powers \union {None} /\ battery.until \in 0..MaxTime
      /\ battery.interval \in Nat /\ battery.total \in Nat /\ log.due \in Nat
      /\ battery = [power |-> battery.power, until |-> battery.until,
                    interval |-> battery.interval, total |-> battery.total]
  BY DEF TypeOK
<1>2. /\ now \in 0..MaxTime /\ level \in Powers \union {0}
      /\ used \in Nat /\ twice \in Nat /\ spans \in Nat /\ reported \in Nat
  BY DEF TypeOK
<1>3. /\ MaxTime \in Nat /\ Unit \in Nat /\ Unit > 0 /\ Powers \subseteq Nat
  BY EnergyAssumption
<1>4. now \in Nat /\ battery.until \in Nat BY <1>1, <1>2, <1>3
<1>5. level \in Nat BY <1>2, <1>3
<1>6. battery.power # None => battery.power \in Powers /\ battery.power \in Nat
  BY <1>1, <1>3
<1> QED BY <1>1, <1>2, <1>3, <1>4, <1>5, <1>6

LEMMA SampleFields ==
    ASSUME NEW s \in Sample
    PROVE  /\ s.time \in 0..MaxTime /\ s.time \in Nat
           /\ s.power \in Powers /\ s.power \in Nat /\ s.used \in Nat
<1>1. s.time \in 0..MaxTime /\ s.power \in Powers /\ s.used \in Nat
  BY DEF Sample
<1>2. MaxTime \in Nat /\ Powers \subseteq Nat BY EnergyAssumption
<1>3. s.time \in Nat BY <1>1, <1>2
<1>4. s.power \in Nat BY <1>1, <1>2
<1> QED BY <1>1, <1>3, <1>4

(* What integrating a span does: the energy added is that of the span, but *)
(* for less than a unit.                                                   *)
LEMMA Integration ==
    ASSUME TypeOK, NEW t \in 0..MaxTime
    PROVE  LET b == IntegratedUntil(t)
           IN  /\ b \in Battery
               /\ b.power = battery.power
               /\ b.interval - b.total = battery.interval - battery.total
               /\ ~Integrates(t) => b = battery
               /\ Integrates(t) =>
                     /\ b.until = t
                     /\ Unit * b.total <= Unit * battery.total + battery.power * (t - battery.until)
                     /\ Unit * battery.total + battery.power * (t - battery.until)
                            <= Unit * b.total + (Unit - 1)
<1> DEFINE span == battery.power * (t - battery.until)
           e == span \div Unit
           b == IntegratedUntil(t)
<1>1. CASE ~Integrates(t)
  BY <1>1, Fields DEF IntegratedUntil, Battery
<1>2. CASE Integrates(t)
  <2>1. battery.power # None /\ battery.power \in Nat /\ t - battery.until \in Nat
    <3>1. battery.power # None /\ t > battery.until BY <1>2 DEF Integrates
    <3>2. battery.power \in Nat BY <3>1, Fields
    <3>3. t - battery.until \in Nat BY <3>1, Fields
    <3> QED BY <3>1, <3>2, <3>3
  <2>2. span \in Nat BY <2>1, ProductIsNat
  <2> HIDE DEF span
  <2>3. e \in Nat /\ Unit * e <= span /\ span <= Unit * e + (Unit - 1)
    BY <2>2, Division
  <2>4. b = [battery EXCEPT !.interval = battery.interval + e,
                            !.total = battery.total + e, !.until = t]
    BY <1>2 DEF IntegratedUntil, span
  <2> HIDE DEF e, b
  <2>5. b = [power |-> battery.power, until |-> t, interval |-> battery.interval + e,
             total |-> battery.total + e]
    BY <2>4, Fields
  <2>6. battery.interval + e \in Nat /\ battery.total + e \in Nat BY <2>3, Fields
  <2>7. b \in Battery BY <2>5, <2>6, Fields DEF Battery
  <2>8. /\ b.power = battery.power /\ b.until = t
        /\ b.interval = battery.interval + e /\ b.total = battery.total + e
    BY <2>5
  <2>9. Unit * b.total = Unit * battery.total + Unit * e
    BY <2>3, <2>8, Fields
  <2>10. Unit * battery.total \in Int /\ Unit * e \in Int /\ Unit \in Int
    BY <2>3, Fields
  <2>11. /\ Unit * b.total <= Unit * battery.total + span
         /\ Unit * battery.total + span <= Unit * b.total + (Unit - 1)
    BY <2>2, <2>3, <2>9, <2>10
  <2>12. b.interval - b.total = battery.interval - battery.total
    BY <2>3, <2>8, Fields
  <2> QED BY <1>2, <2>7, <2>8, <2>11, <2>12 DEF b, span
<1> QED BY <1>1, <1>2

(* Every variable stays in its type: no energy is negative, whatever order *)
(* samples and summaries come in, and no queue grows beyond its length.    *)
THEOREM TypeCorrect == Spec => []TypeOK
<1>1. Init => TypeOK
  BY EnergyAssumption DEF Init, TypeOK, Sample, None
<1>2. TypeOK /\ [Next]_vars => TypeOK'
  <2> SUFFICES ASSUME TypeOK, [Next]_vars PROVE TypeOK'
    OBVIOUS
  <2> USE EnergyAssumption
  <2>1. CASE Tick
    <3>1. used' \in Nat BY <2>1 DEF Tick, TypeOK
    <3>2. now' \in 0..MaxTime BY <2>1 DEF Tick, TypeOK
    <3>3. UNCHANGED <<queue, battery, log, level, twice, spans, reported>> BY <2>1 DEF Tick
    <3> QED BY <3>1, <3>2, <3>3 DEF TypeOK
  <2>2. ASSUME NEW p \in Powers, Note(p) PROVE TypeOK'
    <3>1. [time |-> now, power |-> p, used |-> used] \in Sample
      BY DEF TypeOK, Sample
    <3>2. queue' \in Seq(Sample) /\ Len(queue') <= QueueLength
      BY <2>2, <3>1 DEF Note, TypeOK
    <3>3. level' \in Powers /\ UNCHANGED <<now, battery, log, used, twice, spans, reported>>
      BY <2>2 DEF Note
    <3> QED BY <3>2, <3>3 DEF TypeOK
  <2>3. CASE LoopTop BY <2>3 DEF LoopTop, TypeOK
  <2>4. CASE WaitEnds BY <2>4 DEF WaitEnds, TypeOK
  <2>5. CASE ProcessSample
    <3> DEFINE s == Head(queue)
    <3>1. s \in Sample BY <2>5 DEF ProcessSample, TypeOK
    <3>2. IntegratedUntil(s.time) \in Battery BY <3>1, SampleFields, Integration
    <3>3. battery' \in Battery
      BY <2>5, <3>1, <3>2, SampleFields DEF ProcessSample, Battery
    <3>4. queue' \in Seq(Sample) /\ Len(queue') <= QueueLength
      BY <2>5 DEF ProcessSample, TypeOK
    <3>5. twice' \in Nat
      <4>1. CASE battery.power # None /\ s.time < battery.until
        <5>1. battery.power \in Nat /\ battery.until - s.time \in Nat
          BY <3>1, <4>1, Fields, SampleFields
        <5>2. battery.power * (battery.until - s.time) \in Nat
          BY <5>1, ProductIsNat
        <5>3. twice' = twice + battery.power * (battery.until - s.time)
          BY <2>5, <4>1 DEF ProcessSample
        <5> HIDE DEF s
        <5> QED BY <5>2, <5>3, Fields
      <4>2. CASE ~(battery.power # None /\ s.time < battery.until)
        BY <2>5, <4>2 DEF ProcessSample, TypeOK
      <4> QED BY <4>1, <4>2
    <3>6. spans' \in Nat
      <4>1. spans' = spans + (IF Integrates(s.time) THEN 1 ELSE 0)
        BY <2>5 DEF ProcessSample, CountsSpan
      <4>2. spans \in Nat BY Fields
      <4> QED BY <4>1, <4>2
    <3>7. log' \in [pc : {"top", "wait", "due", "summary"}, due : Nat]
      BY <2>5 DEF ProcessSample, TypeOK
    <3>8. UNCHANGED <<now, level, used, reported>> BY <2>5 DEF ProcessSample
    <3> QED BY <3>3, <3>4, <3>5, <3>6, <3>7, <3>8 DEF TypeOK, Battery
  <2>6. CASE SummaryBegins
    <3>1. battery' \in Battery
      BY <2>6, Integration DEF SummaryBegins, TypeOK
    <3>2. battery'.interval \in Nat BY <3>1 DEF Battery
    <3>3. reported' = reported + battery'.interval BY <2>6 DEF SummaryBegins
    <3>4. reported' \in Nat BY <3>2, <3>3, Fields
    <3>5. spans' \in Nat
      <4>1. spans' = spans + (IF Integrates(now) THEN 1 ELSE 0)
        BY <2>6 DEF SummaryBegins, CountsSpan
      <4>2. spans \in Nat BY Fields
      <4> QED BY <4>1, <4>2
    <3>6. log' \in [pc : {"top", "wait", "due", "summary"}, due : Nat]
      BY <2>6 DEF SummaryBegins, TypeOK
    <3>7. UNCHANGED <<now, queue, level, used, twice>> BY <2>6 DEF SummaryBegins
    <3> QED BY <3>1, <3>4, <3>5, <3>6, <3>7 DEF TypeOK, Battery
  <2>7. CASE SummaryEnds
    <3>1. battery' = [power |-> battery.power, until |-> battery.until,
                      interval |-> 0, total |-> battery.total]
      BY <2>7, Fields DEF SummaryEnds
    <3>2. log' = [pc |-> "top", due |-> log.due + SummaryInterval]
      BY <2>7 DEF SummaryEnds
    <3>3. battery' \in Battery BY <3>1, Fields DEF Battery
    <3>4. log.due + SummaryInterval \in Nat BY Fields
    <3>5. log' \in [pc : {"top", "wait", "due", "summary"}, due : Nat]
      BY <3>2, <3>4
    <3>6. UNCHANGED <<now, queue, level, used, twice, spans, reported>>
      BY <2>7 DEF SummaryEnds
    <3> QED BY <3>3, <3>5, <3>6 DEF TypeOK, Battery
  <2>8. CASE UNCHANGED vars BY <2>8 DEF vars, TypeOK
  <2> QED BY <2>1, <2>2, <2>3, <2>4, <2>5, <2>6, <2>7, <2>8 DEF Next, LogThread
<1> QED BY <1>1, <1>2, PTL DEF Spec

-----------------------------------------------------------------------------
(***************************************************************************)
(* Intervals.                                                              *)
(***************************************************************************)

(* The intervals reported and the one under way make up the total: what is *)
(* added goes to both, and only what a summary has reported is cleared.    *)
THEOREM IntervalsCorrect == Spec => []IntervalsMakeTotal
<1>1. Init => IntervalsMakeTotal
  BY DEF Init, IntervalsMakeTotal
<1>2. TypeOK /\ IntervalsMakeTotal /\ [Next]_vars => IntervalsMakeTotal'
  <2> SUFFICES ASSUME TypeOK, IntervalsMakeTotal, [Next]_vars PROVE IntervalsMakeTotal'
    OBVIOUS
  <2>1. CASE Tick BY <2>1 DEF Tick, IntervalsMakeTotal
  <2>2. ASSUME NEW p \in Powers, Note(p) PROVE IntervalsMakeTotal'
    BY <2>2 DEF Note, IntervalsMakeTotal
  <2>3. CASE LoopTop BY <2>3 DEF LoopTop, IntervalsMakeTotal, TypeOK
  <2>4. CASE WaitEnds BY <2>4 DEF WaitEnds, IntervalsMakeTotal, TypeOK
  <2>5. CASE ProcessSample
    <3> DEFINE s == Head(queue)
               b == IntegratedUntil(s.time)
    <3>1. s \in Sample BY <2>5 DEF ProcessSample, TypeOK
    <3>2. b \in Battery /\ b.interval - b.total = battery.interval - battery.total
      BY <3>1, SampleFields, Integration
    <3>3. battery' = [b EXCEPT !.power = s.power, !.until = s.time]
      BY <2>5 DEF ProcessSample
    <3>4. log.pc = "wait" /\ log'.pc = "top" /\ reported' = reported
      BY <2>5 DEF ProcessSample, TypeOK
    <3> HIDE DEF b, s
    <3>5. battery'.total = b.total /\ battery'.interval = b.interval
      BY <3>2, <3>3 DEF Battery
    <3>6. b.total \in Nat /\ b.interval \in Nat BY <3>2 DEF Battery
    <3>7. battery.total = reported + battery.interval BY <3>4 DEF IntervalsMakeTotal
    <3>8. b.total = reported + b.interval BY <3>2, <3>6, <3>7, Fields
    <3> QED BY <3>4, <3>5, <3>8 DEF IntervalsMakeTotal
  <2>6. CASE SummaryBegins
    <3>1. now \in 0..MaxTime BY DEF TypeOK
    <3>2. battery' \in Battery /\ battery'.interval - battery'.total = battery.interval - battery.total
      BY <2>6, <3>1, Integration DEF SummaryBegins
    <3>3. /\ log.pc = "due" /\ log'.pc = "summary"
          /\ reported' = reported + battery'.interval
      BY <2>6 DEF SummaryBegins, TypeOK
    <3>4. battery'.total \in Nat /\ battery'.interval \in Nat BY <3>2 DEF Battery
    <3>5. battery.total = reported + battery.interval BY <3>3 DEF IntervalsMakeTotal
    <3>6. battery'.total = reported' BY <3>2, <3>3, <3>4, <3>5, Fields
    <3>7. reported' \in Nat BY <3>4, <3>6
    <3> QED BY <3>3, <3>6, <3>7 DEF IntervalsMakeTotal
  <2>7. CASE SummaryEnds
    <3>1. battery' = [power |-> battery.power, until |-> battery.until,
                      interval |-> 0, total |-> battery.total]
      BY <2>7, Fields DEF SummaryEnds
    <3>2. log.pc = "summary" /\ log'.pc = "top" /\ reported' = reported
      BY <2>7 DEF SummaryEnds
    <3>3. battery.total = reported BY <3>2, Fields DEF IntervalsMakeTotal
    <3> QED BY <3>1, <3>2, <3>3, Fields DEF IntervalsMakeTotal
  <2>8. CASE UNCHANGED vars BY <2>8 DEF vars, IntervalsMakeTotal
  <2> QED BY <2>1, <2>2, <2>3, <2>4, <2>5, <2>6, <2>7, <2>8 DEF Next, LogThread
<1> QED BY <1>1, <1>2, TypeCorrect, PTL DEF Spec

-----------------------------------------------------------------------------
(***************************************************************************)
(* Energy.                                                                 *)
(***************************************************************************)

LEMMA Spans ==
    ASSUME NEW p \in Int, NEW a \in Int, NEW b \in Int, NEW c \in Int
    PROVE  /\ p * (a - c) = p * (a - b) + p * (b - c)
           /\ p * (a - c) \in Int /\ p * (a - b) \in Int /\ p * (b - c) \in Int
           /\ p * (a - c) = -(p * (c - a))
  OBVIOUS

LEMMA BatteryFields ==
    ASSUME NEW b \in Battery
    PROVE  /\ b.until \in Nat /\ b.total \in Nat
           /\ b.power # None => b.power \in Int
<1>1. b.until \in 0..MaxTime /\ b.total \in Nat /\ b.power \in Powers \union {None}
  BY DEF Battery
<1>2. MaxTime \in Nat /\ Powers \subseteq Nat BY EnergyAssumption
<1>3. b.power # None => b.power \in Nat BY <1>1, <1>2
<1>4. b.until \in Nat BY <1>1, <1>2
<1> QED BY <1>1, <1>3, <1>4

LEMMA CountedIsInt ==
    ASSUME NEW b \in Battery, NEW t \in Nat
    PROVE  Counted(b, t) \in Int
<1>1. b.total \in Nat /\ b.until \in Nat /\ Unit \in Nat
  BY EnergyAssumption, BatteryFields
<1>2. b.power # None => b.power \in Int
  BY BatteryFields
<1>3. Unit * b.total \in Int BY <1>1
<1>4. b.power # None => b.power * (t - b.until) \in Int BY <1>1, <1>2
<1> QED BY <1>3, <1>4 DEF Counted

(* What is counted until t1 is what is counted until t0 and the energy in  *)
(* between, at the power of the accumulator.                               *)
LEMMA Shifted ==
    ASSUME NEW b \in Battery, NEW t0 \in Nat, NEW t1 \in Nat
    PROVE  Counted(b, t1) = Counted(b, t0)
               + (IF b.power = None THEN 0 ELSE b.power * (t1 - t0))
<1>1. b.until \in Nat /\ (b.power # None => b.power \in Int)
  BY BatteryFields
<1>2. Unit * b.total \in Int BY EnergyAssumption, BatteryFields
<1>3. CASE b.power = None BY <1>2, <1>3 DEF Counted
<1>4. CASE b.power # None
  <2> DEFINE x == b.power * (t1 - b.until)
             y == b.power * (t0 - b.until)
             d == b.power * (t1 - t0)
  <2>1. x = d + y /\ x \in Int /\ y \in Int /\ d \in Int
    BY <1>1, <1>4, Spans
  <2>2. Counted(b, t1) = Unit * b.total + x /\ Counted(b, t0) = Unit * b.total + y
    BY <1>4 DEF Counted
  <2> HIDE DEF x, y, d
  <2>3. Counted(b, t1) = Counted(b, t0) + d BY <1>2, <2>1, <2>2
  <2> QED BY <1>4, <2>3 DEF d
<1> QED BY <1>3, <1>4

(* Integrating keeps the balance at any time: what the total gains the     *)
(* running span loses, but for one more rounding.                          *)
LEMMA BalanceKept ==
    ASSUME TypeOK, NEW T \in 0..MaxTime, NEW t \in Nat, NEW u \in Nat,
           Balanced(battery, spans, u, t)
    PROVE  Balanced(IntegratedUntil(T), spans + (IF Integrates(T) THEN 1 ELSE 0), u, t)
<1> DEFINE b == IntegratedUntil(T)
           span == battery.power * (T - battery.until)
<1>1. /\ b \in Battery /\ b.power = battery.power
      /\ ~Integrates(T) => b = battery
      /\ Integrates(T) => /\ b.until = T
                          /\ Unit * b.total <= Unit * battery.total + span
                          /\ Unit * battery.total + span <= Unit * b.total + (Unit - 1)
  BY Integration
<1>2. battery \in Battery BY DEF TypeOK, Battery
<1>3. CASE ~Integrates(T) BY <1>1, <1>3, Fields
<1>4. CASE Integrates(T)
  <2> DEFINE x == battery.power * (t - battery.until)
             y == battery.power * (t - T)
  <2>1. battery.power # None /\ battery.power \in Int BY <1>4, Fields DEF Integrates
  <2>2. x = y + span /\ x \in Int /\ y \in Int /\ span \in Int
    <3>1. T \in Int /\ t \in Int /\ battery.until \in Int BY Fields
    <3> QED BY <2>1, <3>1, Spans
  <2>3. Unit * battery.total \in Int /\ Unit * b.total \in Int /\ Unit \in Int
    BY <1>1, Fields DEF Battery
  <2>4. Counted(battery, t) = Unit * battery.total + x BY <2>1 DEF Counted
  <2>5. Counted(b, t) = Unit * b.total + y BY <1>1, <1>4, <2>1 DEF Counted
  <2>6. /\ spans * (Unit - 1) \in Int
        /\ (spans + 1) * (Unit - 1) = spans * (Unit - 1) + (Unit - 1)
    BY Fields
  <2>7. /\ Counted(battery, t) <= u
        /\ u <= Counted(battery, t) + spans * (Unit - 1)
    BY DEF Balanced
  <2>8. /\ Unit * b.total <= Unit * battery.total + span
        /\ Unit * battery.total + span <= Unit * b.total + (Unit - 1)
    BY <1>1, <1>4
  <2> HIDE DEF x, y, span, b
  <2>9. Counted(b, t) <= u BY <2>2, <2>3, <2>4, <2>5, <2>7, <2>8
  <2>10. u <= Counted(b, t) + (spans + 1) * (Unit - 1)
    BY <2>2, <2>3, <2>4, <2>5, <2>6, <2>7, <2>8
  <2>11. Balanced(b, spans + 1, u, t) BY <2>9, <2>10 DEF Balanced
  <2> QED BY <1>4, <2>11 DEF b
<1> QED BY <1>3, <1>4

LEMMA Queue ==
    ASSUME TypeOK
    PROVE  /\ \A i \in 1..Len(queue) : queue[i] \in Sample
           /\ queue # <<>> => Len(queue) >= 1 /\ Head(queue) = queue[1] /\ queue[1] \in Sample
  BY DEF TypeOK

(* A sample taken late starts the accumulator earlier than it had been     *)
(* integrated to, and the energy of the span between is counted twice.     *)
LEMMA SampleTaken ==
    ASSUME TypeOK, EnergyInv, ProcessSample
    PROVE  /\ battery' \in Battery /\ spans' \in Nat /\ twice' \in Nat
           /\ battery'.power = queue[1].power /\ battery'.power # None
           /\ battery'.until = queue[1].time
           /\ Balanced(battery', spans', queue[1].used + twice', queue[1].time)
<1> DEFINE s == queue[1]
           b == IntegratedUntil(s.time)
           late == battery.power # None /\ s.time < battery.until
<1>1. queue # <<>> /\ s \in Sample /\ s = Head(queue)
  BY Queue DEF ProcessSample
<1>2. /\ s.time \in 0..MaxTime /\ s.time \in Nat /\ s.power \in Powers /\ s.power \in Nat
      /\ s.used \in Nat
  BY <1>1, SampleFields
<1>3. /\ b \in Battery /\ b.power = battery.power
      /\ ~Integrates(s.time) => b = battery
      /\ Integrates(s.time) => b.until = s.time
  BY <1>2, Integration
<1>4. battery' = [b EXCEPT !.power = s.power, !.until = s.time]
  BY <1>1 DEF ProcessSample
<1>5. spans' = spans + (IF Integrates(s.time) THEN 1 ELSE 0)
  BY <1>1 DEF ProcessSample, CountsSpan
<1>6. twice' = twice + (IF late THEN battery.power * (battery.until - s.time) ELSE 0)
  BY <1>1, Fields DEF ProcessSample
<1>7. Balanced(battery, spans, s.used + twice, s.time)
  BY <1>1 DEF EnergyInv
<1>8. s.used + twice \in Nat BY <1>2, Fields
<1>9. Balanced(b, spans', s.used + twice, s.time)
  BY <1>2, <1>5, <1>7, <1>8, BalanceKept
<1> HIDE DEF b
<1>10. /\ battery' \in Battery /\ battery'.power = s.power /\ battery'.until = s.time
       /\ battery'.total = b.total
  BY <1>2, <1>3, <1>4 DEF Battery
<1>11. battery'.power # None BY <1>2, <1>10 DEF None
<1>12. spans' \in Nat /\ twice \in Nat BY <1>5, Fields
<1>13. Unit * b.total \in Int BY <1>3, BatteryFields, Fields
<1>14. Counted(battery', s.time) = Unit * b.total
  <2>1. s.power * (s.time - s.time) = 0 BY <1>2
  <2> QED BY <1>10, <1>11, <1>13, <2>1 DEF Counted
<1>15. CASE ~late
  <2>1. b.power = None \/ b.until = s.time
    BY <1>2, <1>3, <1>15, Fields DEF Integrates
  <2>2. b.power # None => b.power * (s.time - b.until) = 0
    <3> HAVE b.power # None
    <3>1. b.until = s.time /\ b.power \in Int BY <1>3, <2>1, BatteryFields
    <3> QED BY <1>2, <3>1
  <2>3. Counted(b, s.time) = Unit * b.total BY <1>13, <2>2 DEF Counted
  <2>4. twice' = twice BY <1>6, <1>12, <1>15
  <2>5. Balanced(battery', spans', s.used + twice', s.time)
    BY <1>9, <1>14, <2>3, <2>4 DEF Balanced
  <2> QED BY <1>10, <1>11, <1>12, <2>4, <2>5
<1>16. CASE late
  <2> DEFINE x == battery.power * (battery.until - s.time)
  <2>1. b = battery BY <1>2, <1>3, <1>16, Fields DEF Integrates
  <2>2. battery.power \in Nat /\ battery.until - s.time \in Nat
    <3>1. battery.power # None /\ s.time < battery.until BY <1>16
    <3> QED BY <1>2, <3>1, Fields
  <2>3. x \in Nat BY <2>2, ProductIsNat
  <2>4. battery.power * (s.time - battery.until) = -x
    <3>1. battery.power \in Int /\ s.time \in Int /\ battery.until \in Int
      BY <1>2, <2>2, Fields
    <3> QED BY <3>1, Spans
  <2>5. Counted(b, s.time) = Unit * b.total - x
    <3>1. Counted(b, s.time) = Unit * b.total + battery.power * (s.time - battery.until)
      BY <1>16, <2>1 DEF Counted
    <3> HIDE DEF x
    <3> QED BY <1>13, <2>3, <2>4, <3>1
  <2>6. twice' = twice + x BY <1>6, <1>16
  <2> HIDE DEF x
  <2>7. spans' * (Unit - 1) \in Int BY <1>12, Fields
  <2>8. Balanced(battery', spans', s.used + twice', s.time)
    BY <1>2, <1>9, <1>12, <1>13, <1>14, <2>3, <2>5, <2>6, <2>7 DEF Balanced
  <2>9. twice' \in Nat BY <1>12, <2>3, <2>6
  <2> QED BY <1>10, <1>11, <1>12, <2>8, <2>9
<1> QED BY <1>15, <1>16

LEMMA EnergyStep ==
    ASSUME TypeOK, EnergyInv, [Next]_vars
    PROVE  EnergyInv'
<1>0. battery \in Battery BY DEF TypeOK, Battery
<1>n. /\ now \in Nat /\ used \in Nat /\ twice \in Nat /\ spans \in Nat /\ level \in Nat
  BY Fields
<1>1. CASE Tick
  <2>1. now' = now + 1 /\ used' = used + level /\ now' \in Nat /\ used' \in Nat
    BY <1>1, Fields DEF Tick
  <2>2. /\ UNCHANGED <<queue, battery, level, twice, spans>>
    BY <1>1 DEF Tick
  <2>3. battery.until <= now' BY <2>1, Fields DEF EnergyInv
  <2>4. queue = <<>> => Balanced(battery, spans, used' + twice, now')
    <3> HAVE queue = <<>>
    <3> DEFINE d == IF battery.power = None THEN 0 ELSE battery.power * (now' - now)
    <3>1. Balanced(battery, spans, used + twice, now) /\ level = IF battery.power = None THEN 0 ELSE battery.power
      BY DEF EnergyInv
    <3>2. now' - now = 1 BY <2>1, Fields
    <3>3. d = level
      <4>1. battery.power # None => battery.power \in Int BY Fields
      <4> QED BY <3>1, <3>2, <4>1
    <3> DEFINE u == used + twice
               v == used' + twice
    <3>4. u \in Nat /\ v \in Nat /\ v = u + level
      BY <1>n, <2>1
    <3>5. d \in Int BY <1>n, <3>3
    <3>6. v = u + d BY <3>3, <3>4
    <3>7. Balanced(battery, spans, u, now) BY <3>1
    <3>8. d = IF battery.power = None THEN 0 ELSE battery.power * (now' - now) OBVIOUS
    <3> HIDE DEF u, v, d
    <3>9. Counted(battery, now') = Counted(battery, now) + d
      BY <1>0, <1>n, <2>1, <3>8, Shifted
    <3>10. Counted(battery, now) \in Int BY <1>0, <1>n, CountedIsInt
    <3>11. spans * (Unit - 1) \in Int BY <1>n, EnergyAssumption
    <3>12. Balanced(battery, spans, v, now')
      BY <3>4, <3>5, <3>6, <3>7, <3>9, <3>10, <3>11 DEF Balanced
    <3> QED BY <3>12 DEF v
  <2>5. \A i \in 1..Len(queue) : queue[i].time <= now'
    <3> TAKE i \in 1..Len(queue)
    <3>1. queue[i] \in Sample BY Queue
    <3>2. queue[i].time <= now BY DEF EnergyInv
    <3>3. queue[i].time \in Nat BY <3>1, SampleFields
    <3> QED BY <1>n, <2>1, <3>2, <3>3
  <2>6. queue # <<>> =>
          LET last == queue[Len(queue)]
          IN  level = last.power /\ used' = last.used + last.power * (now' - last.time)
    <3> HAVE queue # <<>>
    <3> DEFINE last == queue[Len(queue)]
    <3>1. Len(queue) \in 1..Len(queue) BY DEF TypeOK
    <3>2. last \in Sample BY <3>1, Queue
    <3>3. last.power \in Nat /\ last.time \in Nat /\ last.used \in Nat BY <3>2, SampleFields
    <3>4. level = last.power /\ used = last.used + last.power * (now - last.time)
      BY DEF EnergyInv
    <3> HIDE DEF last
    <3>5. last.power * (now' - last.time) = last.power * (now - last.time) + last.power
      <4>1. (now + 1) - last.time = (now - last.time) + 1 /\ now - last.time \in Int
        BY <1>n, <3>3
      <4>2. last.power \in Int BY <3>3
      <4>3. last.power * ((now - last.time) + 1) = last.power * (now - last.time) + last.power
        BY <4>1, <4>2
      <4> QED BY <2>1, <4>1, <4>3
    <3>6. last.power * (now - last.time) \in Int BY <1>n, <3>3
    <3>7. used' = last.used + last.power * (now' - last.time)
      BY <2>1, <3>3, <3>4, <3>5, <3>6
    <3> QED BY <3>4, <3>7 DEF last
  <2> QED BY <2>2, <2>3, <2>4, <2>5, <2>6 DEF EnergyInv
<1>2. ASSUME NEW p \in Powers, Note(p) PROVE EnergyInv'
  <2> DEFINE new == [time |-> now, power |-> p, used |-> used]
             n == Len(queue)
  <2>1. queue' = Append(queue, new) /\ level' = p /\ UNCHANGED <<now, battery, used, twice, spans>>
    BY <1>2 DEF Note
  <2>2. queue \in Seq(Sample) /\ n \in Nat BY DEF TypeOK
  <2>3. new \in Sample BY DEF TypeOK, Sample
  <2>4. /\ Len(queue') = n + 1 /\ queue'[n + 1] = new /\ queue' # <<>>
        /\ \A i \in 1..n : queue'[i] = queue[i]
    BY <2>1, <2>2, <2>3
  <2>5. new.time = now /\ new.power = p /\ new.used = used OBVIOUS
  <2>6. battery.until <= now BY DEF EnergyInv
  <2>7. Balanced(battery, spans, queue'[1].used + twice, queue'[1].time)
    <3>1. CASE queue = <<>>
      <4>1. queue'[1] = new BY <2>4, <3>1
      <4> QED BY <2>5, <3>1, <4>1 DEF EnergyInv
    <3>2. CASE queue # <<>>
      <4>1. queue'[1] = queue[1] BY <2>2, <2>4, <3>2
      <4> QED BY <3>2, <4>1 DEF EnergyInv
    <3> QED BY <3>1, <3>2
  <2>8. \A i \in 1..(Len(queue') - 1) :
          queue'[i + 1].used =
              queue'[i].used + queue'[i].power * (queue'[i + 1].time - queue'[i].time)
    <3> SUFFICES ASSUME NEW i \in 1..n
                 PROVE  queue'[i + 1].used =
                            queue'[i].used + queue'[i].power * (queue'[i + 1].time - queue'[i].time)
      BY <2>2, <2>4
    <3>1. queue'[i] = queue[i] BY <2>4
    <3>2. CASE i = n
      <4>1. queue # <<>> BY <2>2, <3>2
      <4>2. used = queue[n].used + queue[n].power * (now - queue[n].time)
        BY <4>1 DEF EnergyInv
      <4> QED BY <2>4, <2>5, <3>1, <3>2, <4>2
    <3>3. CASE i # n
      <4>1. i \in 1..(n - 1) /\ i + 1 \in 1..n BY <2>2, <3>3
      <4>2. queue'[i + 1] = queue[i + 1] BY <2>4, <4>1
      <4> QED BY <3>1, <4>1, <4>2 DEF EnergyInv
    <3> QED BY <3>2, <3>3
  <2>9. \A i \in 1..Len(queue') : queue'[i].time <= now
    <3> SUFFICES ASSUME NEW i \in 1..(n + 1) PROVE queue'[i].time <= now
      BY <2>4
    <3>1. CASE i = n + 1 BY <2>4, <2>5, <3>1, Fields
    <3>2. CASE i # n + 1
      <4>1. i \in 1..n BY <2>2, <3>2
      <4> QED BY <2>4, <4>1 DEF EnergyInv
    <3> QED BY <3>1, <3>2
  <2>10. level' = new.power /\ used = new.used + new.power * (now - new.time)
    <3>1. p \in Nat BY EnergyAssumption
    <3>2. p * (now - now) = 0 BY <3>1, Fields
    <3> QED BY <2>1, <2>5, <3>2, Fields
  <2> HIDE DEF new, n
  <2> QED BY <2>1, <2>4, <2>6, <2>7, <2>8, <2>9, <2>10 DEF EnergyInv
<1>3. CASE LoopTop BY <1>3 DEF LoopTop, EnergyInv
<1>4. CASE WaitEnds BY <1>4 DEF WaitEnds, EnergyInv
<1>5. CASE ProcessSample
  <2> DEFINE s == queue[1]
             n == Len(queue)
  <2>1. /\ battery' \in Battery /\ spans' \in Nat /\ twice' \in Nat
        /\ battery'.power = s.power /\ battery'.power # None
        /\ battery'.until = s.time
        /\ Balanced(battery', spans', s.used + twice', s.time)
    BY <1>5, SampleTaken
  <2>2. queue # <<>> /\ queue' = Tail(queue) /\ UNCHANGED <<now, level, used>>
    BY <1>5 DEF ProcessSample
  <2>3. queue \in Seq(Sample) /\ n \in Nat /\ n >= 1 BY <2>2, Queue DEF TypeOK
  <2>4. s \in Sample BY <2>2, Queue
  <2>5. /\ s.time \in Nat /\ s.power \in Nat /\ s.used \in Nat
    BY <2>4, SampleFields
  <2>6. /\ Len(queue') = n - 1 /\ \A i \in 1..(n - 1) : queue'[i] = queue[i + 1]
    BY <2>2, <2>3
  <2>7. (queue' = <<>>) <=> n = 1
    <3>1. queue' \in Seq(Sample) BY <2>2, <2>3
    <3> QED BY <2>3, <2>6, <3>1
  <2>8. battery'.until <= now
    <3>1. 1 \in 1..n BY <2>3
    <3>2. s.time <= now BY <3>1 DEF EnergyInv
    <3> QED BY <2>1, <3>2
  <2>9. CASE n = 1
    <3>1. level = s.power /\ used = s.used + s.power * (now - s.time)
      BY <2>2, <2>9 DEF EnergyInv
    <3> DEFINE d == s.power * (now - s.time)
    <3>2. d \in Int BY <2>5, Fields
    <3>3. d = IF battery'.power = None THEN 0 ELSE battery'.power * (now - s.time)
      BY <2>1
    <3>4. used + twice' = (s.used + twice') + d
      <4> HIDE DEF d, s
      <4>1. used = s.used + d BY <3>1 DEF d
      <4> QED BY <1>n, <2>1, <2>5, <3>2, <4>1
    <3> DEFINE u == s.used + twice'
               v == used + twice'
    <3>5. u \in Nat
      <4> HIDE DEF s
      <4> QED BY <2>1, <2>5
    <3>6. Balanced(battery', spans', u, s.time) /\ v = u + d BY <2>1, <3>4
    <3>7. Balanced(battery', spans', v, now)
      <4> HIDE DEF d, s, u, v
      <4>1. Counted(battery', now) = Counted(battery', s.time) + d
        BY <1>n, <2>1, <2>5, <3>3, Shifted
      <4>2. Counted(battery', s.time) \in Int BY <2>1, <2>5, CountedIsInt
      <4>3. spans' * (Unit - 1) \in Int BY <2>1, EnergyAssumption
      <4> QED BY <3>2, <3>5, <3>6, <4>1, <4>2, <4>3 DEF Balanced
    <3>8. queue' = <<>> BY <2>7, <2>9
    <3>9. Len(queue') = 0 BY <3>8
    <3>10. level = battery'.power BY <2>1, <3>1
    <3>11. 1..Len(queue') = {} /\ 1..(Len(queue') - 1) = {} BY <3>9
    <3> HIDE DEF d, s, u
    <3> QED BY <2>1, <2>2, <2>8, <3>7, <3>8, <3>10, <3>11 DEF EnergyInv
  <2>10. CASE n # 1
    <3> DEFINE next == queue[2]
               d == s.power * (next.time - s.time)
    <3>1. n > 1 /\ queue'[1] = next /\ queue' # <<>> /\ 2 \in 1..n
      BY <2>3, <2>6, <2>7, <2>10
    <3>2. next \in Sample BY <3>1, Queue
    <3>3. next.time \in Nat /\ next.used \in Nat BY <3>2, SampleFields
    <3>4. next.used = s.used + d
      <4>1. 1 \in 1..(n - 1) BY <2>3, <3>1
      <4>2. queue[1 + 1].used = queue[1].used + queue[1].power * (queue[1 + 1].time - queue[1].time)
        BY <4>1 DEF EnergyInv
      <4> QED BY <4>2
    <3>5. d \in Int BY <2>5, <3>3
    <3>6. d = IF battery'.power = None THEN 0 ELSE battery'.power * (next.time - s.time)
      BY <2>1
    <3> DEFINE u == s.used + twice'
               v == next.used + twice'
    <3> HIDE DEF d, s, next
    <3>7. u \in Nat /\ v \in Nat /\ v = u + d
      BY <2>1, <2>5, <3>3, <3>4, <3>5
    <3>8. Balanced(battery', spans', next.used + twice', next.time)
      <4>1. Balanced(battery', spans', u, s.time) BY <2>1
      <4> HIDE DEF u, v
      <4>2. Counted(battery', next.time) = Counted(battery', s.time) + d
        BY <2>1, <2>5, <3>3, <3>6, Shifted
      <4>3. Counted(battery', s.time) \in Int BY <2>1, <2>5, CountedIsInt
      <4>4. spans' * (Unit - 1) \in Int BY <2>1, EnergyAssumption
      <4>5. Balanced(battery', spans', v, next.time)
        BY <3>5, <3>7, <4>1, <4>2, <4>3, <4>4 DEF Balanced
      <4> QED BY <4>5 DEF v
    <3>9. \A i \in 1..(Len(queue') - 1) :
            queue'[i + 1].used =
                queue'[i].used + queue'[i].power * (queue'[i + 1].time - queue'[i].time)
      <4> SUFFICES ASSUME NEW i \in 1..(n - 2)
                   PROVE  queue'[i + 1].used =
                              queue'[i].used + queue'[i].power * (queue'[i + 1].time - queue'[i].time)
        BY <2>3, <2>6
      <4>1. i \in 1..(n - 1) /\ i + 1 \in 1..(n - 1) BY <2>3
      <4>2. queue'[i] = queue[i + 1] /\ queue'[i + 1] = queue[(i + 1) + 1] BY <2>6, <4>1
      <4>3. queue[(i + 1) + 1].used = queue[i + 1].used
                + queue[i + 1].power * (queue[(i + 1) + 1].time - queue[i + 1].time)
        BY <4>1 DEF EnergyInv
      <4> QED BY <4>2, <4>3
    <3>10. \A i \in 1..Len(queue') : queue'[i].time <= now
      <4> SUFFICES ASSUME NEW i \in 1..(n - 1) PROVE queue'[i].time <= now
        BY <2>6
      <4>1. i + 1 \in 1..n BY <2>3
      <4>2. queue[i + 1].time <= now BY <4>1 DEF EnergyInv
      <4> QED BY <2>6, <4>2
    <3>11. queue'[Len(queue')] = queue[n]
      <4>1. n - 1 \in 1..(n - 1) /\ (n - 1) + 1 = n BY <2>3, <3>1
      <4> QED BY <2>6, <4>1
    <3>12. level = queue[n].power /\ used = queue[n].used + queue[n].power * (now - queue[n].time)
      BY <2>2 DEF EnergyInv
    <3> HIDE DEF n
    <3> QED BY <2>2, <2>8, <3>1, <3>8, <3>9, <3>10, <3>11, <3>12 DEF EnergyInv
  <2> QED BY <2>9, <2>10
<1>6. CASE SummaryBegins
  <2>1. now \in 0..MaxTime BY DEF TypeOK
  <2>2. /\ battery' = IntegratedUntil(now)
        /\ spans' = spans + (IF Integrates(now) THEN 1 ELSE 0)
        /\ UNCHANGED <<now, queue, level, used, twice>>
    BY <1>6 DEF SummaryBegins, CountsSpan
  <2>3. battery'.power = battery.power /\ (battery' = battery \/ battery'.until = now)
    BY <2>1, <2>2, Integration
  <2>4. battery'.until <= now BY <2>3, Fields DEF EnergyInv
  <2>5. ASSUME NEW t \in Nat, NEW u \in Nat, Balanced(battery, spans, u, t)
        PROVE  Balanced(battery', spans', u, t)
    BY <2>1, <2>2, <2>5, BalanceKept
  <2>6. queue = <<>> => Balanced(battery', spans', used + twice, now)
    <3>1. used + twice \in Nat /\ now \in Nat BY <1>n
    <3> QED BY <2>5, <3>1 DEF EnergyInv
  <2>7. queue # <<>> => Balanced(battery', spans', queue[1].used + twice, queue[1].time)
    <3> HAVE queue # <<>>
    <3>1. queue[1] \in Sample BY Queue
    <3>2. queue[1].used \in Nat /\ queue[1].time \in Nat BY <3>1, SampleFields
    <3>3. queue[1].used + twice \in Nat BY <1>n, <3>2
    <3> QED BY <2>5, <3>2, <3>3 DEF EnergyInv
  <2> QED BY <2>2, <2>3, <2>4, <2>6, <2>7 DEF EnergyInv
<1>7. CASE SummaryEnds
  <2>1. battery' = [power |-> battery.power, until |-> battery.until,
                    interval |-> 0, total |-> battery.total]
    BY <1>7, Fields DEF SummaryEnds
  <2>2. UNCHANGED <<now, queue, level, used, twice, spans>> BY <1>7 DEF SummaryEnds
  <2>3. \A t : Counted(battery', t) = Counted(battery, t) BY <2>1 DEF Counted
  <2>4. \A u, t : Balanced(battery, spans, u, t) => Balanced(battery', spans, u, t)
    BY <2>3 DEF Balanced
  <2>5. battery'.power = battery.power /\ battery'.until = battery.until BY <2>1
  <2> QED BY <2>2, <2>4, <2>5 DEF EnergyInv
<1>8. CASE UNCHANGED vars BY <1>8 DEF vars, EnergyInv
<1> QED BY <1>1, <1>2, <1>3, <1>4, <1>5, <1>6, <1>7, <1>8 DEF Next, LogThread

(* The energy reported is that used, but for the roundings and for spans   *)
(* counted twice, whatever order samples and summaries are taken in        *)
(* (battery_accumulator_integrate_until, field_log_process_battery_sample). *)
THEOREM EnergyCorrect == Spec => []EnergyIsThatOfSamples
<1>1. Init => EnergyInv
  <2> SUFFICES ASSUME Init PROVE EnergyInv OBVIOUS
  <2>1. /\ now = 0 /\ queue = <<>> /\ level = 0 /\ used = 0 /\ twice = 0 /\ spans = 0
        /\ battery.power = None /\ battery.until = 0 /\ battery.total = 0 /\ Unit \in Nat
    BY EnergyAssumption DEF Init
  <2>2. Counted(battery, now) = 0 BY <2>1 DEF Counted
  <2>3. Balanced(battery, spans, used + twice, now) BY <2>1, <2>2 DEF Balanced
  <2>4. Len(queue) = 0 BY <2>1
  <2> QED BY <2>1, <2>3, <2>4 DEF EnergyInv
<1>2. TypeOK /\ EnergyInv /\ [Next]_vars => EnergyInv'
  BY EnergyStep
<1>3. EnergyInv => EnergyIsThatOfSamples
  <2> SUFFICES ASSUME EnergyInv, queue = <<>>
               PROVE  LET counted == Unit * battery.total
                              + (IF battery.power = None THEN 0
                                 ELSE battery.power * (now - battery.until))
                      IN  /\ counted <= used + twice
                          /\ used + twice <= counted + spans * (Unit - 1)
    BY DEF EnergyIsThatOfSamples
  <2>1. Balanced(battery, spans, used + twice, now) BY DEF EnergyInv
  <2> QED BY <2>1 DEF Balanced, Counted
<1> QED BY <1>1, <1>2, <1>3, TypeCorrect, PTL DEF Spec

(* How many steps of the log thread a summary that is due is away.         *)
StepsLeft ==
    CASE log.pc = "wait" -> 4 [] log.pc = "top" -> 3 [] log.pc = "due" -> 2 [] OTHER -> 1

DueStep ==
    now >= log.due =>
        \/ log'.due > log.due
        \/ /\ log'.due = log.due /\ now' >= log'.due
           /\ StepsLeft' <= StepsLeft /\ (LogThread => StepsLeft' < StepsLeft)

(* A summary that is due comes nearer with every step of the log thread,   *)
(* and no other step, however many messages arrive, puts it off: the       *)
(* thread looks at the time before it takes another message                *)
(* (field_log_thread).                                                     *)
THEOREM SummaryApproaches == Spec => [][DueStep]_vars
<1>1. ASSUME TypeOK, [Next]_vars PROVE [DueStep]_vars
  <2>1. /\ log \in [pc : {"top", "wait", "due", "summary"}, due : Nat]
        /\ now \in Nat /\ SummaryInterval \in Nat \ {0}
    BY <1>1, EnergyAssumption DEF TypeOK
  <2>2. StepsLeft \in Nat BY DEF StepsLeft
  <2>3. CASE UNCHANGED vars BY <2>3
  <2>4. ASSUME LogThread, now >= log.due PROVE DueStep
    <3>1. now' = now BY <2>4 DEF LogThread, LoopTop, WaitEnds, ProcessSample,
                                 SummaryBegins, SummaryEnds
    <3>2. CASE SummaryEnds
      <4>1. log'.due = log.due + SummaryInterval BY <3>2 DEF SummaryEnds
      <4>2. log'.due > log.due BY <2>1, <4>1
      <4>3. QED BY <4>2 DEF DueStep
    <3>3. CASE LoopTop
      <4>1. log.pc = "top" /\ log'.pc = "due" /\ log'.due = log.due
        BY <2>1, <2>4, <3>3 DEF LoopTop
      <4>2. QED BY <2>4, <3>1, <4>1 DEF DueStep, StepsLeft
    <3>4. CASE WaitEnds
      <4>1. log.pc = "wait" /\ log'.pc = "due" /\ log'.due = log.due
        BY <2>1, <3>4 DEF WaitEnds
      <4>2. QED BY <2>4, <3>1, <4>1 DEF DueStep, StepsLeft
    <3>5. CASE ProcessSample
      <4>1. log.pc = "wait" /\ log'.pc = "top" /\ log'.due = log.due
        BY <2>1, <3>5 DEF ProcessSample
      <4>2. QED BY <2>4, <3>1, <4>1 DEF DueStep, StepsLeft
    <3>6. CASE SummaryBegins
      <4>1. log.pc = "due" /\ log'.pc = "summary" /\ log'.due = log.due
        BY <2>1, <3>6 DEF SummaryBegins
      <4>2. QED BY <2>4, <3>1, <4>1 DEF DueStep, StepsLeft
    <3>7. QED BY <2>4, <3>2, <3>3, <3>4, <3>5, <3>6 DEF LogThread
  <2>5. ASSUME Tick \/ \E p \in Powers : Note(p), now >= log.due PROVE DueStep
    <3>1. log' = log /\ now' \in Nat /\ now' >= now
      <4>1. Tick => log' = log /\ now' = now + 1 BY DEF Tick
      <4>2. (\E p \in Powers : Note(p)) => log' = log /\ now' = now BY Zenon DEF Note
      <4>3. QED BY <2>1, <2>5, <4>1, <4>2
    <3>2. LogThread => log'.pc # log.pc
      <4>1. LoopTop => log'.pc # log.pc BY <2>1 DEF LoopTop
      <4>2. WaitEnds \/ ProcessSample \/ SummaryBegins => log'.pc # log.pc
        BY <2>1 DEF WaitEnds, ProcessSample, SummaryBegins
      <4>3. SummaryEnds => log'.pc # log.pc BY <2>1 DEF SummaryEnds
      <4>4. QED BY <4>1, <4>2, <4>3 DEF LogThread
    <3>3. StepsLeft' = StepsLeft BY <3>1 DEF StepsLeft
    <3>4. QED BY <2>1, <2>2, <2>5, <3>1, <3>2, <3>3 DEF DueStep
  <2>6. now >= log.due \/ DueStep BY DEF DueStep
  <2>7. QED BY <1>1, <2>3, <2>4, <2>5, <2>6 DEF Next
<1>2. TypeOK /\ [Next]_vars => [DueStep]_vars BY <1>1
<1>3. QED BY <1>2, TypeCorrect, PTL DEF Spec
=============================================================================
