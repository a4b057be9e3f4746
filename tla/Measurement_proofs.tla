------------------------- MODULE Measurement_proofs -------------------------
(***************************************************************************)
(* What the numbers of a comparison rest on: the latencies of the benchmark *)
(* client count from the schedule, for any workload and any delay; and the  *)
(* simulated queues serve, order and bound what they say they do, for any   *)
(* number of requests and any arrivals, service times and keys.             *)
(***************************************************************************)
EXTENDS WorkloadReplay, QueueSimulation, Lemmas

Samples == [ok : BOOLEAN, lag : Nat, ttft : Nat, ttlt : Nat, finished : Nat]

ReplayTypes ==
    /\ time \in 0..Horizon
    /\ offset \in [Workload -> 0..Horizon]
    /\ task \in [Workload -> {"asleep", "streaming", "done"}]
    /\ dispatched \in [Workload -> Nat]
    /\ stream \in [Workload -> [first : Nat, usage : BOOLEAN]]
    /\ sample \in [Workload -> Samples]

(* A request that is streamed was due when it was sent, and its first token *)
(* came after that.                                                        *)
StreamIsInTime(r) ==
    /\ task[r] = "asleep" => stream[r].first = NoTime
    /\ task[r] = "streaming" =>
          /\ offset[r] <= dispatched[r] /\ dispatched[r] <= time
          /\ stream[r].first = NoTime
                \/ (dispatched[r] <= stream[r].first /\ stream[r].first <= time)

(* What a finished request reports. *)
SampleIsInTime(r) ==
    task[r] = "done" =>
        /\ sample[r].finished <= Horizon
        /\ sample[r].ttlt = sample[r].finished - offset[r]
        /\ sample[r].lag <= sample[r].ttft /\ sample[r].ttft <= sample[r].ttlt

(* Nothing is measured before everything is done, and nothing changes then. *)
WindowIsOfTheSamples ==
    window # NoWindow => (\A r \in Workload : task[r] = "done") /\ window = Window

ReplayInv ==
    /\ ReplayTypes
    /\ \A r \in Workload : StreamIsInTime(r) /\ SampleIsInTime(r)
    /\ WindowIsOfTheSamples

(* A task that ends has lived through its times in their order. *)
LEMMA DoneIsInTime ==
  ASSUME ReplayAssumption, ReplayInv, NEW r \in Workload, task[r] = "streaming",
         NEW ok \in BOOLEAN, NEW first \in Nat, dispatched[r] <= first, first <= time,
         Done(r, ok, first)
  PROVE  ReplayInv'
<1> DEFINE new == [ok |-> ok, finished |-> time, lag |-> Lag(r),
                   ttft |-> Lag(r) + (first - dispatched[r]),
                   ttlt |-> Lag(r) + (time - dispatched[r])]
<1>1. /\ time \in Nat /\ time <= Horizon /\ offset[r] \in Nat /\ dispatched[r] \in Nat
      /\ offset[r] <= dispatched[r] /\ dispatched[r] <= time
  BY DEF ReplayInv, ReplayTypes, StreamIsInTime, ReplayAssumption
<1>2. /\ new \in Samples /\ new.finished = time /\ new.ttlt = time - offset[r]
      /\ new.lag <= new.ttft /\ new.ttft <= new.ttlt
  BY <1>1 DEF Samples, Lag
<1>3. sample' = [sample EXCEPT ![r] = new]
  BY DEF Done
<1> HIDE DEF new
<1>4. NoTime \in Nat /\ NoStream \in [first : Nat, usage : BOOLEAN]
  BY DEF NoTime, NoStream, ReplayAssumption
<1>5. ReplayTypes'
  BY <1>2, <1>3, <1>4 DEF Done, ReplayInv, ReplayTypes
<1>6. ASSUME NEW q \in Workload PROVE StreamIsInTime(q)' /\ SampleIsInTime(q)'
  <2>1. CASE q = r
    <3>1. task'[q] = "done" /\ sample'[q] = new /\ offset' = offset
      BY <1>3, <2>1 DEF Done, ReplayInv, ReplayTypes
    <3> QED BY <1>1, <1>2, <2>1, <3>1 DEF StreamIsInTime, SampleIsInTime
  <2>2. CASE q # r
    <3>1. /\ task'[q] = task[q] /\ dispatched'[q] = dispatched[q] /\ stream'[q] = stream[q]
          /\ sample'[q] = sample[q] /\ offset' = offset /\ time' = time
      BY <1>3, <2>2 DEF Done, ReplayInv, ReplayTypes
    <3> QED BY <3>1 DEF ReplayInv, StreamIsInTime, SampleIsInTime
  <2> QED BY <2>1, <2>2
<1>7. WindowIsOfTheSamples'
  BY DEF Done, ReplayInv, WindowIsOfTheSamples
<1> QED BY <1>5, <1>6, <1>7 DEF ReplayInv

(* Every step of the client keeps the invariant. *)
LEMMA ReplayStep ==
  ASSUME ReplayAssumption, ReplayInv, [ReplayNext]_replayVars
  PROVE  ReplayInv'
<1>1. CASE TimePasses
  <2> USE <1>1 DEF TimePasses
  <2>1. ReplayTypes'
    BY DEF ReplayInv, ReplayTypes, ReplayAssumption
  <2>2. ASSUME NEW r \in Workload PROVE StreamIsInTime(r)' /\ SampleIsInTime(r)'
    BY DEF ReplayInv, ReplayTypes, StreamIsInTime, SampleIsInTime, ReplayAssumption
  <2>3. WindowIsOfTheSamples'
    BY DEF ReplayInv, WindowIsOfTheSamples, Window
  <2> QED BY <2>1, <2>2, <2>3 DEF ReplayInv
<1>2. CASE Gathered
  <2> USE <1>2 DEF Gathered
  <2>1. ReplayTypes'
    BY DEF ReplayInv, ReplayTypes
  <2>2. ASSUME NEW r \in Workload PROVE StreamIsInTime(r)' /\ SampleIsInTime(r)'
    BY DEF ReplayInv, StreamIsInTime, SampleIsInTime
  <2>3. WindowIsOfTheSamples'
    BY DEF ReplayInv, WindowIsOfTheSamples, Window
  <2> QED BY <2>1, <2>2, <2>3 DEF ReplayInv
<1>3. ASSUME NEW r \in Workload, Dispatch(r) PROVE ReplayInv'
  <2> USE <1>3 DEF Dispatch
  <2>1. ReplayTypes'
    BY DEF ReplayInv, ReplayTypes, ReplayAssumption
  <2>2. ASSUME NEW q \in Workload PROVE StreamIsInTime(q)' /\ SampleIsInTime(q)'
    <3>1. CASE q = r
      <4>1. /\ task'[q] = "streaming" /\ dispatched'[q] = time /\ stream'[q] = stream[q]
            /\ offset' = offset /\ time' = time
        BY <3>1 DEF ReplayInv, ReplayTypes
      <4>2. /\ offset[q] <= time /\ time \in Nat /\ stream[q].first = NoTime
        BY <3>1 DEF ReplayInv, ReplayTypes, ReplayAssumption, StreamIsInTime
      <4> QED BY <4>1, <4>2 DEF StreamIsInTime, SampleIsInTime, NoTime
    <3>2. CASE q # r
      BY <3>2 DEF ReplayInv, ReplayTypes, StreamIsInTime, SampleIsInTime
    <3> QED BY <3>1, <3>2
  <2>3. WindowIsOfTheSamples'
    BY DEF ReplayInv, WindowIsOfTheSamples
  <2> QED BY <2>1, <2>2, <2>3 DEF ReplayInv
<1>4. ASSUME NEW r \in Workload, Receives(r) PROVE ReplayInv'
  <2> USE <1>4 DEF Receives
  <2>1. PICK token \in BOOLEAN, usage \in BOOLEAN :
           stream' = [stream EXCEPT ![r] =
              [first |-> IF token /\ @.first = NoTime THEN time ELSE @.first,
               usage |-> @.usage \/ usage]]
    OBVIOUS
  <2>2. ReplayTypes'
    BY <2>1 DEF ReplayInv, ReplayTypes, ReplayAssumption
  <2>3. ASSUME NEW q \in Workload PROVE StreamIsInTime(q)' /\ SampleIsInTime(q)'
    <3>1. stream'[q].first \in {stream[q].first, time}
      BY <2>1 DEF ReplayInv, ReplayTypes
    <3> QED BY <3>1 DEF ReplayInv, ReplayTypes, StreamIsInTime, SampleIsInTime,
               ReplayAssumption
  <2>4. WindowIsOfTheSamples'
    BY DEF ReplayInv, WindowIsOfTheSamples, Window
  <2> QED BY <2>2, <2>3, <2>4 DEF ReplayInv
<1>5. ASSUME NEW r \in Workload, Ends(r) \/ Fails(r) PROVE ReplayInv'
  <2>1. /\ task[r] = "streaming" /\ time \in Nat /\ dispatched[r] <= time
        /\ stream[r].first \in Nat
        /\ stream[r].first = NoTime
              \/ (dispatched[r] <= stream[r].first /\ stream[r].first <= time)
    <3>1. task[r] = "streaming"
      BY <1>5 DEF Ends, Fails
    <3>2. time \in Nat /\ stream[r] \in [first : Nat, usage : BOOLEAN]
      BY DEF ReplayInv, ReplayTypes, ReplayAssumption
    <3>3. stream[r].first \in Nat
      BY <3>2
    <3>4. StreamIsInTime(r)
      BY DEF ReplayInv
    <3> QED BY <3>1, <3>2, <3>3, <3>4 DEF StreamIsInTime
  <2>2. \/ Done(r, FALSE, time)
        \/ Done(r, TRUE, time)
        \/ Done(r, TRUE, stream[r].first) /\ stream[r].first # NoTime
    BY <1>5 DEF Ends, Fails
  <2>3. CASE Done(r, FALSE, time) \/ Done(r, TRUE, time)
    <3>1. PICK ok \in BOOLEAN : Done(r, ok, time)
      BY <2>3
    <3>2. time \in Nat /\ dispatched[r] <= time /\ time <= time
      BY <2>1
    <3> QED BY <2>1, <3>1, <3>2, DoneIsInTime
  <2>4. CASE Done(r, TRUE, stream[r].first) /\ stream[r].first # NoTime
    BY <2>1, <2>4, DoneIsInTime
  <2> QED BY <2>2, <2>3, <2>4
<1>6. CASE UNCHANGED replayVars
  BY <1>6 DEF replayVars, ReplayInv, ReplayTypes, StreamIsInTime, SampleIsInTime,
     WindowIsOfTheSamples, Window
<1> QED BY <1>1, <1>2, <1>3, <1>4, <1>5, <1>6 DEF ReplayNext

(* The invariant holds in every reachable state. *)
THEOREM ReplayInvariant == ReplaySpec => []ReplayInv
<1>1. ASSUME ReplayInit PROVE ReplayInv
  <2> USE <1>1, ReplayAssumption DEF ReplayInit, ReplayAssumption
  <2>1. NoTime \in Nat
    BY DEF NoTime
  <2>2. NoStream \in [first : Nat, usage : BOOLEAN] /\ NoSample \in Samples
    BY <2>1 DEF NoStream, NoSample, Samples
  <2>3. ReplayTypes
    BY <2>1, <2>2 DEF ReplayTypes
  <2>4. ASSUME NEW r \in Workload PROVE StreamIsInTime(r) /\ SampleIsInTime(r)
    <3>1. task[r] = "asleep" /\ stream[r].first = NoTime
      BY DEF NoStream
    <3> QED BY <3>1 DEF StreamIsInTime, SampleIsInTime
  <2> QED BY <2>3, <2>4 DEF ReplayInv, WindowIsOfTheSamples
<1> QED BY <1>1, ReplayStep, ReplayAssumption, PTL DEF ReplaySpec

(* For any workload, warm-up and delays, the latency of a measured request  *)
(* counts from its schedule and lies in the window.                        *)
THEOREM LatencyCountsFromTheSchedule == ReplaySpec => []LatencyIsFromTheSchedule
<1>1. ASSUME ReplayInv, window # NoWindow, NEW r \in Warmup + 1..Count
      PROVE  /\ sample[r].ttlt = sample[r].finished - offset[r]
             /\ sample[r].lag <= sample[r].ttft /\ sample[r].ttft <= sample[r].ttlt
             /\ window.start <= offset[r]
             /\ sample[r].finished <= window.start + window.duration
  <2> DEFINE measured == {q \in Workload : q > Warmup}
             offsets == {offset[q] : q \in measured}
             finishes == {sample[q].finished : q \in measured}
  <2>1. r \in measured
    BY <1>1, ReplayAssumption DEF ReplayAssumption, Workload
  <2>2. /\ \A q \in Workload : task[q] = "done" /\ SampleIsInTime(q)
        /\ window.start = Min(offsets)
        /\ window.duration = Max(finishes) - Min(offsets)
    BY <1>1 DEF ReplayInv, WindowIsOfTheSamples, Window
  <2>3. offsets \subseteq Nat /\ offset[r] \in offsets
    BY <1>1, <2>1, ReplayAssumption DEF ReplayInv, ReplayTypes, ReplayAssumption
  <2>4. finishes \subseteq Nat /\ sample[r].finished \in finishes
        /\ \A n \in finishes : n <= Horizon
    BY <1>1, <2>1, <2>2 DEF ReplayInv, ReplayTypes, SampleIsInTime, Samples
  <2> HIDE DEF offsets, finishes
  <2>5. Min(offsets) \in Nat /\ Min(offsets) <= offset[r]
    BY <2>3, MinIsLeast
  <2>6. Max(finishes) \in Nat /\ sample[r].finished <= Max(finishes)
    BY <2>4, MaxIsGreatest, ReplayAssumption DEF ReplayAssumption
  <2>7. r \in Workload
    BY <2>1
  <2> QED BY <2>2, <2>3, <2>4, <2>5, <2>6, <2>7 DEF SampleIsInTime
<1>2. ReplayInv => LatencyIsFromTheSchedule
  BY <1>1 DEF LatencyIsFromTheSchedule
<1> QED BY <1>2, ReplayInvariant, PTL

-----------------------------------------------------------------------------
(* Totals satisfy their recursion. *)
LEMMA TotalIsASum ==
  ASSUME NEW f \in [Jobs -> Int]
  PROVE  /\ Total(f) \in [0..Requests -> Int] /\ Total(f)[0] = 0
         /\ \A n \in Jobs : Total(f)[n] = Total(f)[n - 1] + f[n]
<1> DEFINE step == [n \in 1..Requests |-> [v \in Int |-> v + f[n]]]
           IsTotal(g) == g = [n \in 0..Requests |-> IF n = 0 THEN 0 ELSE g[n - 1] + f[n]]
<1>1. Requests \in Nat
  BY SimulationAssumption DEF SimulationAssumption
<1>2. step \in [1..Requests -> [Int -> Int]]
  BY DEF Jobs
<1>3. \A n \in 1..Requests : \A v \in Int : step[n][v] = v + f[n]
  OBVIOUS
<1> HIDE DEF step
<1>4. PICK g : IsRecursive(g, Requests, Int, 0, step)
  <2>1. 0 \in Int
    OBVIOUS
  <2> QED BY <1>1, <1>2, <2>1, RecursionExists
<1> USE DEF IsRecursive
<1>5. \A n \in 1..Requests : n - 1 \in 0..Requests /\ g[n - 1] \in Int
  BY <1>1, <1>4
<1>6. \A n \in 1..Requests : g[n] = g[n - 1] + f[n]
  BY <1>3, <1>4, <1>5
<1>7. IsTotal(g)
  <2>1. g = [n \in 0..Requests |-> g[n]]
      BY <1>4
  <2>2. \A n \in 0..Requests : g[n] = IF n = 0 THEN 0 ELSE g[n - 1] + f[n]
    BY <1>1, <1>4, <1>6
  <2> QED BY <2>1, <2>2
<1>8. Total(f) = CHOOSE h : IsTotal(h)
  BY DEF Total
<1>9. IsTotal(Total(f))
  <2> HIDE DEF IsTotal
  <2> QED BY <1>7, <1>8
<1>10. Total(f)[0] = 0 /\ \A n \in Jobs : Total(f)[n] = Total(f)[n - 1] + f[n]
  BY <1>1, <1>9 DEF Jobs
<1>11. Total(f) \in [0..Requests -> Int]
  <2> DEFINE S == {n \in 0..Requests : Total(f)[n] \in Int}
  <2>1. 0 \in S
    BY <1>1, <1>10
  <2>2. ASSUME NEW n \in 1..Requests, n - 1 \in S PROVE n \in S
    BY <1>1, <1>10, <2>2 DEF Jobs
  <2> HIDE DEF S
  <2>3. 0..Requests \subseteq S
    BY <1>1, <2>1, <2>2, InducedUpTo
  <2> QED BY <1>9, <2>3 DEF S
<1> QED BY <1>10, <1>11

(* So does the first-come-first-served reference. *)
LEMMA DrainedIsARecursion ==
  ASSUME arrival \in [Jobs -> Nat], work \in [Jobs -> Nat]
  PROVE  /\ DrainedBy[0] = 0
         /\ \A n \in Jobs :
               /\ DrainedBy[n - 1] \in Nat
               /\ DrainedBy[n] = work[n] + (IF DrainedBy[n - 1] > arrival[n]
                                            THEN DrainedBy[n - 1] ELSE arrival[n])
<1> DEFINE After(n, v) == (IF v > arrival[n] THEN v ELSE arrival[n]) + work[n]
           step == [n \in 1..Requests |-> [v \in Nat |-> After(n, v)]]
           IsDrained(g) == g = [n \in 0..Requests |-> IF n = 0 THEN 0 ELSE After(n, g[n - 1])]
<1>1. Requests \in Nat
  BY SimulationAssumption DEF SimulationAssumption
<1>2. \A n \in 1..Requests : \A v \in Nat : After(n, v) \in Nat
  BY DEF Jobs
<1>3. step \in [1..Requests -> [Nat -> Nat]]
      /\ \A n \in 1..Requests : \A v \in Nat : step[n][v] = After(n, v)
  <2> HIDE DEF After
  <2> QED BY <1>2
<1> HIDE DEF step, After
<1>4. PICK g : IsRecursive(g, Requests, Nat, 0, step)
  BY <1>1, <1>3, RecursionExists
<1>5. \A n \in 1..Requests : n - 1 \in 0..Requests /\ g[n - 1] \in Nat
  BY <1>1, <1>4 DEF IsRecursive
<1>6. \A n \in 1..Requests : g[n] = After(n, g[n - 1])
  BY <1>3, <1>4, <1>5 DEF IsRecursive
<1>7. IsDrained(g)
  <2>1. g = [n \in 0..Requests |-> g[n]]
    BY <1>4 DEF IsRecursive
  <2>2. \A n \in 0..Requests : g[n] = IF n = 0 THEN 0 ELSE After(n, g[n - 1])
    BY <1>1, <1>4, <1>6 DEF IsRecursive
  <2> QED BY <2>1, <2>2
<1>8. DrainedBy = CHOOSE h : IsDrained(h)
  BY DEF DrainedBy, After
<1>9. IsDrained(DrainedBy)
  <2> HIDE DEF IsDrained
  <2> QED BY <1>7, <1>8
<1>10. DrainedBy[0] = 0 /\ \A n \in Jobs : DrainedBy[n] = After(n, DrainedBy[n - 1])
  BY <1>1, <1>9 DEF Jobs
<1> DEFINE S == {n \in 0..Requests : DrainedBy[n] \in Nat}
<1>11. 0 \in S
  BY <1>1, <1>10
<1>12. ASSUME NEW n \in 1..Requests, n - 1 \in S PROVE n \in S
  <2>1. DrainedBy[n - 1] \in Nat /\ n \in Jobs
    BY <1>12 DEF Jobs
  <2>2. DrainedBy[n] = After(n, DrainedBy[n - 1])
    BY <1>10, <2>1
  <2>3. After(n, DrainedBy[n - 1]) \in Nat
    BY <1>2, <2>1
  <2>4. n \in 0..Requests
    BY <1>1
  <2> QED BY <2>2, <2>3, <2>4
<1> HIDE DEF S
<1>13. 0..Requests \subseteq S
  BY <1>1, <1>11, <1>12, InducedUpTo
<1>14. ASSUME NEW n \in Jobs PROVE DrainedBy[n - 1] \in Nat
  <2>1. n - 1 \in 0..Requests
    BY <1>1 DEF Jobs
  <2> QED BY <1>13, <2>1 DEF S
<1>15. ASSUME NEW n \in Jobs
       PROVE  DrainedBy[n] = work[n] + (IF DrainedBy[n - 1] > arrival[n]
                                        THEN DrainedBy[n - 1] ELSE arrival[n])
  BY <1>10, <1>14 DEF After
<1> QED BY <1>10, <1>14, <1>15

(* A total of natural numbers is one. *)
LEMMA TotalIsNatural ==
  ASSUME NEW f \in [Jobs -> Nat]
  PROVE  Total(f) \in [0..Requests -> Nat]
<1> DEFINE S == {m \in 0..Requests : Total(f)[m] \in Nat}
<1>1. Requests \in Nat
  BY SimulationAssumption DEF SimulationAssumption
<1>2. /\ Total(f) \in [0..Requests -> Int] /\ Total(f)[0] = 0
      /\ \A n \in 1..Requests : Total(f)[n] = Total(f)[n - 1] + f[n] /\ f[n] \in Nat
  <2>1. f \in [Jobs -> Int]
    OBVIOUS
  <2> QED BY <2>1, TotalIsASum DEF Jobs
<1>3. 0 \in S
  BY <1>1, <1>2
<1>4. ASSUME NEW m \in 1..Requests, m - 1 \in S PROVE m \in S
  <2>1. m \in 0..Requests /\ Total(f)[m - 1] \in Nat /\ f[m] \in Nat
    BY <1>1, <1>2, <1>4
  <2>2. Total(f)[m] = Total(f)[m - 1] + f[m]
    BY <1>2
  <2>3. Total(f)[m] \in Nat
    BY <2>1, <2>2
  <2> QED BY <2>1, <2>3
<1> HIDE DEF S
<1>5. 0..Requests \subseteq S
  BY <1>1, <1>3, <1>4, InducedUpTo
<1> QED BY <1>2, <1>5 DEF S

(* More of one addend is more of the totals that hold it. *)
LEMMA TotalOfMore ==
  ASSUME NEW f \in [Jobs -> Int], NEW g \in [Jobs -> Int], NEW j \in Jobs, NEW d \in Int,
         g[j] = f[j] + d, \A i \in Jobs \ {j} : g[i] = f[i]
  PROVE  \A n \in 0..Requests : Total(g)[n] = Total(f)[n] + (IF j <= n THEN d ELSE 0)
<1> DEFINE S == {n \in 0..Requests : Total(g)[n] = Total(f)[n] + (IF j <= n THEN d ELSE 0)}
<1>1. Requests \in Nat /\ j \in 1..Requests
  BY SimulationAssumption DEF SimulationAssumption, Jobs
<1>2. /\ Total(f) \in [0..Requests -> Int] /\ Total(f)[0] = 0
      /\ \A n \in 1..Requests : Total(f)[n] = Total(f)[n - 1] + f[n]
  BY TotalIsASum DEF Jobs
<1>3. /\ Total(g) \in [0..Requests -> Int] /\ Total(g)[0] = 0
      /\ \A n \in 1..Requests : Total(g)[n] = Total(g)[n - 1] + g[n]
  BY TotalIsASum DEF Jobs
<1>4. 0 \in S
  BY <1>1, <1>2, <1>3
<1>5. ASSUME NEW n \in 1..Requests, n - 1 \in S PROVE n \in S
  <2>1. n \in Jobs /\ f[n] \in Int /\ g[n] \in Int /\ n - 1 \in 0..Requests
    BY <1>1 DEF Jobs
  <2>2. Total(f)[n - 1] \in Int /\ Total(g)[n - 1] \in Int
    BY <1>2, <1>3, <2>1
  <2>3. g[n] = f[n] + (IF j = n THEN d ELSE 0)
    BY <2>1
  <2>4. Total(g)[n - 1] = Total(f)[n - 1] + (IF j <= n - 1 THEN d ELSE 0)
    BY <1>5
  <2>5. /\ Total(f)[n] = Total(f)[n - 1] + f[n]
        /\ Total(g)[n] = Total(g)[n - 1] + g[n]
    BY <1>2, <1>3
  <2>6. j <= n <=> j <= n - 1 \/ j = n
    BY <1>1
  <2>7. Total(g)[n] = Total(f)[n] + (IF j <= n THEN d ELSE 0)
    <3>1. CASE j = n
      BY <1>1, <2>1, <2>2, <2>3, <2>4, <2>5, <2>6, <3>1
    <3>2. CASE j # n
      BY <2>1, <2>2, <2>3, <2>4, <2>5, <2>6, <3>2
    <3> QED BY <3>1, <3>2
  <2> QED BY <2>7
<1> HIDE DEF S
<1>6. 0..Requests \subseteq S
  BY <1>1, <1>4, <1>5, InducedUpTo
<1> QED BY <1>6 DEF S

(* A total of larger addends is larger. *)
LEMMA TotalIsMonotonic ==
  ASSUME NEW f \in [Jobs -> Int], NEW g \in [Jobs -> Int], NEW m \in 0..Requests,
         \A i \in 1..m : f[i] <= g[i]
  PROVE  Total(f)[m] <= Total(g)[m]
<1> DEFINE S == {n \in 0..m : Total(f)[n] <= Total(g)[n]}
<1>1. Requests \in Nat /\ m \in Nat /\ m <= Requests
  BY SimulationAssumption DEF SimulationAssumption
<1>2. /\ Total(f) \in [0..Requests -> Int] /\ Total(f)[0] = 0
      /\ \A n \in 1..Requests : Total(f)[n] = Total(f)[n - 1] + f[n]
  BY TotalIsASum DEF Jobs
<1>3. /\ Total(g) \in [0..Requests -> Int] /\ Total(g)[0] = 0
      /\ \A n \in 1..Requests : Total(g)[n] = Total(g)[n - 1] + g[n]
  BY TotalIsASum DEF Jobs
<1>4. 0 \in S
  BY <1>1, <1>2, <1>3
<1>5. ASSUME NEW n \in 1..m, n - 1 \in S PROVE n \in S
  <2>1. /\ n \in 1..Requests /\ n \in Jobs /\ n - 1 \in 0..Requests
        /\ f[n] \in Int /\ g[n] \in Int
    BY <1>1 DEF Jobs
  <2>2. /\ Total(f)[n - 1] \in Int /\ Total(g)[n - 1] \in Int /\ f[n] <= g[n]
        /\ Total(f)[n - 1] <= Total(g)[n - 1]
    BY <1>2, <1>3, <1>5, <2>1
  <2> QED BY <1>2, <1>3, <2>1, <2>2
<1> HIDE DEF S
<1>6. 0..m \subseteq S
  BY <1>1, <1>4, <1>5, InducedUpTo
<1> QED BY <1>1, <1>6 DEF S

-----------------------------------------------------------------------------
SimTypes ==
    /\ algorithm \in Algorithms
    /\ arrival \in [Jobs -> Times]
    /\ \A i, j \in Jobs : i < j => arrival[i] < arrival[j]
    /\ work \in [Jobs -> Works] /\ cost \in [Jobs -> Costs]
    /\ now \in Nat
    /\ attained \in [Jobs -> Nat]
    /\ start \in [Jobs -> Int] /\ finish \in [Jobs -> Int]

(* What the clock and the service of a request have to do with each other,  *)
(* and that the selection family serves a request in one piece.             *)
ServedInTime(j) ==
    /\ attained[j] <= work[j]
    /\ attained[j] # 0 => arrival[j] + attained[j] <= now
    /\ attained[j] = work[j] => arrival[j] + work[j] <= finish[j]
    /\ start[j] = -1 <=> attained[j] = 0
    /\ algorithm \in Selecting => attained[j] \in {0, work[j]}

SimBase == SimTypes /\ \A j \in Jobs : ServedInTime(j)

(* The numbers that requests come with. *)
LEMMA InputsAreNumbers ==
  ASSUME SimTypes
  PROVE  /\ Requests \in Nat
         /\ arrival \in [Jobs -> Nat] /\ work \in [Jobs -> Nat] /\ cost \in [Jobs -> Nat]
         /\ \A j \in Jobs : work[j] # 0 /\ arrival[j] < GuardOffset
BY SimulationAssumption DEF SimulationAssumption, SimTypes

(* The numbers that two requests come with. *)
LEMMA JobsAreNumbers ==
  ASSUME SimBase, NEW i \in Jobs, NEW j \in Jobs
  PROVE  /\ i \in Nat /\ j \in Nat /\ now \in Nat
         /\ arrival[i] \in Nat /\ arrival[j] \in Nat
         /\ cost[i] \in Nat /\ cost[j] \in Nat
         /\ attained[i] \in Nat /\ attained[j] \in Nat
         /\ start[i] \in Int /\ start[j] \in Int
         /\ work[i] # 0 /\ work[j] # 0
         /\ arrival[i] < GuardOffset /\ arrival[j] < GuardOffset
         /\ i < j => arrival[i] < arrival[j]
         /\ Deadline \in Nat /\ GuardOffset \in Nat
<1>1. SimTypes
  BY DEF SimBase
<1>2. /\ Requests \in Nat /\ arrival \in [Jobs -> Nat] /\ cost \in [Jobs -> Nat]
      /\ work[i] # 0 /\ work[j] # 0
      /\ arrival[i] < GuardOffset /\ arrival[j] < GuardOffset
  BY <1>1, InputsAreNumbers
<1>3. i \in Nat /\ j \in Nat
  BY <1>2 DEF Jobs
<1>4. /\ now \in Nat /\ attained \in [Jobs -> Nat] /\ start \in [Jobs -> Int]
      /\ i < j => arrival[i] < arrival[j]
  BY <1>1 DEF SimTypes
<1>5. Deadline \in Nat /\ GuardOffset \in Nat
  BY SimulationAssumption DEF SimulationAssumption
<1> QED BY <1>2, <1>3, <1>4, <1>5

(* A picked request is waiting, and runs for a part of what it needs, which *)
(* is all of it in the selection family.                                   *)
LEMMA SliceIsService ==
  ASSUME SimBase, NEW j \in Jobs, j \in Active
  PROVE  /\ arrival[j] <= now /\ attained[j] < work[j]
         /\ Slice(j) \in Nat \ {0} /\ Slice(j) <= work[j] - attained[j]
         /\ algorithm \in Selecting => Slice(j) = work[j] - attained[j] /\ attained[j] = 0
<1>1. /\ arrival[j] <= now /\ attained[j] < work[j]
      /\ attained[j] \in Nat /\ work[j] \in Nat
  BY InputsAreNumbers DEF SimBase, SimTypes, Active, Unfinished
<1>2. Quantum \in Nat \ {0}
  BY SimulationAssumption DEF SimulationAssumption
<1>3. Remaining(j) = work[j] - attained[j]
  BY DEF Remaining
<1>4. Slice(j) \in {Quantum, Remaining(j)} /\ Slice(j) <= Remaining(j)
  BY <1>1, <1>2, <1>3 DEF Slice
<1>5. algorithm \in Selecting => algorithm \notin Preempting
  BY DEF Selecting, Preempting
<1>6. algorithm \in Selecting => Slice(j) = Remaining(j) /\ attained[j] = 0
  BY <1>1, <1>5 DEF Slice, SimBase, ServedInTime
<1> QED BY <1>1, <1>2, <1>3, <1>4, <1>6

(* What a request that is served is left with. *)
LEMMA ServeIs ==
  ASSUME SimBase, NEW j \in Jobs, Serve(j)
  PROVE  /\ j \in Active /\ UNCHANGED simInput
         /\ now' = now + Slice(j)
         /\ attained'[j] = attained[j] + Slice(j)
         /\ start'[j] = IF start[j] = -1 THEN now ELSE start[j]
         /\ finish'[j] = IF attained'[j] = work[j] THEN now' ELSE finish[j]
         /\ \A i \in Jobs \ {j} : /\ attained'[i] = attained[i]
                                 /\ start'[i] = start[i] /\ finish'[i] = finish[i]
         /\ attained' \in [Jobs -> Nat]
         /\ start' \in [Jobs -> Int] /\ finish' \in [Jobs -> Int]
<1>1. j \in Active
  BY DEF Serve, Picked
<1>2. /\ attained[j] \in Nat /\ work[j] \in Nat /\ now \in Nat
      /\ Slice(j) \in Nat \ {0} /\ Slice(j) <= work[j] - attained[j]
  BY <1>1, SliceIsService, InputsAreNumbers DEF SimBase, SimTypes
<1>3. /\ now' = now + Slice(j) /\ UNCHANGED simInput
      /\ attained' = [attained EXCEPT ![j] = attained[j] + Slice(j)]
      /\ start' = [start EXCEPT ![j] = IF start[j] = -1 THEN now ELSE start[j]]
      /\ finish' = [finish EXCEPT ![j] = IF Slice(j) >= Remaining(j) THEN now + Slice(j)
                                         ELSE finish[j]]
  BY DEF Serve
<1>4. /\ attained \in [Jobs -> Nat] /\ start \in [Jobs -> Int] /\ finish \in [Jobs -> Int]
  BY DEF SimBase, SimTypes
<1>5. Slice(j) >= Remaining(j) <=> attained[j] + Slice(j) = work[j]
  BY <1>2 DEF Remaining
<1> QED BY <1>1, <1>2, <1>3, <1>4, <1>5

(* The clock jumps to the first request that is left, over requests that    *)
(* are done.                                                               *)
LEMMA SkipIs ==
  ASSUME SimBase, SkipToArrival
  PROVE  \E u \in Jobs : /\ now' = arrival[u] /\ now < arrival[u]
                         /\ \A i \in Jobs : attained[i] # work[i] => u <= i
                         /\ attained[u] = 0
<1>1. Unfinished \subseteq Nat /\ Unfinished # {} /\ Unfinished \subseteq Jobs
  BY InputsAreNumbers DEF SkipToArrival, Unfinished, Jobs, SimBase
<1>2. Min(Unfinished) \in Unfinished /\ \A i \in Unfinished : Min(Unfinished) <= i
  BY <1>1, MinIsLeast, Zenon
<1>3. PICK u \in Unfinished : now' = arrival[u] /\ \A i \in Unfinished : u <= i
  BY <1>2 DEF SkipToArrival
<1>4. u \in Jobs /\ arrival[u] \in Nat /\ now \in Nat
  BY <1>1, InputsAreNumbers DEF SimBase, SimTypes
<1>5. now < arrival[u]
  BY <1>3, <1>4 DEF SkipToArrival, Active
<1>6. attained[u] = 0
  BY <1>4, <1>5 DEF SimBase, SimTypes, ServedInTime
<1>7. \A i \in Jobs : attained[i] # work[i] => i \in Unfinished
  BY InputsAreNumbers DEF SimBase, SimTypes, ServedInTime, Unfinished
<1> QED BY <1>3, <1>4, <1>5, <1>6, <1>7

(* Every step of the simulators keeps this. *)
LEMMA SimBaseStep ==
  ASSUME SimBase, [SimNext]_simVars
  PROVE  SimBase'
<1>1. CASE SkipToArrival
  <2> USE <1>1 DEF SkipToArrival, simInput
  <2>1. PICK u \in Jobs : now' = arrival[u] /\ now < arrival[u]
    BY SkipIs
  <2>2. now' \in Nat /\ now \in Nat /\ now < now'
    BY <2>1, InputsAreNumbers DEF SimBase, SimTypes
  <2>3. SimTypes'
    BY <2>2 DEF SimBase, SimTypes
  <2>4. ASSUME NEW j \in Jobs PROVE ServedInTime(j)'
    BY <2>2, InputsAreNumbers DEF SimBase, SimTypes, ServedInTime
  <2> QED BY <2>3, <2>4 DEF SimBase
<1>2. ASSUME NEW j \in Jobs, Serve(j) PROVE SimBase'
  <2>1. /\ arrival[j] <= now /\ attained[j] < work[j]
        /\ Slice(j) \in Nat \ {0} /\ Slice(j) <= work[j] - attained[j]
        /\ algorithm \in Selecting => Slice(j) = work[j] - attained[j] /\ attained[j] = 0
    BY <1>2, ServeIs, SliceIsService
  <2>2. /\ now' = now + Slice(j) /\ UNCHANGED <<algorithm, arrival, work, cost>>
        /\ attained'[j] = attained[j] + Slice(j)
        /\ start'[j] = IF start[j] = -1 THEN now ELSE start[j]
        /\ finish'[j] = IF attained'[j] = work[j] THEN now' ELSE finish[j]
        /\ \A i \in Jobs \ {j} : /\ attained'[i] = attained[i]
                                /\ start'[i] = start[i] /\ finish'[i] = finish[i]
        /\ attained' \in [Jobs -> Nat]
        /\ start' \in [Jobs -> Int] /\ finish' \in [Jobs -> Int]
    BY <1>2, ServeIs DEF simInput
  <2>3. now \in Nat /\ now' \in Nat /\ now <= now'
    BY <2>1, <2>2 DEF SimBase, SimTypes
  <2>4. SimTypes'
    BY <2>2, <2>3 DEF SimBase, SimTypes
  <2>5. ASSUME NEW i \in Jobs PROVE ServedInTime(i)'
    <3>1. /\ attained[i] \in Nat /\ work[i] \in Nat /\ arrival[i] \in Nat /\ work[i] # 0
          /\ ServedInTime(i)
      BY InputsAreNumbers DEF SimBase, SimTypes
    <3>2. CASE i = j
      <4>1. /\ attained'[i] = attained[i] + Slice(j) /\ attained'[i] # 0
            /\ attained'[i] <= work[i] /\ arrival[i] + attained'[i] <= now'
            /\ start'[i] # -1
        BY <2>1, <2>2, <2>3, <3>1, <3>2 DEF ServedInTime
      <4>2. attained'[i] = work[i] => arrival[i] + work[i] <= finish'[i]
        BY <2>2, <3>2, <4>1
      <4>3. algorithm \in Selecting => attained'[i] = work[i]
        BY <2>1, <2>2, <3>1, <3>2
      <4> QED BY <2>2, <4>1, <4>2, <4>3 DEF ServedInTime
    <3>3. CASE i # j
      BY <2>2, <2>3, <3>1, <3>3 DEF ServedInTime
    <3> QED BY <3>2, <3>3
  <2> QED BY <2>4, <2>5 DEF SimBase
<1>3. CASE UNCHANGED simVars
  BY <1>3 DEF simVars, SimBase, SimTypes, ServedInTime
<1> QED BY <1>1, <1>2, <1>3 DEF SimNext

(* It holds at the start. *)
LEMMA SimulatorsStart == SimInit => SimBase
<1> SUFFICES ASSUME SimInit PROVE SimBase
  OBVIOUS
<1> USE DEF SimInit
<1>1. SimTypes
  BY SimulationAssumption DEF SimTypes
<1>2. ASSUME NEW j \in Jobs PROVE ServedInTime(j)
  BY <1>1, InputsAreNumbers DEF ServedInTime
<1> QED BY <1>1, <1>2 DEF SimBase

(* It holds in every reachable state. *)
THEOREM SimulatorsServeInTime == SimSpec => []SimBase
BY SimulatorsStart, SimBaseStep, PTL DEF SimSpec

-----------------------------------------------------------------------------
Remainders == [j \in Jobs |-> work[j] - attained[j]]

(* The first n requests have arrived, and no other. *)
ArrivedUpTo(n) ==
    /\ n = 0 \/ arrival[n] <= now
    /\ n = Requests \/ now < arrival[n + 1]

(* The server is as far as the first-come-first-served one would be, but    *)
(* for what the requests that have arrived are still owed.                  *)
WorkIsConserved ==
    \A n \in 0..Requests : ArrivedUpTo(n) => DrainedBy[n] = now + Total(Remainders)[n]

(* What the recursions say of the remainders and of the reference. *)
LEMMA RemaindersAdd ==
  ASSUME SimBase
  PROVE  /\ Remainders \in [Jobs -> Nat] /\ Total(Remainders) \in [0..Requests -> Int]
         /\ Total(Remainders)[0] = 0 /\ DrainedBy[0] = 0
         /\ \A n \in Jobs :
               /\ Total(Remainders)[n - 1] \in Int /\ DrainedBy[n - 1] \in Nat
               /\ Total(Remainders)[n] = Total(Remainders)[n - 1] + (work[n] - attained[n])
               /\ DrainedBy[n] = work[n] + (IF DrainedBy[n - 1] > arrival[n]
                                            THEN DrainedBy[n - 1] ELSE arrival[n])
<1>1. SimTypes /\ arrival \in [Jobs -> Nat] /\ work \in [Jobs -> Nat] /\ Requests \in Nat
  BY InputsAreNumbers DEF SimBase
<1>2. \A j \in Jobs : work[j] - attained[j] \in Nat
  BY <1>1 DEF SimBase, SimTypes, ServedInTime
<1>3. Remainders \in [Jobs -> Nat] /\ \A j \in Jobs : Remainders[j] = work[j] - attained[j]
  BY <1>2 DEF Remainders
<1>4. Remainders \in [Jobs -> Int]
  BY <1>3
<1>5. /\ Total(Remainders) \in [0..Requests -> Int] /\ Total(Remainders)[0] = 0
      /\ \A n \in Jobs : Total(Remainders)[n] = Total(Remainders)[n - 1] + Remainders[n]
  BY <1>4, TotalIsASum
<1>6. \A n \in Jobs : n - 1 \in 0..Requests
  BY <1>1 DEF Jobs
<1>7. \A n \in Jobs : Total(Remainders)[n - 1] \in Int
  BY <1>5, <1>6
<1> QED BY <1>1, <1>3, <1>5, <1>7, DrainedIsARecursion

(* The requests that arrive before time t, when the server is still busy,   *)
(* add the same to what it is owed and to when the reference is done.       *)
LEMMA BacklogGrows ==
  ASSUME SimBase, NEW t \in Nat, NEW g \in [Jobs -> Nat],
         NEW n \in 0..Requests, NEW m \in 0..n, DrainedBy[m] = t + Total(g)[m],
         \A i \in Jobs : m < i /\ i <= n => g[i] = work[i] /\ arrival[i] <= t
  PROVE  DrainedBy[n] = t + Total(g)[n]
<1> DEFINE S == {i \in 0..n : i < m \/ DrainedBy[i] = t + Total(g)[i]}
<1>1. /\ Requests \in Nat /\ n \in Nat /\ n <= Requests /\ m \in Nat /\ m <= n
      /\ Jobs = 1..Requests
      /\ arrival \in [Jobs -> Nat] /\ work \in [Jobs -> Nat]
  BY InputsAreNumbers DEF SimBase, Jobs
<1>2. /\ Total(g) \in [0..Requests -> Nat]
      /\ \A i \in Jobs : Total(g)[i] = Total(g)[i - 1] + g[i]
  <2>1. g \in [Jobs -> Int]
    OBVIOUS
  <2> QED BY <2>1, TotalIsASum, TotalIsNatural
<1>3. 0 \in S
  BY <1>1
<1>4. ASSUME NEW i \in 1..n, i - 1 \in S PROVE i \in S
  <2>1. CASE i <= m
    BY <1>1, <2>1
  <2>2. CASE m < i
    <3>1. i \in Jobs /\ i - 1 \in 0..Requests /\ i - 1 >= m /\ i - 1 \in Nat
      BY <1>1, <2>2
    <3>2. DrainedBy[i - 1] = t + Total(g)[i - 1]
      BY <1>1, <1>4, <3>1
    <3>3. Total(g)[i - 1] \in Nat /\ Total(g)[i] = Total(g)[i - 1] + g[i]
      BY <1>2, <3>1
    <3>4. g[i] = work[i] /\ arrival[i] <= t /\ work[i] \in Nat /\ arrival[i] \in Nat
      BY <1>1, <2>2, <3>1
    <3>5. /\ DrainedBy[i - 1] \in Nat
          /\ DrainedBy[i] = work[i] + (IF DrainedBy[i - 1] > arrival[i]
                                       THEN DrainedBy[i - 1] ELSE arrival[i])
      BY <3>1, RemaindersAdd
    <3>6. DrainedBy[i] = DrainedBy[i - 1] + work[i]
      BY <3>2, <3>3, <3>4, <3>5
    <3>7. DrainedBy[i] = t + Total(g)[i]
      BY <3>2, <3>3, <3>4, <3>6
    <3> QED BY <3>7
  <2> QED BY <1>1, <2>1, <2>2
<1> HIDE DEF S
<1>5. 0..n \subseteq S
  BY <1>1, <1>3, <1>4, InducedUpTo
<1> QED BY <1>1, <1>5 DEF S

(* The arrivals split the requests in two. *)
LEMMA LastArrival ==
  ASSUME SimBase, NEW n \in 0..Requests, n = Requests \/ now < arrival[n + 1]
  PROVE  \E m \in 0..n : ArrivedUpTo(m) /\ \A i \in Jobs : m < i => now < arrival[i]
<1>1. /\ Requests \in Nat /\ n \in Nat /\ n <= Requests /\ now \in Nat /\ Jobs = 1..Requests
      /\ arrival \in [Jobs -> Nat]
      /\ \A i, k \in Jobs : i < k => arrival[i] < arrival[k]
  BY InputsAreNumbers DEF SimBase, SimTypes, Jobs
<1> DEFINE Arrived == {m \in 0..n : m = 0 \/ arrival[m] <= now}
<1>2. Arrived \subseteq Nat /\ 0 \in Arrived /\ \A m \in Arrived : m <= n
  BY <1>1
<1>3. PICK m \in Arrived : \A i \in Arrived : i <= m
  <2> HIDE DEF Arrived
  <2>1. Max(Arrived) \in Arrived /\ \A i \in Arrived : i <= Max(Arrived)
    BY <1>1, <1>2, MaxIsGreatest
  <2> QED BY <2>1
<1>4. m = Requests \/ now < arrival[m + 1]
  <2>1. ASSUME m # n PROVE now < arrival[m + 1]
    <3>1. m + 1 \in 0..n /\ m + 1 \in Jobs /\ m + 1 # 0 /\ m + 1 \notin Arrived
      BY <1>1, <1>3, <2>1
    <3> QED BY <1>1, <3>1
  <2> QED BY <2>1
<1>5. m \in 0..n /\ m \in Nat /\ (m = 0 \/ arrival[m] <= now)
  OBVIOUS
<1> HIDE DEF Arrived
<1>6. ASSUME NEW i \in Jobs, m < i PROVE now < arrival[i]
  <2>1. m + 1 \in Jobs /\ m # Requests /\ (i = m + 1 \/ m + 1 < i)
    BY <1>1, <1>5, <1>6
  <2>2. now < arrival[m + 1] /\ arrival[m + 1] \in Nat /\ arrival[i] \in Nat
    BY <1>1, <1>4, <2>1
  <2>3. i = m + 1 \/ arrival[m + 1] < arrival[i]
    BY <1>1, <2>1
  <2> QED BY <1>1, <2>2, <2>3
<1> QED BY <1>4, <1>5, <1>6 DEF ArrivedUpTo

(* Serving moves the clock and the remainders by the same amount; those who *)
(* arrive meanwhile add to both sides what they ask for.                    *)
LEMMA ServingConserves ==
  ASSUME SimBase, SimBase', WorkIsConserved, NEW j \in Jobs, Serve(j)
  PROVE  WorkIsConserved'
<1> DEFINE d == Slice(j)
           g == Remainders'
<1>1. /\ Requests \in Nat /\ j \in 1..Requests /\ now \in Nat /\ d \in Nat
      /\ arrival \in [Jobs -> Nat] /\ work \in [Jobs -> Nat] /\ arrival[j] <= now
      /\ Jobs = 1..Requests
      /\ \A i, k \in Jobs : i < k => arrival[i] < arrival[k]
  BY ServeIs, SliceIsService, InputsAreNumbers DEF Jobs, SimBase, SimTypes
<1>2. /\ now' = now + d /\ UNCHANGED <<algorithm, arrival, work, cost>>
      /\ attained'[j] = attained[j] + d
      /\ \A i \in Jobs \ {j} : attained'[i] = attained[i]
      /\ attained' \in [Jobs -> Nat] /\ attained \in [Jobs -> Nat]
  BY ServeIs DEF simInput, SimBase, SimTypes
<1> HIDE DEF d
<1>clock. now \in Nat /\ d \in Nat /\ now' = now + d /\ now' \in Nat /\ now <= now'
  BY <1>1, <1>2
<1>3. UNCHANGED DrainedBy
  BY <1>2 DEF DrainedBy
<1>4. g \in [Jobs -> Nat] /\ \A i \in Jobs : g[i] = work[i] - attained'[i]
  <2>1. ASSUME NEW i \in Jobs PROVE work[i] - attained'[i] \in Nat
    <3>1. ServedInTime(i)'
      BY DEF SimBase
    <3>2. attained'[i] <= work[i] /\ attained'[i] \in Nat /\ work[i] \in Nat
      BY <1>1, <1>2, <3>1 DEF ServedInTime
    <3> QED BY <3>2
  <2>2. g = [i \in Jobs |-> work[i] - attained'[i]]
    BY <1>2 DEF Remainders
  <2> HIDE DEF g
  <2> QED BY <2>1, <2>2
<1>5. \A n \in 0..Requests :
         Total(g)[n] = Total(Remainders)[n] + (IF j <= n THEN 0 - d ELSE 0)
  <2>1. Remainders \in [Jobs -> Int] /\ \A i \in Jobs : Remainders[i] = work[i] - attained[i]
    <3>1. Remainders \in [Jobs -> Nat]
      BY RemaindersAdd
    <3>2. \A i \in Jobs : Remainders[i] = work[i] - attained[i]
      BY DEF Remainders
    <3> QED BY <3>1, <3>2
  <2> HIDE DEF g
  <2>2. attained[j] \in Nat /\ work[j] \in Nat /\ j \in Jobs
    BY <1>1, <1>2
  <2>3. g[j] = Remainders[j] + (0 - d)
    BY <1>1, <1>2, <1>4, <2>1, <2>2
  <2>4. \A i \in Jobs \ {j} : g[i] = Remainders[i]
    BY <1>2, <1>4, <2>1
  <2>5. 0 - d \in Int /\ g \in [Jobs -> Int]
    BY <1>1, <1>4
  <2> QED BY <2>1, <2>2, <2>3, <2>4, <2>5, TotalOfMore
<1>6. Total(Remainders)' = Total(g)
  BY DEF Total
<1> HIDE DEF g
<1>7. ASSUME NEW n \in 0..Requests, n = 0 \/ arrival[n] <= now',
             n = Requests \/ now' < arrival[n + 1]
      PROVE  DrainedBy[n] = now' + Total(g)[n]
  <2>1. n = Requests \/ now < arrival[n + 1]
    <3>1. CASE n # Requests
      <4>1. arrival[n + 1] \in Nat /\ now' < arrival[n + 1]
        BY <1>1, <1>7, <3>1
      <4> QED BY <1>clock, <4>1
    <3> QED BY <3>1
  <2>2. PICK m \in 0..n : ArrivedUpTo(m) /\ \A i \in Jobs : m < i => now < arrival[i]
    BY <2>1, LastArrival
  <2>3. j <= m /\ m \in 0..Requests /\ m \in Nat /\ j \in Jobs
    BY <1>1, <2>2
  <2>4. DrainedBy[m] = now' + Total(g)[m]
    <3>1. DrainedBy[m] = now + Total(Remainders)[m]
      BY <2>2, <2>3 DEF WorkIsConserved
    <3>2. Total(Remainders)[m] \in Int
      BY <2>3, RemaindersAdd
    <3>3. Total(g)[m] = Total(Remainders)[m] + (0 - d)
      BY <1>5, <2>3
    <3> HIDE DEF g
    <3> QED BY <1>clock, <3>1, <3>2, <3>3
  <2>5. ASSUME NEW i \in Jobs, m < i, i <= n PROVE g[i] = work[i] /\ arrival[i] <= now'
    <3>1. /\ now < arrival[i] /\ i # j /\ arrival[i] \in Nat /\ attained[i] \in Nat
          /\ work[i] \in Nat /\ ServedInTime(i)
      <4>1. now < arrival[i] /\ ServedInTime(i)
        BY <2>2, <2>5 DEF SimBase
      <4>2. i \in Nat /\ j \in Nat /\ i # j
        BY <1>1, <2>3, <2>5
      <4> QED BY <1>1, <1>2, <4>1, <4>2
    <3>2. attained[i] = 0
      BY <1>1, <3>1 DEF ServedInTime
    <3>3. n \in Jobs /\ arrival[n] <= now' /\ (i = n \/ i < n)
      BY <1>1, <1>7, <2>3, <2>5
    <3>4. arrival[n] \in Nat /\ (i = n \/ arrival[i] < arrival[n])
      BY <1>1, <3>3
    <3>5. g[i] = work[i]
      BY <1>2, <1>4, <3>1, <3>2
    <3> QED BY <1>clock, <3>1, <3>3, <3>4, <3>5
  <2>6. now' \in Nat
    BY <1>1, <1>2
  <2> QED BY <1>4, <2>2, <2>4, <2>5, <2>6, BacklogGrows
<1> QED BY <1>2, <1>3, <1>6, <1>7 DEF WorkIsConserved, ArrivedUpTo

(* Nothing is owed to requests that are done. *)
LEMMA NothingOwed ==
  ASSUME SimBase, NEW m \in 0..Requests,
         \A i \in Jobs : i <= m => attained[i] = work[i]
  PROVE  Total(Remainders)[m] = 0
<1> DEFINE S == {n \in 0..m : Total(Remainders)[n] = 0}
<1>1. /\ Requests \in Nat /\ m \in Nat /\ m <= Requests /\ Jobs = 1..Requests
      /\ work \in [Jobs -> Nat]
  BY InputsAreNumbers DEF SimBase, Jobs
<1>2. 0 \in S
  BY <1>1, RemaindersAdd
<1>3. ASSUME NEW n \in 1..m, n - 1 \in S PROVE n \in S
  <2>1. n \in Jobs /\ n \in 0..m /\ attained[n] = work[n] /\ work[n] \in Nat
    BY <1>1
  <2>2. Total(Remainders)[n] = Total(Remainders)[n - 1] + (work[n] - attained[n])
    BY <2>1, RemaindersAdd
  <2>3. Total(Remainders)[n] = 0
    BY <1>3, <2>1, <2>2
  <2> QED BY <2>1, <2>3
<1> HIDE DEF S
<1>4. 0..m \subseteq S
  BY <1>1, <1>2, <1>3, InducedUpTo
<1> QED BY <1>1, <1>4 DEF S

(* When the clock jumps, everybody before the one it jumps to is done.      *)
LEMMA SkippingConserves ==
  ASSUME SimBase, WorkIsConserved, SkipToArrival
  PROVE  WorkIsConserved'
<1>1. PICK u \in Jobs : /\ now' = arrival[u] /\ now < arrival[u]
                        /\ \A i \in Jobs : attained[i] # work[i] => u <= i
                        /\ attained[u] = 0
  BY SkipIs
<1>2. /\ Requests \in Nat /\ u \in 1..Requests /\ now \in Nat /\ Jobs = 1..Requests
      /\ arrival \in [Jobs -> Nat] /\ work \in [Jobs -> Nat] /\ attained \in [Jobs -> Nat]
      /\ \A i, k \in Jobs : i < k => arrival[i] < arrival[k]
  BY InputsAreNumbers DEF Jobs, SimBase, SimTypes
<1>3. UNCHANGED <<algorithm, arrival, work, cost, attained>>
  BY DEF SkipToArrival, simInput
<1>4. UNCHANGED <<DrainedBy, Total(Remainders)>>
  BY <1>3 DEF DrainedBy, Total, Remainders
<1>5. /\ u - 1 \in 0..Requests /\ (u - 1 = 0 \/ u - 1 \in Jobs) /\ (u - 1) + 1 = u
      /\ \A i \in Jobs : i <= u - 1 => attained[i] = work[i]
  BY <1>1, <1>2
<1>6. ArrivedUpTo(u - 1)
  <2>1. ASSUME u - 1 # 0 PROVE arrival[u - 1] <= now
    <3>1. u - 1 \in Jobs /\ attained[u - 1] = work[u - 1] /\ arrival[u - 1] \in Nat
      BY <1>2, <1>5, <2>1
    <3>2. work[u - 1] \in Nat /\ work[u - 1] # 0 /\ ServedInTime(u - 1)
      BY <3>1, InputsAreNumbers DEF SimBase
    <3> QED BY <1>2, <3>1, <3>2 DEF ServedInTime
  <2> QED BY <1>1, <1>5, <2>1 DEF ArrivedUpTo
<1>7. Total(Remainders)[u - 1] = 0
  BY <1>5, NothingOwed
<1>8. DrainedBy[u - 1] = now
  <2>1. DrainedBy[u - 1] = now + Total(Remainders)[u - 1]
    BY <1>5, <1>6 DEF WorkIsConserved
  <2> QED BY <1>2, <1>7, <2>1
<1>9. DrainedBy[u] = arrival[u] + Total(Remainders)[u]
  <2>1. /\ Total(Remainders)[u] = Total(Remainders)[u - 1] + (work[u] - attained[u])
        /\ DrainedBy[u] = work[u] + (IF DrainedBy[u - 1] > arrival[u]
                                     THEN DrainedBy[u - 1] ELSE arrival[u])
    BY RemaindersAdd
  <2>2. work[u] \in Nat /\ arrival[u] \in Nat
    BY <1>2
  <2> QED BY <1>1, <1>2, <1>7, <1>8, <2>1, <2>2
<1>10. ASSUME NEW n \in 0..Requests, n = 0 \/ arrival[n] <= arrival[u],
              n = Requests \/ arrival[u] < arrival[n + 1]
       PROVE  n = u
  <2>1. arrival[u] \in Nat /\ n \in Nat /\ u \in Nat
    BY <1>2
  <2>2. CASE n < u
    <3>1. /\ n # Requests /\ n + 1 \in Jobs /\ (n + 1 = u \/ n + 1 < u)
          /\ arrival[n + 1] \in Nat
      BY <1>2, <2>2
    <3>2. arrival[n + 1] <= arrival[u]
      BY <1>2, <2>1, <3>1
    <3> QED BY <1>10, <2>1, <3>1, <3>2
  <2>3. CASE n > u
    <3>1. n \in Jobs /\ n # 0 /\ arrival[n] \in Nat
      BY <1>2, <2>3
    <3>2. arrival[u] < arrival[n]
      BY <1>2, <2>3, <3>1
    <3> QED BY <1>10, <2>1, <3>1, <3>2
  <2> QED BY <2>1, <2>2, <2>3
<1> QED BY <1>1, <1>3, <1>4, <1>9, <1>10 DEF WorkIsConserved, ArrivedUpTo

(* Every step conserves the work. *)
LEMMA WorkStep ==
  ASSUME SimBase, SimBase', WorkIsConserved, [SimNext]_simVars
  PROVE  WorkIsConserved'
<1>1. CASE UNCHANGED simVars
  <2>1. UNCHANGED <<DrainedBy, Total(Remainders), now, arrival>>
    BY <1>1 DEF simVars, DrainedBy, Total, Remainders
  <2> QED BY <2>1 DEF WorkIsConserved, ArrivedUpTo
<1> QED BY <1>1, ServingConserves, SkippingConserves DEF SimNext

(* For any algorithm of the simulators, any arrivals and any service times, *)
(* the server is done when a first-come-first-served one would be.          *)
THEOREM SameWork == SimSpec => []SameWorkForEveryAlgorithm
<1>1. ASSUME SimInit, SimBase PROVE WorkIsConserved
  <2>1. /\ Requests \in Nat /\ arrival \in [Jobs -> Nat] /\ work \in [Jobs -> Nat]
        /\ Jobs = 1..Requests /\ now = 0 /\ \A j \in Jobs : attained[j] = 0
        /\ \A i, k \in Jobs : i < k => arrival[i] < arrival[k]
    BY <1>1, InputsAreNumbers DEF SimInit, SimBase, SimTypes, Jobs
  <2> SUFFICES ASSUME NEW n \in 0..Requests, ArrivedUpTo(n)
               PROVE  DrainedBy[n] = now + Total(Remainders)[n]
    BY DEF WorkIsConserved
  <2>2. CASE n = 0
    <3>1. Total(Remainders)[0] = 0 /\ DrainedBy[0] = 0
      BY <1>1, RemaindersAdd
    <3> QED BY <2>1, <2>2, <3>1
  <2>3. CASE n # 0
    <3>1. n \in Jobs /\ arrival[n] = 0
      BY <2>1, <2>3 DEF ArrivedUpTo
    <3>2. n = 1
      <4>1. ASSUME n # 1 PROVE FALSE
        <5>1. 1 \in Jobs /\ 1 < n /\ arrival[1] \in Nat
          BY <2>1, <3>1, <4>1
        <5>2. arrival[1] < arrival[n]
          BY <2>1, <3>1, <5>1
        <5> QED BY <3>1, <5>1, <5>2
      <4> QED BY <4>1
    <3>3. 1 \in Jobs /\ 1 - 1 = 0 /\ work[1] \in Nat /\ attained[1] = 0
      BY <2>1, <3>1, <3>2
    <3>4. /\ Total(Remainders)[0] = 0 /\ DrainedBy[0] = 0
          /\ Total(Remainders)[1] = Total(Remainders)[0] + (work[1] - attained[1])
          /\ DrainedBy[1] = work[1] + (IF DrainedBy[0] > arrival[1]
                                       THEN DrainedBy[0] ELSE arrival[1])
      BY <1>1, <3>3, RemaindersAdd
    <3> QED BY <2>1, <3>1, <3>2, <3>3, <3>4
  <2> QED BY <2>2, <2>3
<1>2. ASSUME SimBase, WorkIsConserved, Unfinished = {}
      PROVE  now = DrainedBy[Requests] /\ \A j \in Jobs : finish[j] >= arrival[j] + work[j]
  <2>1. /\ Requests \in Nat /\ arrival \in [Jobs -> Nat] /\ work \in [Jobs -> Nat]
        /\ now \in Nat /\ Jobs = 1..Requests /\ finish \in [Jobs -> Int]
        /\ attained \in [Jobs -> Nat]
    BY <1>2, InputsAreNumbers DEF SimBase, SimTypes, Jobs
  <2>2. ASSUME NEW j \in Jobs
        PROVE  attained[j] = work[j] /\ arrival[j] <= now /\ finish[j] >= arrival[j] + work[j]
    <3>1. /\ attained[j] \in Nat /\ work[j] \in Nat /\ arrival[j] \in Nat /\ finish[j] \in Int
          /\ work[j] # 0 /\ ServedInTime(j)
      BY <1>2, <2>1, InputsAreNumbers DEF SimBase
    <3>2. ~ (attained[j] < work[j])
      BY <1>2 DEF Unfinished
    <3> QED BY <2>1, <3>1, <3>2 DEF ServedInTime
  <2>3. Requests \in 0..Requests
    BY <2>1
  <2>4. ArrivedUpTo(Requests)
    BY <2>1, <2>2 DEF ArrivedUpTo
  <2>5. Total(Remainders)[Requests] = 0
    BY <1>2, <2>2, <2>3, NothingOwed
  <2>6. DrainedBy[Requests] = now + Total(Remainders)[Requests]
    BY <1>2, <2>3, <2>4 DEF WorkIsConserved
  <2> QED BY <2>1, <2>2, <2>5, <2>6
<1>3. SimBase /\ WorkIsConserved => SameWorkForEveryAlgorithm
  BY <1>2 DEF SameWorkForEveryAlgorithm
<1>4. SimInit => SimBase
  BY SimulatorsStart
<1> QED BY <1>1, <1>3, <1>4, WorkStep, SimulatorsServeInTime, PTL DEF SimSpec

-----------------------------------------------------------------------------
(* The fractions that the keys of the selection family are. *)
LEMMA SelectionKeys ==
  ASSUME NEW j \in Jobs
  PROVE  /\ algorithm = "static" => Key(j).num = cost[j] /\ Key(j).den = Deadline
         /\ algorithm = "aging" => /\ Key(j).num = cost[j]
                                   /\ Key(j).den = Deadline + (now - arrival[j])
         /\ algorithm = "deadline_guard" =>
               /\ Key(j).num = IF now - arrival[j] >= Deadline THEN arrival[j] - GuardOffset
                               ELSE cost[j]
               /\ Key(j).den = Deadline
<1> DEFINE age == now - arrival[j]
           num == CASE algorithm = "deadline_guard" ->
                         IF age >= Deadline THEN arrival[j] - GuardOffset ELSE cost[j]
                    [] algorithm = "las" -> attained[j]
                    [] algorithm = "mlfq" -> Level(j)
                    [] algorithm = "srpt_oracle" -> Remaining(j)
                    [] OTHER -> cost[j]
           den == IF algorithm = "aging" THEN Deadline + age ELSE Deadline
<1>1. Key(j).num = num /\ Key(j).den = den
  <2>1. Key(j) = [num |-> num, den |-> den]
    BY DEF Key
  <2> HIDE DEF num, den
  <2> QED BY <2>1
<1>2. ASSUME algorithm \in {"static", "aging"} PROVE num = cost[j]
  <2>1. /\ algorithm # "deadline_guard" /\ algorithm # "las" /\ algorithm # "mlfq"
        /\ algorithm # "srpt_oracle"
    BY <1>2
  <2> QED BY <2>1, Zenon
<1>3. ASSUME algorithm = "deadline_guard"
      PROVE  num = IF age >= Deadline THEN arrival[j] - GuardOffset ELSE cost[j]
  <2>1. algorithm # "las" /\ algorithm # "mlfq" /\ algorithm # "srpt_oracle"
    BY <1>3
  <2> QED BY <1>3, <2>1, Zenon
<1>4. (algorithm = "aging" => den = Deadline + age) /\ (algorithm # "aging" => den = Deadline)
  OBVIOUS
<1> HIDE DEF num, den
<1> QED BY <1>1, <1>2, <1>3, <1>4

(* A common denominator does not matter. *)
LEMMA ScalingKeepsOrder ==
  ASSUME NEW a \in Int, NEW b \in Int, NEW d \in Nat, a * d < b * d
  PROVE  a < b
<1> SUFFICES ASSUME b <= a PROVE FALSE
  OBVIOUS
<1>1. a - b \in Nat /\ a = b + (a - b)
  OBVIOUS
<1>2. a * d = b * d + (a - b) * d
  BY <1>1
<1>3. (a - b) * d \in Nat /\ a * d \in Int /\ b * d \in Int
  BY <1>1
<1> QED BY <1>2, <1>3

(* A request that is served is ahead of everyone else who waits. *)
LEMMA ServedIsAhead ==
  ASSUME SimBase, NEW i \in Jobs, NEW j \in Jobs, Serve(j), i # j,
         arrival[i] <= now, start[i] = -1, algorithm \in Selecting
  PROVE  Before(j, i)
<1>1. attained[i] = 0 /\ work[i] \in Nat /\ work[i] # 0
  BY InputsAreNumbers DEF SimBase, ServedInTime
<1>2. i \in Active
  BY <1>1 DEF Active, Unfinished
<1>3. algorithm \notin Scored
  BY DEF Selecting, Scored
<1> QED BY <1>2, <1>3 DEF Serve, Picked

(* Among the requests that wait, the guard serves an overdue one only after *)
(* older ones.                                                             *)
LEMMA OverdueWaitsForOlder ==
  ASSUME SimBase, algorithm = "deadline_guard", NEW i \in Jobs, NEW j \in Jobs, Serve(j),
         i # j, now >= arrival[i] + Deadline, start[i] = -1
  PROVE  j < i
<1>1. /\ arrival[i] \in Nat /\ arrival[j] \in Nat /\ cost[j] \in Nat /\ now \in Nat
      /\ i \in Nat /\ j \in Nat /\ arrival[i] < GuardOffset /\ arrival[j] < GuardOffset
      /\ i < j => arrival[i] < arrival[j]
  BY JobsAreNumbers
<1>2. Deadline \in Nat /\ GuardOffset \in Nat
  BY JobsAreNumbers
<1>3. Before(j, i)
  <2>1. arrival[i] <= now
    BY <1>1, <1>2
  <2>2. algorithm \in Selecting
    BY DEF Selecting
  <2> QED BY <2>1, <2>2, ServedIsAhead
<1> DEFINE late == arrival[i] - GuardOffset
           key == IF now - arrival[j] >= Deadline THEN arrival[j] - GuardOffset ELSE cost[j]
<1>4. late \in Int /\ key \in Int /\ late < 0
  BY <1>1, <1>2
<1>5. now - arrival[i] >= Deadline
  BY <1>1, <1>2
<1>6. /\ Key(i).num = late /\ Key(i).den = Deadline
      /\ Key(j).num = key /\ Key(j).den = Deadline
  BY <1>5, SelectionKeys
<1>7. key * Deadline < late * Deadline \/ j < i
  <2> HIDE DEF late, key
  <2> QED BY <1>3, <1>6 DEF Before
<1>8. ASSUME key * Deadline < late * Deadline PROVE j < i
  <2>1. key < late
    <3> HIDE DEF late, key
    <3> QED BY <1>2, <1>4, <1>8, ScalingKeepsOrder
  <2> QED BY <1>1, <1>2, <1>4, <2>1
<1> QED BY <1>7, <1>8

Longest == Max({work[i] : i \in Jobs})

(* A request waits for the one in service when it becomes overdue and for   *)
(* what the older ones had: the bound, while it waits and once it has not.  *)
WaitBounded ==
    algorithm = "deadline_guard" =>
        \A j \in Jobs :
            IF start[j] = -1
            THEN now <= arrival[j] + Deadline + Longest + Total(attained)[j - 1]
            ELSE start[j] <= arrival[j] + Deadline + Longest + Total(work)[j - 1]

(* The longest service is one, and no service is longer. *)
LEMMA LongestBounds ==
  ASSUME SimBase, NEW j \in Jobs
  PROVE  Longest \in Nat /\ \A i \in Jobs : work[i] <= Longest
<1> DEFINE S == {n \in 0..Requests : \E b \in Nat : \A i \in Jobs : i <= n => work[i] <= b}
<1>1. /\ Requests \in Nat /\ Jobs = 1..Requests /\ work \in [Jobs -> Nat]
  BY InputsAreNumbers DEF SimBase, Jobs
<1>2. 0 \in S
  <2>1. \A i \in Jobs : i <= 0 => work[i] <= 0
    BY <1>1
  <2> QED BY <1>1, <2>1
<1>3. ASSUME NEW n \in 1..Requests, n - 1 \in S PROVE n \in S
  <2>1. PICK b \in Nat : \A i \in Jobs : i <= n - 1 => work[i] <= b
    BY <1>3
  <2>2. n \in Jobs /\ work[n] \in Nat /\ n \in 0..Requests
    BY <1>1
  <2>3. PICK c \in Nat : b <= c /\ work[n] <= c
    <3>1. CASE b <= work[n]
      BY <2>2, <3>1
    <3>2. CASE ~ (b <= work[n])
      BY <2>2, <3>2
    <3> QED BY <3>1, <3>2
  <2>4. ASSUME NEW i \in Jobs, i <= n PROVE work[i] <= c
    <3>1. i \in Nat /\ n \in Nat /\ work[i] \in Nat /\ (i = n \/ i <= n - 1)
      BY <1>1, <2>4
    <3> QED BY <2>1, <2>3, <3>1
  <2> QED BY <2>2, <2>4
<1> HIDE DEF S
<1>4. 0..Requests \subseteq S
  BY <1>1, <1>2, <1>3, InducedUpTo
<1>5. PICK b \in Nat : \A i \in Jobs : work[i] <= b
  <2>1. Requests \in S
    BY <1>1, <1>4
  <2>2. \A i \in Jobs : i <= Requests
    BY <1>1
  <2> QED BY <2>1, <2>2 DEF S
<1> DEFINE W == {work[i] : i \in Jobs}
<1>6. W \subseteq Nat /\ W # {} /\ \A n \in W : n <= b
  BY <1>1, <1>5
<1>7. Max(W) \in W /\ \A n \in W : n <= Max(W)
  <2> HIDE DEF W
  <2> QED BY <1>6, MaxIsGreatest
<1>8. Max(W) \in Nat
  BY <1>6, <1>7
<1> QED BY <1>7, <1>8 DEF Longest

(* What is known of the totals the bound is stated with. *)
LEMMA ServiceTotals ==
  ASSUME SimBase, NEW j \in Jobs
  PROVE  /\ j - 1 \in 0..Requests
         /\ Total(attained)[j - 1] \in Nat /\ Total(work)[j - 1] \in Nat
         /\ Total(attained)[j - 1] <= Total(work)[j - 1]
<1>1. /\ Requests \in Nat /\ Jobs = 1..Requests /\ work \in [Jobs -> Nat]
      /\ attained \in [Jobs -> Nat] /\ work \in [Jobs -> Int] /\ attained \in [Jobs -> Int]
  BY InputsAreNumbers DEF SimBase, SimTypes, Jobs
<1>2. j - 1 \in 0..Requests /\ \A i \in 1..(j - 1) : i \in Jobs
  BY <1>1
<1>3. Total(attained) \in [0..Requests -> Nat] /\ Total(work) \in [0..Requests -> Nat]
  BY <1>1, TotalIsNatural
<1>4. \A i \in Jobs : attained[i] <= work[i]
  BY DEF SimBase, ServedInTime
<1>5. Total(attained)[j - 1] <= Total(work)[j - 1]
  BY <1>1, <1>2, <1>4, TotalIsMonotonic
<1> QED BY <1>2, <1>3, <1>5

(* Serving another request keeps the bound. *)
LEMMA ServingBoundsTheWait ==
  ASSUME SimBase, WaitBounded, algorithm = "deadline_guard",
         NEW k \in Jobs, Serve(k), NEW j \in Jobs, start'[j] = -1
  PROVE  now' <= arrival[j] + Deadline + Longest + Total(attained')[j - 1]
<1> DEFINE g == attained'
           d == Slice(k)
<1>1. /\ k \in Active /\ now' = now + d /\ g[k] = attained[k] + d
      /\ start'[k] = IF start[k] = -1 THEN now ELSE start[k]
      /\ \A i \in Jobs \ {k} : g[i] = attained[i] /\ start'[i] = start[i]
      /\ g \in [Jobs -> Nat]
  BY ServeIs
<1>2. /\ d \in Nat /\ attained[k] = 0 /\ d = work[k] - attained[k] /\ work[k] \in Nat
  BY <1>1, SliceIsService, InputsAreNumbers DEF Selecting, SimBase
<1>3. /\ now \in Nat /\ arrival[j] \in Nat /\ Deadline \in Nat /\ Longest \in Nat
      /\ d <= Longest /\ attained \in [Jobs -> Nat] /\ attained \in [Jobs -> Int]
      /\ Total(attained)[j - 1] \in Nat /\ j - 1 \in 0..Requests
      /\ j \in Nat /\ k \in Nat
  <2>1. /\ now \in Nat /\ arrival[j] \in Nat /\ Deadline \in Nat /\ j \in Nat /\ k \in Nat
    BY JobsAreNumbers
  <2>2. Longest \in Nat /\ work[k] <= Longest
    BY LongestBounds
  <2>3. attained \in [Jobs -> Nat] /\ attained \in [Jobs -> Int]
    BY DEF SimBase, SimTypes
  <2>4. d <= Longest
    BY <1>2, <2>2
  <2>5. Total(attained)[j - 1] \in Nat /\ j - 1 \in 0..Requests
    BY ServiceTotals
  <2> QED BY <2>1, <2>2, <2>3, <2>4, <2>5
<1> HIDE DEF g, d
<1>4. j # k /\ start[j] = -1
  BY <1>1, <1>3
<1>5. now <= arrival[j] + Deadline + Longest + Total(attained)[j - 1]
  BY <1>4 DEF WaitBounded
<1>6. Total(g)[j - 1] = Total(attained)[j - 1] + (IF k <= j - 1 THEN d ELSE 0)
  <2>1. g \in [Jobs -> Int] /\ d \in Int
    BY <1>1, <1>2
  <2> QED BY <1>1, <1>3, <2>1, TotalOfMore
<1>7. CASE now < arrival[j] + Deadline
  <2>1. now' <= arrival[j] + Deadline + Longest + Total(g)[j - 1]
    BY <1>1, <1>2, <1>3, <1>6, <1>7
  <2> QED BY <2>1 DEF g
<1>8. CASE now >= arrival[j] + Deadline
  <2>1. k < j
    BY <1>4, <1>8, OverdueWaitsForOlder
  <2>2. now' <= arrival[j] + Deadline + Longest + Total(g)[j - 1]
    BY <1>1, <1>2, <1>3, <1>5, <1>6, <2>1
  <2> QED BY <2>2 DEF g
<1> QED BY <1>3, <1>7, <1>8

(* The clock jumps no further than to the first request that waits.         *)
LEMMA SkippingBoundsTheWait ==
  ASSUME SimBase, SkipToArrival, NEW j \in Jobs, start[j] = -1
  PROVE  now' <= arrival[j] + Deadline + Longest + Total(attained)[j - 1]
<1>1. PICK u \in Jobs : /\ now' = arrival[u]
                        /\ \A i \in Jobs : attained[i] # work[i] => u <= i
  BY SkipIs
<1>2. /\ arrival[j] \in Nat /\ arrival[u] \in Nat /\ j \in Nat /\ u \in Nat
      /\ attained[j] = 0 /\ work[j] # 0
      /\ u < j => arrival[u] < arrival[j]
  <2>1. ServedInTime(j)
    BY DEF SimBase
  <2> QED BY <2>1, JobsAreNumbers DEF ServedInTime
<1>3. u = j \/ u < j
  BY <1>1, <1>2
<1>4. /\ Deadline \in Nat /\ Longest \in Nat /\ Total(attained)[j - 1] \in Nat
  BY LongestBounds, ServiceTotals, SimulationAssumption DEF SimulationAssumption
<1> QED BY <1>1, <1>2, <1>3, <1>4

(* A request that begins has waited no longer than the bound. *)
LEMMA BeginningIsInTime ==
  ASSUME SimBase, WaitBounded, algorithm = "deadline_guard", NEW j \in Jobs, start[j] = -1
  PROVE  now <= arrival[j] + Deadline + Longest + Total(work)[j - 1]
<1>1. now <= arrival[j] + Deadline + Longest + Total(attained)[j - 1]
  BY DEF WaitBounded
<1>2. now \in Nat /\ arrival[j] \in Nat /\ Deadline \in Nat
  BY SimulationAssumption, InputsAreNumbers DEF SimulationAssumption, SimBase, SimTypes
<1> QED BY <1>1, <1>2, LongestBounds, ServiceTotals

(* Every step keeps the bound. *)
LEMMA WaitStep ==
  ASSUME SimBase, WaitBounded, [SimNext]_simVars
  PROVE  WaitBounded'
<1>1. UNCHANGED <<algorithm, arrival, work, cost>>
  BY DEF SimNext, SkipToArrival, Serve, simInput, simVars
<1>2. UNCHANGED Longest /\ UNCHANGED Total(work)
  BY <1>1 DEF Longest, Total
<1>3. Total(attained)' = Total(attained')
  BY DEF Total
<1> SUFFICES ASSUME algorithm = "deadline_guard", NEW j \in Jobs
             PROVE  IF start'[j] = -1
                    THEN now' <= arrival[j] + Deadline + Longest + Total(attained')[j - 1]
                    ELSE start'[j] <= arrival[j] + Deadline + Longest + Total(work)[j - 1]
  BY <1>1, <1>2, <1>3 DEF WaitBounded
<1>4. CASE start'[j] = -1
  <2>1. CASE SkipToArrival
    <3>1. start[j] = -1 /\ attained' = attained
      BY <1>4, <2>1 DEF SkipToArrival
    <3> QED BY <1>4, <2>1, <3>1, SkippingBoundsTheWait
  <2>2. ASSUME NEW k \in Jobs, Serve(k)
        PROVE  now' <= arrival[j] + Deadline + Longest + Total(attained')[j - 1]
    BY <1>4, <2>2, ServingBoundsTheWait
  <2>3. CASE UNCHANGED simVars
    BY <1>4, <2>3 DEF simVars, WaitBounded
  <2> QED BY <1>4, <2>1, <2>2, <2>3 DEF SimNext
<1>5. CASE start'[j] # -1
  <2>1. CASE start'[j] = start[j]
    BY <1>5, <2>1 DEF WaitBounded
  <2>2. CASE start'[j] # start[j]
    <3>1. PICK k \in Jobs : Serve(k)
      BY <2>2 DEF SimNext, SkipToArrival, simVars
    <3>2. start[j] = -1 /\ start'[j] = now
      BY <2>2, <3>1, ServeIs
    <3> QED BY <1>5, <3>2, BeginningIsInTime
  <2> QED BY <2>1, <2>2
<1> QED BY <1>4, <1>5

(* Under deadline_guard no request waits longer than the deadline, one      *)
(* service and what the older requests ask for, whatever the costs.         *)
THEOREM GuardBounds == SimSpec => []GuardBoundsTheWait
<1>1. ASSUME SimInit, SimBase PROVE WaitBounded
  <2> SUFFICES ASSUME NEW j \in Jobs
               PROVE  /\ start[j] = -1
                      /\ now <= arrival[j] + Deadline + Longest + Total(attained)[j - 1]
    BY DEF WaitBounded
  <2>1. now = 0 /\ start[j] = -1 /\ arrival[j] \in Nat /\ Deadline \in Nat
    BY <1>1, InputsAreNumbers, SimulationAssumption DEF SimInit, SimulationAssumption, SimBase
  <2>2. Longest \in Nat /\ Total(attained)[j - 1] \in Nat
    BY <1>1, LongestBounds, ServiceTotals
  <2> QED BY <2>1, <2>2
<1>2. ASSUME SimBase, WaitBounded PROVE GuardBoundsTheWait
  <2> SUFFICES ASSUME algorithm = "deadline_guard", NEW j \in Jobs, start[j] # -1
               PROVE  start[j] - arrival[j] <= Deadline + Longest + Total(work)[j - 1]
    BY DEF GuardBoundsTheWait, Longest
  <2>1. start[j] <= arrival[j] + Deadline + Longest + Total(work)[j - 1]
    BY <1>2 DEF WaitBounded
  <2>2. /\ start[j] \in Int /\ arrival[j] \in Nat /\ Deadline \in Nat
        /\ Longest \in Nat /\ Total(work)[j - 1] \in Nat
    BY <1>2, LongestBounds, ServiceTotals, InputsAreNumbers, SimulationAssumption
       DEF SimulationAssumption, SimBase, SimTypes
  <2> QED BY <2>1, <2>2
<1> QED BY <1>1, <1>2, WaitStep, SimulatorsStart, SimulatorsServeInTime, PTL DEF SimSpec

-----------------------------------------------------------------------------
(* Before(j, i) in the selection family, for a younger j, needs a cost that *)
(* is less.                                                                *)
LEMMA YoungerIsCheaper ==
  ASSUME SimBase, algorithm \in Selecting, NEW i \in Jobs, NEW j \in Jobs, i < j,
         arrival[j] <= now, Before(j, i)
  PROVE  cost[j] < cost[i]
<1>1. /\ arrival[i] \in Nat /\ arrival[j] \in Nat /\ cost[i] \in Nat /\ cost[j] \in Nat
      /\ now \in Nat /\ i \in Nat /\ j \in Nat /\ arrival[i] < arrival[j]
      /\ arrival[i] < GuardOffset /\ arrival[j] < GuardOffset
  BY JobsAreNumbers
<1>2. Deadline \in Nat /\ GuardOffset \in Nat
  BY JobsAreNumbers
<1>3. Key(j).num * Key(i).den < Key(i).num * Key(j).den
  BY <1>1 DEF Before
<1>4. CASE algorithm = "static"
  <2>1. cost[j] * Deadline < cost[i] * Deadline
    BY <1>3, <1>4, SelectionKeys
  <2> QED BY <1>1, <1>2, <2>1, ScalingKeepsOrder
<1>5. CASE algorithm = "aging"
  <2> DEFINE older == Deadline + (now - arrival[i])
             younger == Deadline + (now - arrival[j])
  <2>1. cost[j] * older < cost[i] * younger
    BY <1>3, <1>5, SelectionKeys
  <2>2. older \in Nat /\ younger \in Nat /\ younger <= older
    BY <1>1, <1>2
  <2> HIDE DEF older, younger
  <2>3. cost[i] <= cost[j] => cost[i] * younger <= cost[j] * older
    BY <1>1, <2>2, ProductIsMonotonic
  <2>4. cost[i] * younger \in Nat /\ cost[j] * older \in Nat
    BY <1>1, <2>2
  <2> QED BY <1>1, <2>1, <2>3, <2>4
<1>6. CASE algorithm = "deadline_guard"
  <2> DEFINE key(x) == IF now - arrival[x] >= Deadline THEN arrival[x] - GuardOffset ELSE cost[x]
  <2>1. key(j) * Deadline < key(i) * Deadline
    <3>1. /\ Key(i).num = key(i) /\ Key(i).den = Deadline
          /\ Key(j).num = key(j) /\ Key(j).den = Deadline
      BY <1>6, SelectionKeys
    <3> HIDE DEF key
    <3> QED BY <1>3, <3>1
  <2>2. key(j) \in Int /\ key(i) \in Int
    BY <1>1, <1>2
  <2>3. key(j) < key(i)
    <3> HIDE DEF key
    <3> QED BY <1>2, <2>1, <2>2, ScalingKeepsOrder
  <2> QED BY <1>1, <1>2, <2>3
<1> QED BY <1>4, <1>5, <1>6 DEF Selecting

(* No algorithm of the selection family serves a newcomer before an older   *)
(* request that costs no more, whatever the costs and the arrivals.         *)
THEOREM AgingFavoursTheOlder == SimSpec => NoDearerNewcomerPasses
<1>1. ASSUME SimBase, [SimNext]_simVars, algorithm \in Selecting,
             NEW i \in Jobs, NEW j \in Jobs,
             i < j, start[i] = -1, start'[i] = -1, start[j] # start'[j]
      PROVE  cost[j] < cost[i]
  <2>1. PICK k \in Jobs : Serve(k)
    BY <1>1 DEF SimNext, SkipToArrival, simVars
  <2>2. k = j
    BY <1>1, <2>1, ServeIs
  <2>3. arrival[j] <= now /\ now \in Nat /\ arrival[i] <= now /\ i # j
    <3>1. arrival[j] <= now
      BY <1>1, <2>1, <2>2, ServeIs, SliceIsService
    <3>2. /\ now \in Nat /\ arrival[i] \in Nat /\ arrival[j] \in Nat
          /\ arrival[i] < arrival[j] /\ i \in Nat /\ j \in Nat
      BY <1>1, JobsAreNumbers
    <3> QED BY <1>1, <3>1, <3>2
  <2>4. Before(j, i)
    BY <1>1, <2>1, <2>2, <2>3, ServedIsAhead
  <2> QED BY <1>1, <2>3, <2>4, YoungerIsCheaper
<1>2. ASSUME SimBase, [SimNext]_simVars
      PROVE  [(algorithm \in Selecting) =>
                \A i, j \in Jobs :
                    (i < j /\ start[i] = -1 /\ start'[i] = -1 /\ start[j] # start'[j])
                        => cost[j] < cost[i]]_simVars
  BY <1>1, <1>2
<1> QED BY <1>2, SimulatorsServeInTime, PTL DEF SimSpec, NoDearerNewcomerPasses
=============================================================================
