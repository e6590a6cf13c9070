------------------------------ MODULE TimeData ------------------------------
(***************************************************************************)
(* The adjusted time: AddTimeData (util_time.cpp), which version handlers  *)
(* call, with the MedianFilter of util.h.                                  *)
(*                                                                         *)
(* The handlers run on the threads of the pool, and only the offset itself *)
(* is under a lock.  A call is cut where it reads or changes what is       *)
(* shared; what a data race does inside a container is left out.           *)
(***************************************************************************)
EXTENDS Integers, Sequences, FiniteSets

CONSTANTS
  Handlers,           \* threads in AddTimeData
  Samplers,           \* addresses of nodes
  Offsets,            \* their time less ours
  MaxTimedataSamples, \* kMaxTimedataSamples
  MinSamples,         \* 5
  MaxOffset           \* 70*60

ASSUME TimeAssumption ==
  /\ MaxTimedataSamples \in Nat \ {0} /\ MaxOffset \in Nat
  /\ Offsets \subseteq Int

VARIABLES
  call,     \* what each handler is at, and the sample it brings
  setKnown, \* set_known
  values,   \* values_ of time_offsets
  sorted,   \* sorted_
  offset,   \* TimeOffset::offset_
  raced     \* (history) two calls have been inside at once

timeState == <<call, setKnown, values, sorted, offset, raced>>

NoCall == [at |-> "none"]

TimeInit ==
  /\ call = [h \in Handlers |-> NoCall]
  /\ setKnown = {}
  /\ values = <<0>> /\ sorted = <<0>>
  /\ offset = 0
  /\ raced = FALSE

Goes(h, at) == call' = [call EXCEPT ![h].at = at]
Returns(h) == call' = [call EXCEPT ![h] = NoCall]

\* The call begins: no more than the largest number of samples.
AddTimeData(h) ==
  /\ call[h].at = "none"
  /\ Cardinality(setKnown) # MaxTimedataSamples
  /\ \E a \in Samplers, o \in Offsets :
       call' = [call EXCEPT ![h] = [at |-> "insert", addr |-> a, sample |-> o]]
  /\ raced' = (raced \/ \E other \in Handlers : call[other].at # "none")
  /\ UNCHANGED <<setKnown, values, sorted, offset>>

\* Ignore duplicates.
Insert(h) ==
  /\ call[h].at = "insert"
  /\ IF call[h].addr \in setKnown THEN Returns(h) ELSE Goes(h, "input")
  /\ setKnown' = setKnown \cup {call[h].addr}
  /\ UNCHANGED <<values, sorted, offset, raced>>

\* MedianFilter::Input: the values, then their sorted copy.
Input(h) ==
  /\ call[h].at = "input"
  /\ values' = Append(IF Len(values) = MaxTimedataSamples THEN Tail(values) ELSE values,
                      call[h].sample)
  /\ Goes(h, "sort")
  /\ UNCHANGED <<setKnown, sorted, offset, raced>>

\* std::sort puts the values in an order that ascends.
Orders == {p \in [DOMAIN values -> DOMAIN values] : \A i, j \in DOMAIN values : p[i] = p[j] => i = j}

Sort(h) ==
  /\ call[h].at = "sort"
  /\ \E p \in Orders :
       /\ sorted' = [i \in DOMAIN values |-> values[p[i]]]
       /\ \A i, j \in DOMAIN values : i < j => sorted'[i] <= sorted'[j]
  /\ Goes(h, "size")
  /\ UNCHANGED <<setKnown, values, offset, raced>>

SizeCounts == Len(values) >= MinSamples /\ Len(values) % 2 = 1

TestSize(h) ==
  /\ call[h].at = "size"
  /\ IF SizeCounts THEN Goes(h, "median") ELSE Returns(h)
  /\ UNCHANGED <<setKnown, values, sorted, offset, raced>>

\* Division of C++ goes towards zero.
Half(n) == IF n >= 0 THEN n \div 2 ELSE -((-n) \div 2)
Median_Low == sorted[Len(sorted) \div 2]
Median ==
  LET n == Len(sorted)
  IN IF n % 2 = 1 THEN sorted[n \div 2 + 1] ELSE Half(sorted[n \div 2] + sorted[n \div 2 + 1])

SetOffset(h) ==
  /\ call[h].at = "median"
  /\ offset' = IF Median \in -MaxOffset..MaxOffset THEN Median ELSE 0
  /\ Returns(h)
  /\ UNCHANGED <<setKnown, values, sorted, raced>>

TimeNext ==
  \E h \in Handlers :
    AddTimeData(h) \/ Insert(h) \/ Input(h) \/ Sort(h) \/ TestSize(h) \/ SetOffset(h)

TimeSpec == TimeInit /\ [][TimeNext]_timeState

-----------------------------------------------------------------------------
\* Other nodes move the clock by MaxOffset at most, even where two calls overlap.  Where
\* none ever did, the offset is in the middle of the samples (our own clock is one of
\* them): less than half are on either side, so that the majority has the clock; it
\* is 0 if what is in the middle is too far off.
InTheMiddle(v) ==
  /\ 2 * Cardinality({i \in 1..Len(values) : values[i] < v}) < Len(values)
  /\ 2 * Cardinality({i \in 1..Len(values) : values[i] > v}) < Len(values)

TimeSafe ==
  /\ offset \in -MaxOffset..MaxOffset
  /\ ~raced =>
       /\ Cardinality(setKnown) <= MaxTimedataSamples
       /\ SizeCounts /\ (\A h \in Handlers : call[h].at = "none") =>
            \/ InTheMiddle(offset)
            \/ offset = 0 /\ ~\E v \in -MaxOffset..MaxOffset : InTheMiddle(v)
=============================================================================
