-------------------------- MODULE MetricsHistogram --------------------------
(***************************************************************************)
(* The latency histogram of RpcMetrics (rpc_metrics.cc): record, called by *)
(* all handler and callback threads at once and without a lock, and the    *)
(* part of to_prometheus_format that reads the histogram.  The four fields *)
(* are separate atomics; every operation on one of them is a step.         *)
(***************************************************************************)
EXTENDS Integers

CONSTANTS Threads,
          Values,     \* latencies, in milliseconds of a steady clock
          INT64_MIN, INT64_MAX,
          MaxRecords  \* bound: calls of record

ASSUME HistogramAssumption ==
  /\ INT64_MIN \in Int /\ INT64_MAX \in Int
  /\ Values \subseteq Nat
  /\ \A v \in Values : INT64_MIN < v /\ v < INT64_MAX
  /\ INT64_MIN < 0 /\ 0 < INT64_MAX
  /\ MaxRecords \in Nat

VARIABLES
  sum,      \* sum_
  count,    \* count_
  min,      \* min_
  max,      \* max_
  pc,       \* where each thread is in record
  value,    \* record: value
  seen,     \* record: current_min, then current_max
  spc,      \* where to_prometheus_format is
  scraped,  \* the latency lines it has written
  begun,    \* history: values whose record has begun
  done,     \* history: values whose record has returned
  before,   \* history: the values done when the scrape began
  records   \* history: calls of record

fields  == <<sum, count, min, max>>
locals  == <<value, seen>>
scrape  == <<spc, scraped, before>>
history == <<begun, done, records>>
vars    == <<fields, pc, locals, scrape, history>>

Locations == {"Idle", "AddCount", "LoadMin", "CasMin", "LoadMax", "CasMax"}

Goto(t, from, to) == pc[t] = from /\ pc' = [pc EXCEPT ![t] = to]

\* get_min and get_max: 0 until the first record.
GetMin == IF min = INT64_MAX THEN 0 ELSE min
GetMax == IF max = INT64_MIN THEN 0 ELSE max

-----------------------------------------------------------------------------
Init ==
  /\ sum = 0 /\ count = 0 /\ min = INT64_MAX /\ max = INT64_MIN
  /\ pc = [t \in Threads |-> "Idle"]
  /\ value = [t \in Threads |-> 0]
  /\ seen = [t \in Threads |-> 0]
  /\ spc = "Idle" /\ scraped = [sum |-> 0, count |-> 0, min |-> 0, max |-> 0]
  /\ before = {} /\ begun = {} /\ done = {} /\ records = 0

\* record, up to the addition to sum_.
Record(t, v) ==
  /\ records < MaxRecords /\ records' = records + 1
  /\ Goto(t, "Idle", "AddCount")
  /\ value' = [value EXCEPT ![t] = v]
  /\ sum' = sum + v
  /\ begun' = begun \cup {v}
  /\ UNCHANGED <<count, min, max, seen, scrape, done>>

AddCount(t) ==
  /\ Goto(t, "AddCount", "LoadMin")
  /\ count' = count + 1
  /\ UNCHANGED <<sum, min, max, locals, scrape, history>>

\* The load of min_, and the first test of its loop.
LoadMin(t) ==
  /\ seen' = [seen EXCEPT ![t] = min]
  /\ \/ value[t] < min  /\ Goto(t, "LoadMin", "CasMin")
     \/ value[t] >= min /\ Goto(t, "LoadMin", "LoadMax")
  /\ UNCHANGED <<fields, value, scrape, history>>

\* compare_exchange_weak on min_: it stores the value, or the loop goes on
\* with what another thread has stored.
CasMin(t) ==
  \/ /\ min = seen[t]
     /\ Goto(t, "CasMin", "LoadMax")
     /\ min' = value[t]
     /\ UNCHANGED <<sum, count, max, locals, scrape, history>>
  \/ /\ min # seen[t]
     /\ seen' = [seen EXCEPT ![t] = min]
     /\ \/ value[t] < min  /\ Goto(t, "CasMin", "CasMin")
        \/ value[t] >= min /\ Goto(t, "CasMin", "LoadMax")
     /\ UNCHANGED <<fields, value, scrape, history>>

\* The load of max_, and the first test of its loop.
LoadMax(t) ==
  /\ seen' = [seen EXCEPT ![t] = max]
  /\ \/ value[t] > max  /\ Goto(t, "LoadMax", "CasMax") /\ UNCHANGED done
     \/ value[t] <= max /\ Goto(t, "LoadMax", "Idle") /\ done' = done \cup {value[t]}
  /\ UNCHANGED <<fields, value, scrape, begun, records>>

\* Faulty variant: a thread that loses the race gives up.
CasMax_NoRetry(t) ==
  /\ Goto(t, "CasMax", "Idle")
  /\ max' = IF max = seen[t] THEN value[t] ELSE max
  /\ done' = done \cup {value[t]}
  /\ UNCHANGED <<sum, count, min, locals, scrape, begun, records>>

\* compare_exchange_weak on max_.
CasMax(t) ==
  \/ /\ max = seen[t]
     /\ Goto(t, "CasMax", "Idle")
     /\ max' = value[t]
     /\ done' = done \cup {value[t]}
     /\ UNCHANGED <<sum, count, min, locals, scrape, begun, records>>
  \/ /\ max # seen[t]
     /\ seen' = [seen EXCEPT ![t] = max]
     /\ \/ value[t] > max  /\ Goto(t, "CasMax", "CasMax") /\ UNCHANGED done
        \/ value[t] <= max /\ Goto(t, "CasMax", "Idle") /\ done' = done \cup {value[t]}
     /\ UNCHANGED <<fields, value, scrape, begun, records>>

-----------------------------------------------------------------------------
\* to_prometheus_format reads sum_, count_, min_ and max_ in this order.
ScrapeSum ==
  /\ spc = "Idle" /\ spc' = "Count"
  /\ scraped' = [scraped EXCEPT !.sum = sum]
  /\ before' = done
  /\ UNCHANGED <<fields, pc, locals, history>>

ScrapeCount ==
  /\ spc = "Count" /\ spc' = "Min"
  /\ scraped' = [scraped EXCEPT !.count = count]
  /\ UNCHANGED <<fields, pc, locals, before, history>>

ScrapeMin ==
  /\ spc = "Min" /\ spc' = "Max"
  /\ scraped' = [scraped EXCEPT !.min = GetMin]
  /\ UNCHANGED <<fields, pc, locals, before, history>>

\* Faulty variant: the wrong getter.
ScrapeMax_Swapped ==
  /\ spc = "Max" /\ spc' = "Idle"
  /\ scraped' = [scraped EXCEPT !.max = GetMin]
  /\ UNCHANGED <<fields, pc, locals, before, history>>

ScrapeMax ==
  /\ spc = "Max" /\ spc' = "Idle"
  /\ scraped' = [scraped EXCEPT !.max = GetMax]
  /\ UNCHANGED <<fields, pc, locals, before, history>>

Step(t) ==
  AddCount(t) \/ LoadMin(t) \/ CasMin(t) \/ LoadMax(t) \/ CasMax(t)

Scrape == ScrapeSum \/ ScrapeCount \/ ScrapeMin \/ ScrapeMax

Next ==
  \/ Scrape
  \/ \E t \in Threads : Step(t) \/ \E v \in Values : Record(t, v)

Spec == Init /\ [][Next]_vars

-----------------------------------------------------------------------------
\* Types; what is exported is never one of the limits of the fields.
TypeOK ==
  /\ sum \in Nat /\ count \in Nat
  /\ min \in Values \cup {INT64_MAX} /\ max \in Values \cup {INT64_MIN}
  /\ pc \in [Threads -> Locations]
  /\ value \in [Threads -> Nat] /\ seen \in [Threads -> Int]
  /\ spc \in {"Idle", "Count", "Min", "Max"}
  /\ scraped \in [sum : Nat, count : Nat, min : Values \cup {0}, max : Values \cup {0}]
  /\ before \subseteq Values /\ begun \subseteq Values /\ done \subseteq Values
  /\ records \in Nat

(***************************************************************************)
(* No extreme is lost to a race, and none is made up: min_ and max_ are    *)
(* values that were recorded, and cover every record that has returned     *)
(* (MetricsHistogram::record, rpc_metrics.cc:13-17).                       *)
(***************************************************************************)
Extremes ==
  /\ \A v \in done : min <= v /\ v <= max
  /\ min # INT64_MAX => min \in begun
  /\ max # INT64_MIN => max \in begun

(***************************************************************************)
(* A scrape shows at least what had been recorded when it began, although  *)
(* it reads the fields one by one while others record                      *)
(* (to_prometheus_format, rpc_metrics.cc:108-111).                         *)
(***************************************************************************)
ScrapeCovers ==
  /\ spc \in {"Max", "Idle"} => \A v \in before : scraped.min <= v
  /\ spc = "Idle" => \A v \in before : v <= scraped.max

(***************************************************************************)
(* The extremes only ever move outwards (rpc_metrics.cc:14, 17).           *)
(***************************************************************************)
ExtremesWiden == [][min' <= min /\ max' >= max]_vars
=============================================================================
