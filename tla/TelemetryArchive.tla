-------------------------- MODULE TelemetryArchive --------------------------
(***************************************************************************)
(* The telemetry file of history.py and the panel of ui_history.py that    *)
(* reads it.  A record is appended with one write, the file is compacted   *)
(* by loading it and replacing it, and neither step is atomic with the     *)
(* bookkeeping in memory: a write can stop part-way, the process can be    *)
(* killed between two steps, and the clock can be set back.                *)
(*                                                                         *)
(* The file is the set of its whole lines and what is at its end; lines    *)
(* that no record can be read from are skipped by every reader and are     *)
(* left out, unless they make the file undecodable.  A record is its kind  *)
(* and its time.  Sizes are counted in records.                            *)
(***************************************************************************)
EXTENDS Integers, FiniteSets, Sequences

CONSTANTS
  NoTime,       \* None for a time
  Interval,     \* ARCHIVE_SAMPLE_INTERVAL_SECONDS
  Day,          \* DAY_SECONDS
  Retention,    \* DEFAULT_ARCHIVE_SECONDS
  Windows,      \* HISTORY_WINDOWS
  Budget,       \* the records that fit in MAX_ARCHIVE_BYTES
  LastTime,     \* bound: the clock
  EventTimes,   \* bound: when something happens that is recorded as an event
  MaxFaults     \* bound: writes that fail, kills and clocks set back

\* The last conjunct: what no view shows any more is not too recent to be followed
\* by another sample (half a minute against views of minutes and a week kept).
ASSUME ArchiveAssumption ==
  /\ Interval \in Nat \ {0} /\ Day \in Nat \ {0} /\ Retention \in Nat \ {0}
  /\ Windows \subseteq Nat \ {0} /\ Windows # {}
  /\ Budget \in Nat \ {0}
  /\ EventTimes \subseteq Nat
  /\ LastTime \in Nat /\ MaxFaults \in Nat
  /\ NoTime \notin Int
  /\ \A age \in Windows \cup {Retention} : Interval <= age + 1

VARIABLES
  clock,           \* time.time()
  file,            \* telemetry.jsonl
  lastSample,      \* _last_sample_timestamp
  lastCompaction,  \* _last_compaction_timestamp
  window,          \* the view chosen, _max_age_seconds of the history
  view,            \* the samples of the history, oldest arrival first
  acked,           \* records reported as saved that retention still keeps
  torn,            \* writes that ended part-way
  spoilt,          \* one of them ended inside a character
  faults,          \* failed writes, kills and clocks set back so far
  setBack          \* the clock has been set back

archiveVars == <<clock, file, lastSample, lastCompaction, window, view, acked,
                 torn, spoilt, faults, setBack>>

Times == 0..LastTime
Records == [time : Times, kind : {"sample", "event"}]

\* open: the last line has no newline; bare: the whole record it holds, if it
\* does; legible: the file decodes as UTF-8.
ArchiveFiles == [lines : SUBSET Records, bare : SUBSET Records, open : BOOLEAN, legible : BOOLEAN]
Sealed(records) == [lines |-> records, bare |-> {}, open |-> FALSE, legible |-> TRUE]
NoFile == Sealed({})

ShortWindow == CHOOSE w \in Windows : \A o \in Windows : w <= o

ArchiveTypeOK ==
  /\ clock \in Times
  /\ file \in ArchiveFiles
  /\ lastSample \in Times \cup {NoTime}
  /\ lastCompaction \in Times \cup {NoTime}
  /\ window \in Windows
  /\ view \in Seq(Times)
  /\ acked \subseteq Records
  /\ torn \in 0..MaxFaults /\ spoilt \in BOOLEAN
  /\ faults \in 0..MaxFaults
  /\ setBack \in BOOLEAN

-----------------------------------------------------------------------------
(* Reading *)

Readable(f) == IF f.legible THEN f.lines \cup f.bare ELSE {}
Within(records, age, now) == {r \in records : now - age <= r.time /\ r.time <= now + Day}
Load(f, age, now) == Within(Readable(f), age, now)

SampleTimes(records) == {r.time : r \in {q \in records : q.kind = "sample"}}
Latest(times) == CHOOSE t \in times : \A o \in times : o <= t

\* Slips: loading does not count as sampling; the next sample's time is kept.
LastLoaded_Ignored(records, last) == last
LastLoaded_Next(records, last) ==
  IF SampleTimes(records) = {} THEN last ELSE Latest(SampleTimes(records)) + Interval

\* load also moves the time of the last sample.
LastLoaded(records, last) ==
  IF SampleTimes(records) = {} THEN last ELSE Latest(SampleTimes(records))

-----------------------------------------------------------------------------
(* Writing *)

\* A record after an unterminated line continues it, and both are lost.
Added(f, r) ==
  IF f.open
  THEN [f EXCEPT !.bare = {}, !.open = FALSE]
  ELSE [f EXCEPT !.lines = @ \cup {r}]

\* What a write can leave that stops before the newline.  Only the labels of
\* events hold characters of several bytes.
Cut(f, r) ==
  { [f EXCEPT !.bare = {}, !.open = TRUE],
    [f EXCEPT !.bare = IF f.open THEN {} ELSE {r}, !.open = TRUE] }
Split(f, r) ==
  {g \in {[f EXCEPT !.bare = {}, !.open = TRUE, !.legible = FALSE]} : r.kind = "event"}

\* The size budget drops the oldest; at one time the samples come first.
Older(r, q) == r.time < q.time \/ (r.time = q.time /\ r.kind = "sample" /\ q.kind = "event")
Newest(records) ==
  {r \in records : Cardinality({q \in records : Older(r, q)}) < Budget}

\* Slip: a compaction keeps what a view of one day shows.
Compacted_OneDay(f, now) == Sealed(Newest(Load(f, Day, now)))
Compacted(f, now) == Sealed(Newest(Load(f, Retention, now)))

CompactionDue(f) ==
  lastCompaction # NoTime =>
    clock - lastCompaction >= Day /\ Cardinality(f.lines \cup f.bare) > Budget

Fails == faults < MaxFaults /\ faults' = faults + 1

\* What retention and the budget leave of the records reported as saved.
Retained(f, records) ==
  records \cap Newest(Within(Readable(f) \cup records, Retention, clock))

Written(r) ==
  LET f == Added(file, r)
      sampled == IF r.kind = "sample" THEN r.time ELSE lastSample
      loaded == LastLoaded(Load(f, Retention, clock), sampled)
  IN  \/ /\ ~CompactionDue(f)
         /\ file' = f /\ lastSample' = sampled /\ acked' = acked \cup {r}
         /\ UNCHANGED <<lastCompaction, faults>>
      \/ /\ CompactionDue(f)
         /\ file' = Compacted(f, clock) /\ lastSample' = loaded
         /\ lastCompaction' = clock
         /\ acked' = Retained(f, acked \cup {r})
         /\ UNCHANGED faults
      \/ /\ CompactionDue(f) /\ Fails
         /\ file' = f /\ lastSample' = loaded
         /\ UNCHANGED <<lastCompaction, acked>>

TornOff(r) ==
  /\ torn' = torn + 1
  /\ \/ file' \in Cut(file, r) /\ UNCHANGED spoilt
     \/ file' \in Split(file, r) /\ spoilt' = TRUE

\* _append_record, the bookkeeping and _compact_if_needed.
Record(r) ==
  \/ Written(r) /\ UNCHANGED <<torn, spoilt>>
  \/ /\ Fails
     /\ TornOff(r) \/ UNCHANGED <<file, torn, spoilt>>
     /\ UNCHANGED <<lastSample, lastCompaction, acked>>

-----------------------------------------------------------------------------
(* The panel *)

\* Slip: nothing leaves the history of a view.
Pruned_Kept(samples, oldest) == samples

\* _prune stops at the first sample that is young enough.
Pruned(samples, oldest) ==
  LET first == CHOOSE i \in 1..(Len(samples) + 1) :
                 /\ i \in DOMAIN samples => samples[i] >= oldest
                 /\ \A j \in 1..(i - 1) : samples[j] < oldest
  IN  SubSeq(samples, first, Len(samples))

InOrder(times) ==
  CHOOSE s \in [1..Cardinality(times) -> times] :
    \A i, j \in 1..Cardinality(times) : i < j => s[i] < s[j]

\* load and replace.
Shown(records, age) ==
  IF records = {} THEN <<>>
  ELSE Pruned(InOrder(SampleTimes(records)), Latest({r.time : r \in records}) - age)

Sample == [time |-> clock, kind |-> "sample"]
Event == [time |-> clock, kind |-> "event"]

Waiting == lastSample # NoTime /\ clock - lastSample < Interval

\* A status with readings arrives; the model takes one per unit of time.
UpdateStatus ==
  /\ \A i \in DOMAIN view : view[i] # clock
  /\ view' = Pruned(Append(view, clock), clock - window)
  /\ IF Waiting
     THEN UNCHANGED <<file, lastSample, lastCompaction, acked, torn, spoilt, faults>>
     ELSE Record(Sample)
  /\ UNCHANGED <<clock, window, setBack>>

\* A change of the machine or an alert; again one per unit of time.
RecordEvent ==
  /\ clock \in EventTimes
  /\ Event \notin file.lines \cup file.bare
  /\ view' = Pruned(view, clock - window)
  /\ Record(Event)
  /\ UNCHANGED <<clock, window, setBack>>

ChangeWindow(w) ==
  /\ w # window
  /\ window' = w
  /\ view' = Shown(Load(file, w, clock), w)
  /\ lastSample' = LastLoaded(Load(file, w, clock), lastSample)
  /\ UNCHANGED <<clock, file, lastCompaction, acked, torn, spoilt, faults, setBack>>

\* load moves the time of the last sample here too.
ExportCsv ==
  /\ lastSample' = LastLoaded(Load(file, Retention, clock), lastSample)
  /\ UNCHANGED <<clock, file, lastCompaction, window, view, acked, torn, spoilt, faults,
                 setBack>>

Started(f) ==
  /\ window' = ShortWindow
  /\ view' = Shown(Load(f, ShortWindow, clock), ShortWindow)
  /\ lastSample' = LastLoaded(Load(f, ShortWindow, clock), NoTime)
  /\ lastCompaction' = NoTime

Restart ==
  /\ Started(file)
  /\ UNCHANGED <<clock, file, acked, torn, spoilt, faults, setBack>>

\* Killed while it appends: the record is written, or part of it is.
KilledWriting(r) ==
  /\ Fails
  /\ IF r = Sample THEN ~Waiting ELSE clock \in EventTimes
  /\ \/ file' = Added(file, r) /\ UNCHANGED <<torn, spoilt>>
     \/ TornOff(r)
  /\ Started(file')
  /\ UNCHANGED <<clock, acked, setBack>>

ClockTicks ==
  /\ clock < LastTime
  /\ clock' = clock + 1
  /\ UNCHANGED <<file, lastSample, lastCompaction, window, view, acked, torn, spoilt,
                 faults, setBack>>

ClockSetBack ==
  /\ Fails
  /\ setBack' = TRUE
  /\ \E t \in Times : t < clock /\ clock' = t
  /\ UNCHANGED <<file, lastSample, lastCompaction, window, view, acked, torn, spoilt>>

ArchiveInit ==
  /\ clock = 0
  /\ file = NoFile
  /\ lastSample = NoTime /\ lastCompaction = NoTime
  /\ window = ShortWindow /\ view = <<>>
  /\ acked = {}
  /\ torn = 0 /\ spoilt = FALSE
  /\ faults = 0 /\ setBack = FALSE

ArchiveNext ==
  \/ UpdateStatus
  \/ RecordEvent
  \/ \E w \in Windows : ChangeWindow(w)
  \/ ExportCsv
  \/ Restart
  \/ \E r \in {Sample, Event} : KilledWriting(r)
  \/ ClockTicks
  \/ ClockSetBack

ArchiveSpec == ArchiveInit /\ [][ArchiveNext]_archiveVars

-----------------------------------------------------------------------------

\* What was reported as saved is kept through compactions, restarts, kills and
\* a wrong clock, until it is too old or the budget is spent on newer records.
\* A write that ends part-way costs at most one saved record more, the one
\* appended to what it left, unless it ends inside a character: then the whole
\* file is unreadable, and the next compaction replaces it by what load
\* returns for such a file, nothing.
TearCostsOne ==
  ~spoilt => Cardinality(acked \ Readable(file)) <= torn

\* The file does not wear the disk: with a steady clock no two samples in it
\* are closer than the interval, across restarts, views and failed writes.
SamplesSpaced ==
  (~setBack /\ ~spoilt) =>
    \A s, t \in SampleTimes(Readable(file)) : s < t => t - s >= Interval

\* The graph shows what the file has: with a steady clock, the view holds
\* every readable sample of the chosen window, and spans no more than it.
ViewComplete ==
  ~setBack =>
    LET held == {view[i] : i \in DOMAIN view}
    IN  /\ \A s, t \in held : t - s <= window
        /\ {t \in SampleTimes(Readable(file)) : clock - window <= t} \subseteq held
=============================================================================
