--------------------------- MODULE DesktopProofs ---------------------------
(***************************************************************************)
(* Theorems about the telemetry archive, the alerts, the rules of the      *)
(* power source, the language, the package's scripts and the Doctor, for   *)
(* every value of their constants.  The telemetry's are the ones that      *)
(* count: TearCostsOne is proved by charging every saved record that a     *)
(* torn line swallows to the write that tore it.  At the end the theorems  *)
(* of all the parts are carried over to the specification that composes    *)
(* them.                                                                   *)
(***************************************************************************)
EXTENDS MCDesktop, PowerWritesProofs, StoreProofs, KeyboardReportsProofs,
        FiniteSetTheorems, SequenceTheorems, WellFoundedInduction, TLAPS

-----------------------------------------------------------------------------
(* The telemetry archive *)

\* What the torn writes may have cost: the saved records that are not whole
\* lines, and the next one to be appended to an unterminated line.
Debt(records, f) == Cardinality(records \ f.lines) + (IF f.open THEN 1 ELSE 0)

Finite == IsFiniteSet(acked) /\ IsFiniteSet(file.lines) /\ IsFiniteSet(file.bare)

ArchiveInv ==
  /\ clock \in Times /\ file \in ArchiveFiles /\ torn \in Nat
  /\ Finite
  /\ ~spoilt => file.legible /\ Debt(acked, file) <= torn

\* Taking records away, or finding them in the file, does not raise the count.
LEMMA FewerLost ==
  ASSUME NEW S, NEW T, IsFiniteSet(T), S \subseteq T
  PROVE  IsFiniteSet(S) /\ Cardinality(S) \in Nat /\ Cardinality(T) \in Nat
         /\ Cardinality(S) <= Cardinality(T)
BY FS_Subset, FS_CardinalityType

\* The size budget keeps of a smaller set whatever it keeps of a larger one.
LEMMA BudgetMonotone ==
  ASSUME NEW S, NEW T, IsFiniteSet(T), S \subseteq T, NEW r \in S, r \in Newest(T)
  PROVE  r \in Newest(S)
<1>1. {q \in S : Older(r, q)} \subseteq {q \in T : Older(r, q)}
  OBVIOUS
<1>2. IsFiniteSet({q \in T : Older(r, q)})
  BY FS_Subset
<1>3. Cardinality({q \in T : Older(r, q)}) < Budget
  BY DEF Newest
<1>4. /\ Cardinality({q \in S : Older(r, q)}) \in Nat
      /\ Cardinality({q \in T : Older(r, q)}) \in Nat
      /\ Cardinality({q \in S : Older(r, q)}) <= Cardinality({q \in T : Older(r, q)})
  BY <1>1, <1>2, FewerLost
<1>5. Cardinality({q \in S : Older(r, q)}) < Budget
  BY <1>3, <1>4, ArchiveAssumption
<1> QED
  BY <1>5 DEF Newest

\* An append that ends well leaves a file of the same kind, and costs the
\* record only where the line before it is unterminated.
LEMMA AddedPays ==
  ASSUME ArchiveInv, NEW r \in Records
  PROVE  /\ Added(file, r) \in ArchiveFiles
         /\ IsFiniteSet(Added(file, r).lines) /\ IsFiniteSet(Added(file, r).bare)
         /\ ~Added(file, r).open
         /\ Added(file, r).legible = file.legible
         /\ Debt(acked \cup {r}, Added(file, r)) <= Debt(acked, file)
         /\ Debt(acked, Added(file, r)) <= Debt(acked, file)
<1> DEFINE g == Added(file, r)
<1>1. /\ file.lines \in SUBSET Records /\ file.bare \in SUBSET Records
      /\ file.open \in BOOLEAN /\ file.legible \in BOOLEAN
  BY DEF ArchiveInv, ArchiveFiles
<1>2. CASE file.open
  <2>1. /\ g \in ArchiveFiles
        /\ g.lines = file.lines /\ g.bare = {} /\ ~g.open /\ g.legible = file.legible
    BY <1>1, <1>2 DEF ArchiveInv, ArchiveFiles, Added
  <2>2. IsFiniteSet(acked \ file.lines) /\ IsFiniteSet(acked)
    BY FewerLost DEF ArchiveInv, Finite
  <2>3. /\ IsFiniteSet((acked \ file.lines) \cup {r})
        /\ Cardinality(acked \ file.lines) \in Nat
        /\ Cardinality((acked \ file.lines) \cup {r}) <= Cardinality(acked \ file.lines) + 1
    <3> DEFINE lost == acked \ file.lines
    <3>1. IsFiniteSet(lost) /\ Cardinality(lost) \in Nat
      BY <2>2, FS_CardinalityType
    <3>2. /\ IsFiniteSet(lost \cup {r})
          /\ Cardinality(lost \cup {r}) =
               IF r \in lost THEN Cardinality(lost) ELSE Cardinality(lost) + 1
      BY ONLY <3>1, FS_AddElement
    <3> HIDE DEF lost
    <3>3. Cardinality(lost \cup {r}) <= Cardinality(lost) + 1
      BY <3>1, <3>2
    <3> QED
      BY <3>1, <3>2, <3>3 DEF lost
  <2>4. ((acked \cup {r}) \ file.lines) \subseteq ((acked \ file.lines) \cup {r})
    OBVIOUS
  <2>5. /\ Cardinality((acked \cup {r}) \ file.lines) \in Nat
        /\ Cardinality((acked \ file.lines) \cup {r}) \in Nat
        /\ Cardinality((acked \cup {r}) \ file.lines) <= Cardinality((acked \ file.lines) \cup {r})
    BY <2>3, <2>4, FewerLost
  <2>6. Debt(acked \cup {r}, g) <= Debt(acked, file) /\ Debt(acked, g) <= Debt(acked, file)
    BY <1>2, <2>1, <2>3, <2>5 DEF Debt
  <2>7. IsFiniteSet(g.lines) /\ IsFiniteSet(g.bare)
    BY <2>1, FS_EmptySet DEF ArchiveInv, Finite
  <2> QED
    BY <2>1, <2>6, <2>7
<1>3. CASE ~file.open
  <2>1. /\ g \in ArchiveFiles
        /\ g.lines = file.lines \cup {r} /\ g.bare = file.bare /\ g.open = file.open
        /\ g.legible = file.legible
    BY <1>1, <1>3 DEF ArchiveInv, ArchiveFiles, Added
  <2>2. IsFiniteSet(acked \ file.lines)
    BY FewerLost DEF ArchiveInv, Finite
  <2>3. ((acked \cup {r}) \ g.lines) \subseteq (acked \ file.lines)
        /\ (acked \ g.lines) \subseteq (acked \ file.lines)
    BY <2>1
  <2>4. /\ Cardinality((acked \cup {r}) \ g.lines) \in Nat /\ Cardinality(acked \ g.lines) \in Nat
        /\ Cardinality(acked \ file.lines) \in Nat
        /\ Cardinality((acked \cup {r}) \ g.lines) <= Cardinality(acked \ file.lines)
        /\ Cardinality(acked \ g.lines) <= Cardinality(acked \ file.lines)
    BY <2>2, <2>3, FewerLost
  <2>5. Debt(acked \cup {r}, g) <= Debt(acked, file) /\ Debt(acked, g) <= Debt(acked, file)
    BY <1>3, <2>1, <2>4 DEF Debt
  <2>6. IsFiniteSet(g.lines) /\ IsFiniteSet(g.bare)
    BY <2>1, FS_AddElement DEF ArchiveInv, Finite
  <2> QED
    BY <1>3, <2>1, <2>5, <2>6
<1> QED
  BY <1>2, <1>3

\* A compaction loses nothing that retention and the budget keep: of a file
\* that decodes, it writes every readable record they keep (compact).
LEMMA CompactionPays ==
  ASSUME NEW f \in ArchiveFiles, NEW records,
         IsFiniteSet(records), IsFiniteSet(f.lines), IsFiniteSet(f.bare)
  PROVE  /\ Compacted(f, clock) \in ArchiveFiles
         /\ IsFiniteSet(Compacted(f, clock).lines) /\ IsFiniteSet(Compacted(f, clock).bare)
         /\ Compacted(f, clock).legible
         /\ IsFiniteSet(Retained(f, records))
         /\ f.legible => Debt(Retained(f, records), Compacted(f, clock)) <= Debt(records, f)
<1> DEFINE g == Compacted(f, clock)
           kept == Retained(f, records)
           near == Within(Readable(f), Retention, clock)
           all == Within(Readable(f) \cup records, Retention, clock)
<1>1. /\ f.lines \in SUBSET Records /\ f.bare \in SUBSET Records
      /\ f.open \in BOOLEAN /\ f.legible \in BOOLEAN
  BY DEF ArchiveFiles
<1>2. g.lines = Newest(near) /\ g.bare = {} /\ g.open = FALSE /\ g.legible = TRUE
  BY DEF Compacted, Sealed, Load
<1>3. near \subseteq Readable(f) /\ Newest(near) \subseteq near /\ Readable(f) \subseteq Records
  BY <1>1 DEF Within, Newest, Readable
<1>4. g \in ArchiveFiles
  BY <1>3 DEF Compacted, Sealed, Load, ArchiveFiles
<1>5. IsFiniteSet(Readable(f)) /\ IsFiniteSet(Readable(f) \cup records)
  <2>1. IsFiniteSet(f.lines \cup f.bare) /\ IsFiniteSet({})
    BY FS_Union, FS_EmptySet
  <2>2. IsFiniteSet(Readable(f))
    BY <2>1 DEF Readable
  <2> QED
    BY <2>2, FS_Union
<1>6. IsFiniteSet(g.lines) /\ IsFiniteSet(g.bare)
  <2>1. g.lines \subseteq Readable(f)
    BY <1>2, <1>3
  <2> QED
    BY <1>2, <1>5, <2>1, FewerLost, FS_EmptySet
<1>7. kept \subseteq records /\ IsFiniteSet(kept)
  <2>1. kept \subseteq records
    BY DEF Retained
  <2> QED
    BY <2>1, FewerLost
<1>8. ASSUME f.legible PROVE Debt(kept, g) <= Debt(records, f)
  <2>1. ASSUME NEW r \in kept \ g.lines PROVE r \in records \ f.lines
    <3>1. r \in records /\ r \in Newest(all)
      BY DEF Retained
    <3>2. r \in all
      BY <3>1 DEF Newest
    <3>3. ASSUME r \in f.lines PROVE FALSE
      <4>1. r \in Readable(f)
        BY <1>8, <3>3 DEF Readable
      <4>2. r \in near
        BY <3>2, <4>1 DEF Within
      <4>3. near \subseteq all /\ all \subseteq Readable(f) \cup records
        BY DEF Within
      <4>4. IsFiniteSet(all)
        BY <1>5, <4>3, FewerLost
      <4>5. r \in Newest(near)
        BY <3>1, <4>2, <4>3, <4>4, BudgetMonotone
      <4> QED
        BY <1>2, <2>1, <4>5
    <3> QED
      BY <3>1, <3>3
  <2>2. kept \ g.lines \subseteq records \ f.lines /\ IsFiniteSet(records \ f.lines)
    <3>1. kept \ g.lines \subseteq records \ f.lines
      BY <2>1
    <3>2. records \ f.lines \subseteq records
      OBVIOUS
    <3> QED
      BY <3>1, <3>2, FewerLost
  <2>3. /\ Cardinality(kept \ g.lines) \in Nat /\ Cardinality(records \ f.lines) \in Nat
        /\ Cardinality(kept \ g.lines) <= Cardinality(records \ f.lines)
    BY <2>2, FewerLost
  <2> QED
    BY <1>1, <1>2, <2>3 DEF Debt
<1> QED
  BY <1>2, <1>4, <1>6, <1>7, <1>8

\* What a write leaves that stops part-way.
LEMMA TornShape ==
  ASSUME file \in ArchiveFiles, NEW r \in Records, TornOff(r)
  PROVE  /\ file' \in ArchiveFiles /\ file'.lines = file.lines
         /\ file'.bare \in {{}, {r}} /\ file'.open = TRUE
         /\ ~spoilt' => ~spoilt /\ file'.legible = file.legible
<1>1. /\ file.lines \in SUBSET Records /\ file.bare \in SUBSET Records
      /\ file.open \in BOOLEAN /\ file.legible \in BOOLEAN
  BY DEF ArchiveFiles
<1> SUFFICES ASSUME NEW h, h = file'
             PROVE  /\ h \in ArchiveFiles /\ h.lines = file.lines
                    /\ h.bare \in {{}, {r}} /\ h.open = TRUE
                    /\ ~spoilt' => ~spoilt /\ h.legible = file.legible
  OBVIOUS
<1>2. file \in ArchiveFiles /\ {r} \in SUBSET Records
  OBVIOUS
<1>3. CASE file' \in Cut(file, r) /\ UNCHANGED spoilt
  <2>1. PICK b \in {{}, {r}} : h = [file EXCEPT !.bare = b, !.open = TRUE]
    BY <1>3 DEF Cut
  <2> QED
    BY <1>1, <1>2, <1>3, <2>1 DEF ArchiveFiles
<1>4. CASE file' \in Split(file, r) /\ spoilt' = TRUE
  <2>1. h = [file EXCEPT !.bare = {}, !.open = TRUE, !.legible = FALSE]
    BY <1>4 DEF Split
  <2> QED
    BY <1>1, <1>2, <1>4, <2>1 DEF ArchiveFiles
<1> QED
  BY <1>3, <1>4 DEF TornOff

\* What a write leaves that stops part-way is paid for by counting it as torn.
LEMMA TornPays ==
  ASSUME ArchiveInv, NEW r \in Records, TornOff(r)
  PROVE  /\ file' \in ArchiveFiles /\ torn' \in Nat
         /\ IsFiniteSet(file'.lines) /\ IsFiniteSet(file'.bare)
         /\ ~spoilt' => ~spoilt /\ file'.legible = file.legible
         /\ Debt(acked, file') <= Debt(acked, file) + 1
         /\ torn' = torn + 1
<1>1. /\ file.lines \in SUBSET Records /\ file.bare \in SUBSET Records
      /\ file.open \in BOOLEAN /\ file.legible \in BOOLEAN
  BY DEF ArchiveInv, ArchiveFiles
<1>2. torn' = torn + 1 /\ torn' \in Nat
  BY DEF TornOff, ArchiveInv
<1>3. /\ file' \in ArchiveFiles /\ file'.lines = file.lines
      /\ file'.bare \in {{}, {r}} /\ file'.open = TRUE
      /\ ~spoilt' => ~spoilt /\ file'.legible = file.legible
  BY TornShape DEF ArchiveInv
<1>4. IsFiniteSet(file'.lines) /\ IsFiniteSet(file'.bare)
  <2>1. IsFiniteSet({}) /\ IsFiniteSet({r})
    BY FS_EmptySet, FS_Singleton
  <2>2. IsFiniteSet(file.lines)
    BY DEF ArchiveInv, Finite
  <2>3. file'.bare = {} \/ file'.bare = {r}
    BY <1>3
  <2> QED
    BY <1>3, <2>1, <2>2, <2>3
<1>5. Cardinality(acked \ file.lines) \in Nat
  <2>1. acked \ file.lines \subseteq acked
    OBVIOUS
  <2> QED
    BY <2>1, FewerLost DEF ArchiveInv, Finite
<1>6. Debt(acked, file') <= Debt(acked, file) + 1
  BY <1>1, <1>3, <1>5 DEF Debt
<1> QED
  BY <1>2, <1>3, <1>4, <1>6

LEMMA DebtType ==
  ASSUME NEW f, NEW records, IsFiniteSet(records)
  PROVE  Debt(records, f) \in Nat
<1>1. records \ f.lines \subseteq records
  OBVIOUS
<1>2. Cardinality(records \ f.lines) \in Nat
  BY <1>1, FewerLost
<1> QED
  BY <1>2 DEF Debt

\* An append, with the compaction that may follow it (append, append_event).
LEMMA RecordInv ==
  ASSUME ArchiveInv, NEW r \in Records, Record(r), UNCHANGED clock
  PROVE  ArchiveInv'
<1> DEFINE g == Added(file, r)
           all == acked \cup {r}
<1>1. /\ g \in ArchiveFiles /\ IsFiniteSet(g.lines) /\ IsFiniteSet(g.bare) /\ ~g.open
      /\ g.legible = file.legible
      /\ Debt(all, g) <= Debt(acked, file) /\ Debt(acked, g) <= Debt(acked, file)
  BY AddedPays
<1>2. IsFiniteSet(all) /\ IsFiniteSet(acked)
  BY FS_AddElement DEF ArchiveInv, Finite
<1>3. /\ Debt(all, g) \in Nat /\ Debt(acked, g) \in Nat /\ Debt(acked, file) \in Nat
  BY <1>2, DebtType
<1>4. clock' \in Times
  BY DEF ArchiveInv
<1> HIDE DEF g, all
<1>5. CASE Written(r) /\ UNCHANGED <<torn, spoilt>>
  <2>1. torn' \in Nat
    BY <1>5 DEF ArchiveInv
  <2>2. CASE file' = g /\ acked' = all
    BY <1>1, <1>2, <1>3, <1>4, <1>5, <2>1, <2>2 DEF ArchiveInv, Finite
  <2>3. CASE file' = g /\ acked' = acked
    BY <1>1, <1>2, <1>3, <1>4, <1>5, <2>1, <2>3 DEF ArchiveInv, Finite
  <2>4. CASE file' = Compacted(g, clock) /\ acked' = Retained(g, all)
    <3>1. /\ file' \in ArchiveFiles /\ IsFiniteSet(file'.lines) /\ IsFiniteSet(file'.bare)
          /\ file'.legible /\ IsFiniteSet(acked')
          /\ g.legible => Debt(acked', file') <= Debt(all, g)
      BY <1>1, <1>2, <2>4, CompactionPays
    <3>2. Debt(acked', file') \in Nat
      BY <3>1, DebtType
    <3>3. ~spoilt' => Debt(acked', file') <= torn'
      BY <1>1, <1>3, <1>5, <3>1, <3>2 DEF ArchiveInv
    <3>4. Debt(acked', file') = Debt(acked, file)'
      BY DEF Debt
    <3> QED
      BY <1>4, <2>1, <3>1, <3>3, <3>4 DEF ArchiveInv, Finite
  <2>5. \/ file' = g /\ acked' = all
        \/ file' = g /\ acked' = acked
        \/ file' = Compacted(g, clock) /\ acked' = Retained(g, all)
    BY <1>5 DEF Written, g, all
  <2> QED
    BY <2>2, <2>3, <2>4, <2>5
<1>6. CASE TornOff(r) /\ UNCHANGED acked
  <2>1. /\ file' \in ArchiveFiles /\ torn' \in Nat
        /\ IsFiniteSet(file'.lines) /\ IsFiniteSet(file'.bare)
        /\ ~spoilt' => ~spoilt /\ file'.legible = file.legible
        /\ Debt(acked, file') <= Debt(acked, file) + 1
        /\ torn' = torn + 1
    BY <1>6, TornPays
  <2>2. Debt(acked, file') \in Nat /\ Debt(acked', file') = Debt(acked, file')
    BY <1>2, <1>6, DebtType
  <2>3. ~spoilt' => file'.legible /\ Debt(acked', file') <= torn'
    BY <1>3, <2>1, <2>2 DEF ArchiveInv
  <2>4. Debt(acked', file') = Debt(acked, file)'
    BY DEF Debt
  <2> QED
    BY <1>2, <1>4, <1>6, <2>1, <2>3, <2>4 DEF ArchiveInv, Finite
<1>7. CASE UNCHANGED <<file, torn, spoilt, acked>>
  BY <1>4, <1>7 DEF ArchiveInv, Finite, Debt
<1> QED
  BY <1>5, <1>6, <1>7 DEF Record

LEMMA KilledWritingInv ==
  ASSUME ArchiveInv, NEW r \in Records, KilledWriting(r)
  PROVE  ArchiveInv'
<1> DEFINE g == Added(file, r)
<1>1. /\ g \in ArchiveFiles /\ IsFiniteSet(g.lines) /\ IsFiniteSet(g.bare)
      /\ g.legible = file.legible /\ Debt(acked, g) <= Debt(acked, file)
  BY AddedPays
<1>2. IsFiniteSet(acked) /\ Debt(acked, g) \in Nat /\ Debt(acked, file) \in Nat
  BY DebtType DEF ArchiveInv, Finite
<1>3. clock' \in Times /\ acked' = acked
  BY DEF ArchiveInv, KilledWriting
<1> HIDE DEF g
<1>4. CASE file' = g /\ UNCHANGED <<torn, spoilt>>
  BY <1>1, <1>2, <1>3, <1>4 DEF ArchiveInv, Finite
<1>5. CASE TornOff(r)
  <2>1. /\ file' \in ArchiveFiles /\ torn' \in Nat
        /\ IsFiniteSet(file'.lines) /\ IsFiniteSet(file'.bare)
        /\ ~spoilt' => ~spoilt /\ file'.legible = file.legible
        /\ Debt(acked, file') <= Debt(acked, file) + 1
        /\ torn' = torn + 1
    BY <1>5, TornPays
  <2>2. Debt(acked, file') \in Nat /\ Debt(acked', file') = Debt(acked, file')
    BY <1>2, <1>3, DebtType
  <2>3. ~spoilt' => file'.legible /\ Debt(acked', file') <= torn'
    BY <1>2, <2>1, <2>2 DEF ArchiveInv
  <2>4. Debt(acked', file') = Debt(acked, file)'
    BY DEF Debt
  <2> QED
    BY <1>2, <1>3, <2>1, <2>3, <2>4 DEF ArchiveInv, Finite
<1> QED
  BY <1>4, <1>5 DEF KilledWriting, g

\* A step that leaves the file and what is saved in it as they are.
LEMMA ArchiveKept ==
  ASSUME ArchiveInv, clock' \in Times, UNCHANGED <<file, acked, torn, spoilt>>
  PROVE  ArchiveInv'
BY DEF ArchiveInv, Finite, Debt

LEMMA ArchiveStep ==
  ASSUME ArchiveInv, [ArchiveNext]_archiveVars
  PROVE  ArchiveInv'
<1>1. clock \in Times
  BY DEF ArchiveInv
<1>2. Sample \in Records /\ Event \in Records
  BY <1>1 DEF Sample, Event, Records
<1>3. CASE UpdateStatus
  <2>1. CASE Record(Sample)
    BY <1>2, <1>3, <2>1, RecordInv DEF UpdateStatus
  <2>2. CASE UNCHANGED <<file, acked, torn, spoilt>>
    BY <1>1, <1>3, <2>2, ArchiveKept DEF UpdateStatus
  <2> QED
    BY <1>3, <2>1, <2>2 DEF UpdateStatus
<1>4. CASE RecordEvent
  BY <1>2, <1>4, RecordInv DEF RecordEvent
<1>5. CASE \E w \in Windows : ChangeWindow(w)
  BY <1>1, <1>5, ArchiveKept DEF ChangeWindow
<1>6. CASE ExportCsv
  BY <1>1, <1>6, ArchiveKept DEF ExportCsv
<1>7. CASE Restart
  BY <1>1, <1>7, ArchiveKept DEF Restart
<1>8. CASE \E r \in {Sample, Event} : KilledWriting(r)
  BY <1>2, <1>8, KilledWritingInv
<1>9. CASE ClockTicks
  <2>1. clock' \in Times
    BY <1>1, <1>9, ArchiveAssumption DEF ClockTicks, Times
  <2> QED
    BY <1>9, <2>1, ArchiveKept DEF ClockTicks
<1>10. CASE ClockSetBack
  BY <1>10, ArchiveKept DEF ClockSetBack
<1>11. CASE UNCHANGED archiveVars
  BY <1>1, <1>11, ArchiveKept DEF archiveVars
<1> QED
  BY <1>3, <1>4, <1>5, <1>6, <1>7, <1>8, <1>9, <1>10, <1>11 DEF ArchiveNext

LEMMA ArchiveStart == ArchiveInit => ArchiveInv
<1>1. ASSUME ArchiveInit PROVE ArchiveInv
  <2>1. acked = {} /\ file.lines = {} /\ file.bare = {} /\ file.open = FALSE
        /\ file.legible = TRUE /\ file \in ArchiveFiles /\ torn = 0 /\ clock \in Times
    BY <1>1, ArchiveAssumption DEF ArchiveInit, NoFile, Sealed, ArchiveFiles, Times
  <2>2. acked \ file.lines = {} /\ IsFiniteSet({}) /\ Cardinality({}) = 0
    BY <2>1, FS_EmptySet
  <2> QED
    BY <2>1, <2>2 DEF ArchiveInv, Finite, Debt
<1> QED
  BY <1>1

\* What was reported as saved and is not readable any more is at most one
\* record for each write that ended part-way, through any number of appends,
\* compactions, kills, restarts and corrections of the clock, unless one of
\* them ended inside a character (TelemetryArchive of history.py).
THEOREM TearsCostOneEach == ArchiveSpec => []TearCostsOne
<1>1. ArchiveInit => ArchiveInv
  BY ArchiveStart
<1>2. ArchiveInv => TearCostsOne
  <2>1. ASSUME ArchiveInv, ~spoilt PROVE Cardinality(acked \ Readable(file)) <= torn
    <3>1. acked \ Readable(file) \subseteq acked \ file.lines
          /\ acked \ file.lines \subseteq acked
      BY <2>1 DEF Readable, ArchiveInv
    <3>2. IsFiniteSet(acked \ file.lines)
      BY <2>1, <3>1, FewerLost DEF ArchiveInv, Finite
    <3>3. /\ Cardinality(acked \ Readable(file)) \in Nat /\ Cardinality(acked \ file.lines) \in Nat
          /\ Cardinality(acked \ Readable(file)) <= Cardinality(acked \ file.lines)
      BY <3>1, <3>2, FewerLost
    <3> QED
      BY <2>1, <3>3 DEF ArchiveInv, Debt
  <2> QED
    BY <2>1 DEF TearCostsOne
<1>3. ArchiveInv /\ [ArchiveNext]_archiveVars => ArchiveInv'
  BY ArchiveStep
<1> QED
  BY <1>1, <1>2, <1>3, PTL DEF ArchiveSpec

(* The spacing of the samples *)

\* A set of times that has a member has a latest one.
LEMMA LatestExists ==
  ASSUME NEW S, S \subseteq Times, S # {}
  PROVE  Latest(S) \in S /\ \A o \in S : o <= Latest(S)
<1> DEFINE D == {LastTime - t : t \in S}
<1>0. LastTime \in Nat
  BY ArchiveAssumption
<1>1. D \subseteq Nat /\ D # {}
  <2>1. PICK t \in S : TRUE
    OBVIOUS
  <2>2. \A o \in S : o \in 0..LastTime
    BY DEF Times
  <2>3. \A o \in S : LastTime - o \in Nat
    BY <1>0, <2>2
  <2>4. LastTime - t \in D
    OBVIOUS
  <2> QED
    BY <2>3, <2>4
<1>2. PICK x \in D : \A y \in D : x <= y
  BY <1>1, LeastExists
<1>3. PICK t \in S : x = LastTime - t
  OBVIOUS
<1>4. \A o \in S : o <= t
  <2> TAKE o \in S
  <2>1. x <= LastTime - o
    BY <1>2
  <2>2. o \in 0..LastTime /\ t \in 0..LastTime
    BY DEF Times
  <2> QED
    BY <1>0, <1>3, <2>1, <2>2
<1> QED
  BY <1>3, <1>4 DEF Latest

\* What is spaced, and stays so: the last sample a process knows of stands for
\* every line that is not yet old enough to be followed by another sample.
Spaced(f, now, last) ==
  /\ ~f.open => f.bare = {}
  /\ \A r \in f.lines \cup f.bare : r.time <= now
  /\ \A s \in SampleTimes(f.lines) : now - s >= Interval \/ (last # NoTime /\ s <= last)
  /\ \A s, t \in SampleTimes(f.lines \cup f.bare) : s < t => t - s >= Interval

SpacedInv ==
  /\ lastSample \in Times \cup {NoTime}
  /\ ~setBack /\ ~spoilt => Spaced(file, clock, lastSample)

LEMMA SampleTimesType ==
  ASSUME NEW records \in SUBSET Records
  PROVE  SampleTimes(records) \subseteq Times
BY DEF SampleTimes, Records

\* load leaves a time or none behind.
LEMMA LoadedType ==
  ASSUME NEW f \in ArchiveFiles, NEW age, NEW now, NEW last \in Times \cup {NoTime}
  PROVE  LastLoaded(Load(f, age, now), last) \in Times \cup {NoTime}
<1>1. Load(f, age, now) \in SUBSET Records
  BY DEF Load, Within, Readable, ArchiveFiles
<1>2. SampleTimes(Load(f, age, now)) \subseteq Times
  BY <1>1, SampleTimesType
<1> QED
  BY <1>2, LatestExists DEF LastLoaded

\* load finds the latest sample of any that could still be too recent.
LEMMA LoadSettles ==
  ASSUME NEW f \in ArchiveFiles, f.legible, NEW now \in Times, NEW age \in Windows \cup {Retention},
         NEW last, NEW other, Spaced(f, now, last)
  PROVE  Spaced(f, now, LastLoaded(Load(f, age, now), other))
<1> DEFINE new == LastLoaded(Load(f, age, now), other)
           loaded == SampleTimes(Load(f, age, now))
<1>1. Load(f, age, now) \in SUBSET Records
  BY DEF Load, Within, Readable, ArchiveFiles
<1>2. loaded \subseteq Times
  BY <1>1, SampleTimesType
<1>3. /\ Interval \in Nat /\ age \in Nat /\ Day \in Nat /\ Interval <= age + 1
      /\ NoTime \notin Int /\ now \in Nat
  BY ArchiveAssumption DEF Times
<1>4. ASSUME NEW s \in SampleTimes(f.lines)
      PROVE  now - s >= Interval \/ (new # NoTime /\ s <= new)
  <2>1. PICK r \in f.lines : r.kind = "sample" /\ r.time = s
    BY DEF SampleTimes
  <2>2. s \in Nat /\ s <= now /\ r \in Records
    BY <2>1 DEF ArchiveFiles, Records, Times, Spaced
  <2>3. CASE now - age <= s
    <3>1. s <= now + Day
      BY <1>3, <2>2
    <3>2. r \in Load(f, age, now)
      BY <2>1, <2>3, <3>1 DEF Load, Within, Readable
    <3>3. s \in loaded
      BY <2>1, <3>2 DEF SampleTimes
    <3>4. new = Latest(loaded) /\ Latest(loaded) \in Times /\ s <= Latest(loaded)
      BY <1>2, <3>3, LatestExists DEF LastLoaded
    <3> QED
      BY <1>3, <3>4 DEF Times
  <2>4. CASE ~(now - age <= s)
    BY <1>3, <2>2, <2>4
  <2> QED
    BY <2>3, <2>4
<1> HIDE DEF new
<1>5. Spaced(f, now, new)
  BY <1>4 DEF Spaced
<1> QED
  BY <1>5 DEF new

\* What an append that ends well does to a file.
LEMMA AddedShape ==
  ASSUME NEW f \in ArchiveFiles, NEW r \in Records
  PROVE  /\ Added(f, r) \in ArchiveFiles
         /\ Added(f, r).open = FALSE /\ Added(f, r).legible = f.legible
         /\ f.open => Added(f, r).lines = f.lines /\ Added(f, r).bare = {}
         /\ ~f.open => Added(f, r).lines = f.lines \cup {r} /\ Added(f, r).bare = f.bare
<1>1. f.lines \in SUBSET Records /\ f.bare \in SUBSET Records /\ f.open \in BOOLEAN
  BY DEF ArchiveFiles
<1>2. CASE f.open
  BY <1>1, <1>2 DEF Added, ArchiveFiles
<1>3. CASE ~f.open
  BY <1>1, <1>3 DEF Added, ArchiveFiles
<1> QED
  BY <1>2, <1>3

\* A file with fewer records in it is spaced as well.
LEMMA FewerSpaced ==
  ASSUME NEW f, NEW g, NEW now, NEW last, Spaced(f, now, last),
         g.lines \subseteq f.lines, g.bare \subseteq f.bare, ~g.open => g.bare = {}
  PROVE  Spaced(g, now, last)
<1>1. /\ SampleTimes(g.lines) \subseteq SampleTimes(f.lines)
      /\ SampleTimes(g.lines \cup g.bare) \subseteq SampleTimes(f.lines \cup f.bare)
  BY DEF SampleTimes
<1> QED
  BY <1>1 DEF Spaced

\* A sample that is not too early, or an event, can be put at the end.
LEMMA OneMoreSpaced ==
  ASSUME NEW f \in ArchiveFiles, NEW g, NEW now \in Times, NEW r \in Records, r.time = now,
         NEW last \in Times \cup {NoTime}, Spaced(f, now, last),
         r.kind = "sample" => ~(last # NoTime /\ now - last < Interval),
         g.lines \cup g.bare \subseteq f.lines \cup {r}
  PROVE  /\ \A q \in g.lines \cup g.bare : q.time <= now
         /\ \A s, t \in SampleTimes(g.lines \cup g.bare) : s < t => t - s >= Interval
<1> DEFINE all == SampleTimes(g.lines \cup g.bare)
<1>1. SampleTimes(f.lines) \subseteq Times /\ Interval \in Nat /\ NoTime \notin Int /\ now \in Nat
  BY SampleTimesType, ArchiveAssumption DEF ArchiveFiles, Times
<1>2. \A q \in g.lines \cup g.bare : q.time <= now
  BY <1>1 DEF Spaced
<1>3. \A s \in all : s \in SampleTimes(f.lines) \/ (r.kind = "sample" /\ s = now)
  BY DEF SampleTimes
<1>4. \A s \in SampleTimes(f.lines) : s \in Nat /\ s <= now
  BY <1>1 DEF SampleTimes, Spaced, Times
<1> HIDE DEF all
<1>5. ASSUME r.kind = "sample", NEW s \in SampleTimes(f.lines)
      PROVE  now - s >= Interval
  <2>1. now - s >= Interval \/ (last # NoTime /\ s <= last)
    BY DEF Spaced
  <2>2. last # NoTime => last \in Nat /\ now - last >= Interval
    BY <1>1, <1>5 DEF Times
  <2>3. s \in Nat
    BY <1>4
  <2> QED
    BY <1>1, <2>1, <2>2, <2>3
<1>6. \A s, t \in SampleTimes(f.lines) : s < t => t - s >= Interval
  BY DEF Spaced, SampleTimes
<1>7. ASSUME NEW s \in all, NEW t \in all, s < t PROVE t - s >= Interval
  <2>1. CASE s \in SampleTimes(f.lines) /\ t \in SampleTimes(f.lines)
    BY <1>6, <1>7, <2>1
  <2>2. CASE s \in SampleTimes(f.lines) /\ r.kind = "sample" /\ t = now
    BY <1>5, <2>2
  <2>3. CASE s = now
    <3>1. t \in Nat /\ t <= now
      BY <1>1, <1>3, <1>4
    <3> QED
      BY <1>1, <1>7, <2>3, <3>1
  <2> QED
    BY <1>3, <1>7, <2>1, <2>2, <2>3
<1> QED
  BY <1>2, <1>7 DEF all

\* The record that is due now: an event, or a sample that is not too early.
Due(r) == r \in Records /\ r.time = clock /\ (r.kind = "sample" => ~Waiting)

\* After an append that ends well the process knows of the sample it wrote.
LEMMA AddedSpaced ==
  ASSUME ArchiveInv, lastSample \in Times \cup {NoTime}, NEW r, Due(r),
         Spaced(file, clock, lastSample)
  PROVE  Spaced(Added(file, r), clock, IF r.kind = "sample" THEN r.time ELSE lastSample)
<1> DEFINE f == Added(file, r)
           last == IF r.kind = "sample" THEN r.time ELSE lastSample
<1>1. /\ file \in ArchiveFiles /\ clock \in Times /\ r \in Records /\ r.time = clock
      /\ r.kind = "sample" => ~(lastSample # NoTime /\ clock - lastSample < Interval)
  BY DEF ArchiveInv, Due, Waiting
<1>2. /\ f.open = FALSE /\ f.bare = {} /\ f.lines \subseteq file.lines \cup {r}
  <2>1. file.open = FALSE => file.bare = {}
    BY DEF Spaced
  <2>2. file.open \in BOOLEAN
    BY <1>1 DEF ArchiveFiles
  <2> QED
    BY <1>1, <2>1, <2>2, AddedShape
<1> HIDE DEF f
<1>3. /\ \A q \in f.lines \cup f.bare : q.time <= clock
      /\ \A s, t \in SampleTimes(f.lines \cup f.bare) : s < t => t - s >= Interval
  BY <1>1, <1>2, OneMoreSpaced
<1>4. ASSUME NEW s \in SampleTimes(f.lines)
      PROVE  clock - s >= Interval \/ (last # NoTime /\ s <= last)
  <2>1. CASE r.kind = "sample"
    <3>1. last = clock /\ clock # NoTime
      BY <1>1, <2>1, ArchiveAssumption DEF Times
    <3>2. s <= clock
      BY <1>3 DEF SampleTimes
    <3> QED
      BY <3>1, <3>2
  <2>2. CASE r.kind # "sample"
    <3>1. s \in SampleTimes(file.lines) /\ last = lastSample
      BY <1>2, <2>2 DEF SampleTimes
    <3> QED
      BY <3>1 DEF Spaced
  <2> QED
    BY <2>1, <2>2
<1> HIDE DEF last
<1>5. Spaced(f, clock, last)
  BY <1>2, <1>3, <1>4 DEF Spaced
<1> QED
  BY <1>5 DEF f, last

\* What a write leaves that stops part-way is spaced, unless it spoils the file.
LEMMA TornSpaced ==
  ASSUME ArchiveInv, lastSample \in Times \cup {NoTime}, NEW r, Due(r), TornOff(r),
         Spaced(file, clock, lastSample)
  PROVE  Spaced(file', clock, lastSample)
<1>1. /\ file \in ArchiveFiles /\ clock \in Times /\ r \in Records /\ r.time = clock
      /\ r.kind = "sample" => ~(lastSample # NoTime /\ clock - lastSample < Interval)
  BY DEF ArchiveInv, Due, Waiting
<1>2. /\ file'.open = TRUE /\ file'.lines = file.lines
      /\ file'.lines \cup file'.bare \subseteq file.lines \cup {r}
  BY <1>1, TornShape
<1>3. /\ \A q \in file'.lines \cup file'.bare : q.time <= clock
      /\ \A s, t \in SampleTimes(file'.lines \cup file'.bare) : s < t => t - s >= Interval
  BY <1>1, <1>2, OneMoreSpaced
<1> QED
  BY <1>2, <1>3 DEF Spaced

\* A compaction takes lines away.
LEMMA CompactedSpaced ==
  ASSUME NEW f, NEW now, NEW last, Spaced(f, now, last), f.bare = {}
  PROVE  Spaced(Compacted(f, now), now, last)
<1>1. /\ Compacted(f, now).lines \subseteq f.lines
      /\ Compacted(f, now).bare = {}
  BY DEF Compacted, Sealed, Newest, Load, Within, Readable
<1> QED
  BY <1>1, FewerSpaced

\* An append, with the compaction that may follow it.
LEMMA RecordSpaced ==
  ASSUME ArchiveInv, SpacedInv, NEW r, Due(r), Record(r), UNCHANGED <<clock, setBack>>
  PROVE  SpacedInv'
<1> DEFINE f == Added(file, r)
           sampled == IF r.kind = "sample" THEN r.time ELSE lastSample
           loaded == LastLoaded(Load(f, Retention, clock), sampled)
<1>1. /\ file \in ArchiveFiles /\ clock \in Times /\ r \in Records /\ r.time = clock
      /\ lastSample \in Times \cup {NoTime}
  BY DEF ArchiveInv, Due, SpacedInv
<1>2. f \in ArchiveFiles /\ f.open = FALSE /\ f.legible = file.legible
  BY <1>1, AddedShape
<1>3. sampled \in Times \cup {NoTime} /\ loaded \in Times \cup {NoTime}
  <2>1. sampled \in Times \cup {NoTime}
    BY <1>1
  <2> HIDE DEF f, sampled
  <2> QED
    BY <1>2, <2>1, LoadedType
<1>4. CASE Written(r) /\ UNCHANGED <<torn, spoilt>>
  <2>1. \/ file' = f /\ lastSample' = sampled
        \/ file' = Compacted(f, clock) /\ lastSample' = loaded
        \/ file' = f /\ lastSample' = loaded
    BY <1>4 DEF Written
  <2>2. lastSample' \in Times \cup {NoTime}
    BY <1>3, <2>1
  <2>3. ASSUME ~setBack', ~spoilt'
        PROVE  Spaced(file', clock, lastSample')
    <3>1. Spaced(file, clock, lastSample) /\ file.legible
      BY <1>4, <2>3 DEF SpacedInv, ArchiveInv
    <3>2. Spaced(f, clock, sampled)
      BY <1>1, <3>1, AddedSpaced
    <3> HIDE DEF f, sampled
    <3>3. f.legible /\ Retention \in Windows \cup {Retention}
      BY <1>2, <3>1
    <3>4. Spaced(f, clock, loaded)
      BY <1>1, <1>2, <3>2, <3>3, LoadSettles
    <3>5. f.bare = {}
      BY <1>2, <3>2 DEF Spaced
    <3> HIDE DEF loaded
    <3>6. Spaced(Compacted(f, clock), clock, loaded)
      BY <3>4, <3>5, CompactedSpaced
    <3> QED
      BY <2>1, <3>2, <3>4, <3>6
  <2> QED
    BY <2>2, <2>3 DEF SpacedInv
<1>5. CASE TornOff(r) /\ UNCHANGED lastSample
  <2>1. ~spoilt' => ~spoilt
    BY <1>1, <1>5, TornShape
  <2>2. ~setBack' /\ ~spoilt' => Spaced(file', clock, lastSample')
    BY <1>1, <1>5, <2>1, TornSpaced DEF SpacedInv
  <2> QED
    BY <1>1, <1>5, <2>2 DEF SpacedInv
<1>6. CASE UNCHANGED <<file, torn, spoilt, lastSample>>
  BY <1>6 DEF SpacedInv
<1> QED
  BY <1>4, <1>5, <1>6 DEF Record

\* A process that starts, or a view that is chosen, loads the file.
LEMMA LoadKeepsSpaced ==
  ASSUME NEW f \in ArchiveFiles, NEW age \in Windows \cup {Retention}, NEW last, NEW other,
         clock \in Times, other \in Times \cup {NoTime},
         ~setBack /\ ~spoilt' => f.legible /\ Spaced(f, clock, last),
         file' = f, lastSample' = LastLoaded(Load(f, age, clock), other),
         UNCHANGED <<clock, setBack>>
  PROVE  SpacedInv'
<1>1. lastSample' \in Times \cup {NoTime}
  BY LoadedType
<1>2. ~setBack /\ ~spoilt' => Spaced(f, clock, lastSample')
  BY LoadSettles
<1> QED
  BY <1>1, <1>2 DEF SpacedInv

LEMMA ShortWindowType == ShortWindow \in Windows
<1>1. Windows \subseteq Nat /\ Windows # {}
  BY ArchiveAssumption
<1>2. PICK w \in Windows : \A o \in Windows : w <= o
  BY <1>1, LeastExists
<1> QED
  BY <1>2 DEF ShortWindow

LEMMA KilledSpaced ==
  ASSUME ArchiveInv, SpacedInv, NEW r, Due(r), KilledWriting(r)
  PROVE  SpacedInv'
<1> DEFINE last == IF r.kind = "sample" THEN r.time ELSE lastSample
<1>1. /\ file \in ArchiveFiles /\ clock \in Times /\ r \in Records
      /\ lastSample \in Times \cup {NoTime}
      /\ ShortWindow \in Windows \cup {Retention} /\ NoTime \in Times \cup {NoTime}
  BY ShortWindowType DEF ArchiveInv, Due, SpacedInv
<1>2. /\ lastSample' = LastLoaded(Load(file', ShortWindow, clock), NoTime)
      /\ UNCHANGED <<clock, setBack>>
  BY DEF KilledWriting, Started
<1>3. CASE file' = Added(file, r) /\ UNCHANGED <<torn, spoilt>>
  <2>1. file' \in ArchiveFiles /\ file'.legible = file.legible
    BY <1>1, <1>3, AddedShape
  <2>2. ~setBack /\ ~spoilt' => file'.legible /\ Spaced(file', clock, last)
    BY <1>1, <1>3, <2>1, AddedSpaced DEF SpacedInv, ArchiveInv
  <2> HIDE DEF last
  <2> QED
    BY <1>1, <1>2, <2>1, <2>2, LoadKeepsSpaced
<1>4. CASE TornOff(r)
  <2>1. file' \in ArchiveFiles /\ (~spoilt' => ~spoilt /\ file'.legible = file.legible)
    BY <1>1, <1>4, TornShape
  <2>2. ~setBack /\ ~spoilt' => file'.legible /\ Spaced(file', clock, lastSample)
    BY <1>1, <1>4, <2>1, TornSpaced DEF SpacedInv, ArchiveInv
  <2> QED
    BY <1>1, <1>2, <2>1, <2>2, LoadKeepsSpaced
<1> QED
  BY <1>3, <1>4 DEF KilledWriting

\* Time only makes room for the next sample.
LEMMA LaterSpaced ==
  ASSUME NEW f \in ArchiveFiles, NEW now \in Times, NEW last, Spaced(f, now, last),
         NEW later, later = now + 1
  PROVE  Spaced(f, later, last)
<1>1. /\ now \in Nat /\ Interval \in Nat
      /\ \A r \in f.lines \cup f.bare : r.time \in Nat
      /\ \A s \in SampleTimes(f.lines) : s \in Nat
  BY ArchiveAssumption DEF Times, ArchiveFiles, Records, SampleTimes
<1>2. \A r \in f.lines \cup f.bare : r.time <= later
  BY <1>1 DEF Spaced
<1>3. \A s \in SampleTimes(f.lines) :
        later - s >= Interval \/ (last # NoTime /\ s <= last)
  BY <1>1 DEF Spaced
<1> QED
  BY <1>2, <1>3 DEF Spaced

LEMMA SpacedStep ==
  ASSUME ArchiveInv, SpacedInv, [ArchiveNext]_archiveVars
  PROVE  SpacedInv'
<1>1. /\ clock \in Times /\ file \in ArchiveFiles /\ lastSample \in Times \cup {NoTime}
      /\ ~setBack /\ ~spoilt => file.legible /\ Spaced(file, clock, lastSample)
      /\ NoTime \in Times \cup {NoTime} /\ Retention \in Windows \cup {Retention}
  BY DEF ArchiveInv, SpacedInv
<1>2. Due(Event) /\ (~Waiting => Due(Sample))
  BY <1>1 DEF Due, Sample, Event, Records
<1>3. CASE UpdateStatus
  <2>1. CASE ~Waiting /\ Record(Sample)
    BY <1>2, <1>3, <2>1, RecordSpaced DEF UpdateStatus
  <2>2. CASE UNCHANGED <<file, lastSample, spoilt>>
    BY <1>3, <2>2 DEF UpdateStatus, SpacedInv
  <2> QED
    BY <1>3, <2>1, <2>2 DEF UpdateStatus
<1>4. CASE RecordEvent
  BY <1>2, <1>4, RecordSpaced DEF RecordEvent
<1>5. ASSUME NEW w \in Windows, ChangeWindow(w) PROVE SpacedInv'
  <2>1. w \in Windows \cup {Retention}
    OBVIOUS
  <2>2. /\ file' = file /\ lastSample' = LastLoaded(Load(file, w, clock), lastSample)
        /\ UNCHANGED <<clock, setBack, spoilt>>
    BY <1>5 DEF ChangeWindow
  <2> QED
    BY <1>1, <2>1, <2>2, LoadKeepsSpaced
<1>6. CASE ExportCsv
  <2>1. /\ file' = file /\ lastSample' = LastLoaded(Load(file, Retention, clock), lastSample)
        /\ UNCHANGED <<clock, setBack, spoilt>>
    BY <1>6 DEF ExportCsv
  <2> QED
    BY <1>1, <2>1, LoadKeepsSpaced
<1>7. CASE Restart
  <2>1. ShortWindow \in Windows \cup {Retention}
    BY ShortWindowType
  <2>2. /\ file' = file /\ lastSample' = LastLoaded(Load(file, ShortWindow, clock), NoTime)
        /\ UNCHANGED <<clock, setBack, spoilt>>
    BY <1>7 DEF Restart, Started
  <2> QED
    BY <1>1, <2>1, <2>2, LoadKeepsSpaced
<1>8. CASE \E r \in {Sample, Event} : KilledWriting(r)
  <2>1. PICK r \in {Sample, Event} : KilledWriting(r)
    BY <1>8
  <2>2. Due(r)
    BY <1>2, <2>1 DEF KilledWriting
  <2> QED
    BY <2>1, <2>2, KilledSpaced
<1>9. CASE ClockTicks
  <2>1. clock' = clock + 1 /\ UNCHANGED <<file, lastSample, spoilt, setBack>>
    BY <1>9 DEF ClockTicks
  <2>2. ~setBack /\ ~spoilt => Spaced(file, clock', lastSample)
    BY <1>1, <2>1, LaterSpaced
  <2> QED
    BY <1>1, <2>1, <2>2 DEF SpacedInv
<1>10. CASE ClockSetBack
  BY <1>10 DEF ClockSetBack, SpacedInv
<1>11. CASE UNCHANGED archiveVars
  BY <1>11 DEF archiveVars, SpacedInv
<1> QED
  BY <1>3, <1>4, <1>5, <1>6, <1>7, <1>8, <1>9, <1>10, <1>11 DEF ArchiveNext

\* With a steady clock no two samples in the file are closer than the interval,
\* whatever views are opened, exports made, processes restarted or killed and
\* writes failed in between (append, load and _compact_if_needed of history.py):
\* each of them leaves the last sample time behind that the next one needs.
THEOREM SamplesAreSpaced == ArchiveSpec => []SamplesSpaced
<1>1. ArchiveInit => SpacedInv
  BY DEF ArchiveInit, NoFile, Sealed, SpacedInv, Spaced, SampleTimes
<1>2. ArchiveInv /\ SpacedInv => SamplesSpaced
  BY DEF ArchiveInv, SpacedInv, Spaced, SamplesSpaced, Readable
<1>3. ArchiveInv /\ SpacedInv /\ [ArchiveNext]_archiveVars => (ArchiveInv /\ SpacedInv)'
  BY ArchiveStep, SpacedStep
<1> QED
  BY <1>1, <1>2, <1>3, ArchiveStart, PTL DEF ArchiveSpec

(* The view *)

Held(samples) == {samples[i] : i \in DOMAIN samples}
Rising(samples) == \A i, j \in DOMAIN samples : i < j => samples[i] < samples[j]

\* Where _prune stops: everything before is too old, what is there is not.
Stop(samples, oldest, i) ==
  /\ i \in DOMAIN samples => samples[i] >= oldest
  /\ \A j \in 1..(i - 1) : samples[j] < oldest

\* _prune cuts any samples somewhere, in order or not.
LEMMA PrunedCuts ==
  ASSUME NEW samples \in Seq(Times), NEW oldest \in Int
  PROVE  \E first \in 1..(Len(samples) + 1) :
           /\ Stop(samples, oldest, first)
           /\ Pruned(samples, oldest) = SubSeq(samples, first, Len(samples))
<1> DEFINE n == Len(samples)
           young == {i \in 1..(n + 1) : i \in DOMAIN samples => samples[i] >= oldest}
<1>1. \A i \in 1..n : samples[i] \in Times
  BY ElementOfSeq
<1>2. n \in Nat /\ DOMAIN samples = 1..n /\ \A i \in 1..n : samples[i] \in Nat
  <2>1. n \in Nat /\ DOMAIN samples = 1..n
    BY LenProperties
  <2> HIDE DEF n
  <2> QED
    BY <1>1, <2>1 DEF Times
<1>3. Pruned(samples, oldest) =
        SubSeq(samples, CHOOSE i \in 1..(n + 1) : Stop(samples, oldest, i), n)
  BY DEF Pruned, Stop
<1> HIDE DEF n
<1>4. \E i \in 1..(n + 1) : Stop(samples, oldest, i)
  <2>1. young \subseteq Nat /\ n + 1 \in young
    BY <1>2
  <2>2. PICK i \in young : \A j \in young : i <= j
    BY <2>1, LeastExists
  <2>3. i \in 1..(n + 1) /\ (i \in DOMAIN samples => samples[i] >= oldest)
    OBVIOUS
  <2>4. ASSUME NEW j \in 1..(i - 1) PROVE samples[j] < oldest
    <3>1. j \in 1..n /\ j < i
      BY <1>2, <2>3
    <3>2. j \notin young
      BY <1>2, <2>2, <2>3, <3>1
    <3> QED
      BY <1>2, <3>1, <3>2
  <2> QED
    BY <2>3, <2>4 DEF Stop
<1> DEFINE first == CHOOSE i \in 1..(n + 1) : Stop(samples, oldest, i)
<1>5. first \in 1..(n + 1) /\ Stop(samples, oldest, first)
  BY <1>4
<1> QED
  BY <1>3, <1>5 DEF n

\* _prune leaves, of samples in their order, those that are young enough.
LEMMA PrunedHolds ==
  ASSUME NEW samples \in Seq(Times), Rising(samples), NEW oldest \in Int
  PROVE  /\ Pruned(samples, oldest) \in Seq(Times) /\ Rising(Pruned(samples, oldest))
         /\ Held(Pruned(samples, oldest)) = {t \in Held(samples) : t >= oldest}
<1> DEFINE n == Len(samples)
           p == Pruned(samples, oldest)
<1>1. \A i \in 1..n : samples[i] \in Times
  BY ElementOfSeq
<1>2. n \in Nat /\ DOMAIN samples = 1..n /\ \A i \in 1..n : samples[i] \in Nat
  <2>1. n \in Nat /\ DOMAIN samples = 1..n
    BY LenProperties
  <2> HIDE DEF n
  <2> QED
    BY <1>1, <2>1 DEF Times
<1>3. PICK first \in 1..(n + 1) :
        Stop(samples, oldest, first) /\ p = SubSeq(samples, first, n)
  BY PrunedCuts
<1> HIDE DEF n, p
<1>4. /\ first \in DOMAIN samples => samples[first] >= oldest
      /\ \A j \in 1..(first - 1) : samples[j] < oldest
      /\ first \in 1..(n + 1)
  BY <1>3 DEF Stop
<1>5. /\ p \in Seq(Times)
      /\ Len(p) = IF first <= n THEN n - first + 1 ELSE 0
      /\ \A i \in 1..(n - first + 1) : p[i] = samples[first + i - 1]
  <2>1. first \in Int /\ n \in Int /\ \A i \in first..n : samples[i] \in Times
    BY <1>1, <1>2, <1>4
  <2> QED
    BY <1>3, <2>1, SubSeqProperties
<1>6. DOMAIN p = 1..(n - first + 1)
  <2>1. DOMAIN p = 1..Len(p)
    BY <1>5, LenProperties
  <2> QED
    BY <1>2, <1>4, <1>5, <2>1
<1>7. Rising(p)
  <2> SUFFICES ASSUME NEW i \in DOMAIN p, NEW j \in DOMAIN p, i < j
               PROVE  p[i] < p[j]
    BY DEF Rising
  <2>1. /\ first + i - 1 \in 1..n /\ first + j - 1 \in 1..n
        /\ first + i - 1 < first + j - 1
    BY <1>2, <1>4, <1>6
  <2>2. p[i] = samples[first + i - 1] /\ p[j] = samples[first + j - 1]
    BY <1>5, <1>6
  <2> QED
    BY <1>2, <2>1, <2>2 DEF Rising
<1>8. ASSUME NEW t \in Held(p) PROVE t \in Held(samples) /\ t >= oldest
  <2>1. PICK i \in DOMAIN p : t = p[i]
    BY DEF Held
  <2>2. first + i - 1 \in 1..n /\ t = samples[first + i - 1] /\ first <= first + i - 1
    BY <1>2, <1>4, <1>5, <1>6, <2>1
  <2>3. first \in 1..n /\ samples[first] >= oldest
    BY <1>2, <1>4, <2>2
  <2>4. samples[first] <= t
    <3>1. CASE first = first + i - 1
      BY <1>2, <2>2, <2>3, <3>1
    <3>2. CASE first < first + i - 1
      <4>1. first \in DOMAIN samples /\ first + i - 1 \in DOMAIN samples
        BY <1>2, <2>2, <2>3
      <4>2. samples[first] < samples[first + i - 1]
        BY <3>2, <4>1 DEF Rising
      <4> QED
        BY <1>2, <2>2, <2>3, <4>2
    <3> QED
      BY <1>4, <2>2, <3>1, <3>2
  <2> QED
    BY <1>2, <2>2, <2>3, <2>4 DEF Held
<1>9. ASSUME NEW t \in Held(samples), t >= oldest PROVE t \in Held(p)
  <2>1. PICK k \in 1..n : t = samples[k]
    BY <1>2 DEF Held
  <2>2. ~(k \in 1..(first - 1))
    BY <1>2, <1>4, <1>9, <2>1
  <2>3. k - first + 1 \in 1..(n - first + 1) /\ first + (k - first + 1) - 1 = k
    BY <1>2, <1>4, <2>1, <2>2
  <2>4. p[k - first + 1] = samples[k]
    BY <1>5, <2>3
  <2> QED
    BY <1>6, <2>1, <2>3, <2>4 DEF Held
<1> QED
  BY <1>5, <1>7, <1>8, <1>9 DEF p

\* A set of times can be put in order, and an order leaves none of them out.
LEMMA InOrderHolds ==
  ASSUME NEW S, S \subseteq Times
  PROVE  InOrder(S) \in Seq(Times) /\ Rising(InOrder(S)) /\ Held(InOrder(S)) = S
<1> DEFINE n == Cardinality(S)
           UpTo(t) == {o \in S : o <= t}
           rank == [t \in S |-> Cardinality(UpTo(t))]
           Ordered(s) == \A i, j \in 1..n : i < j => s[i] < s[j]
<1>1. IsFiniteSet(S) /\ n \in Nat /\ \A t \in S : t \in Nat
  <2>1. IsFiniteSet(Times)
    BY ArchiveAssumption, FS_Interval DEF Times
  <2>2. IsFiniteSet(S)
    BY <2>1, FS_Subset
  <2> QED
    BY <2>2, FS_CardinalityType DEF Times
<1>2. \A t \in S : IsFiniteSet(UpTo(t)) /\ Cardinality(UpTo(t)) \in 1..n
  <2> TAKE t \in S
  <2>1. UpTo(t) \subseteq S /\ t \in UpTo(t)
    BY <1>1
  <2> HIDE DEF UpTo
  <2>2. /\ IsFiniteSet(UpTo(t)) /\ Cardinality(UpTo(t)) \in Nat
        /\ Cardinality(UpTo(t)) <= n /\ Cardinality(UpTo(t)) # 0
    BY <1>1, <2>1, FS_Subset, FS_CardinalityType, FS_EmptySet
  <2> QED
    BY <1>1, <2>2
<1>3. ASSUME NEW t \in S, NEW u \in S, t < u PROVE rank[t] < rank[u]
  <2>1. UpTo(t) \subseteq UpTo(u) /\ u \in UpTo(u) /\ u \notin UpTo(t)
    BY <1>1, <1>3
  <2> HIDE DEF UpTo
  <2>2. UpTo(t) \subseteq UpTo(u) \ {u} /\ IsFiniteSet(UpTo(u))
    BY <1>2, <2>1
  <2>3. /\ IsFiniteSet(UpTo(u) \ {u})
        /\ Cardinality(UpTo(u) \ {u}) = Cardinality(UpTo(u)) - 1
    BY <2>1, <2>2, FS_RemoveElement
  <2>4. Cardinality(UpTo(t)) <= Cardinality(UpTo(u) \ {u})
    BY <2>2, <2>3, FS_Subset
  <2>5. Cardinality(UpTo(t)) \in Nat /\ Cardinality(UpTo(u)) \in Nat
    BY <1>1, <1>2
  <2> QED
    BY <2>3, <2>4, <2>5
<1>4. rank \in [S -> 1..n]
  BY <1>2
<1> HIDE DEF rank
<1>5. \A t, u \in S : rank[t] \in 1..n /\ (rank[t] = rank[u] => t = u)
  <2> TAKE t, u \in S
  <2>1. rank[t] \in 1..n /\ rank[u] \in 1..n /\ t \in Nat /\ u \in Nat
    BY <1>1, <1>4
  <2>2. (t < u => rank[t] < rank[u]) /\ (u < t => rank[u] < rank[t])
    BY <1>3
  <2> QED
    BY <1>1, <2>1, <2>2
<1>6. IsFiniteSet(1..n) /\ Cardinality(1..n) = n
  <2> HIDE DEF n
  <2> QED
    BY <1>1, FS_Interval
<1>7. \A k \in 1..n : \E t \in S : rank[t] = k
  <2>1. rank \in Injection(S, 1..n)
    BY <1>4, <1>5 DEF Injection, IsInjective
  <2>2. rank \in Surjection(S, 1..n)
    BY <1>6, <2>1, FS_Injection
  <2> QED
    BY <2>2 DEF Surjection
<1> DEFINE sorted == [k \in 1..n |-> CHOOSE t \in S : rank[t] = k]
<1>8. sorted \in [1..n -> S] /\ \A k \in 1..n : rank[sorted[k]] = k
  BY <1>7
<1> HIDE DEF sorted
<1>9. Ordered(sorted)
  <2> SUFFICES ASSUME NEW i \in 1..n, NEW j \in 1..n, i < j
               PROVE  sorted[i] < sorted[j]
    OBVIOUS
  <2>1. sorted[i] \in S /\ sorted[j] \in S /\ rank[sorted[i]] = i /\ rank[sorted[j]] = j
    BY <1>8
  <2>2. sorted[i] # sorted[j] /\ ~(sorted[j] < sorted[i])
    BY <1>1, <1>3, <2>1
  <2> QED
    BY <1>1, <2>1, <2>2
<1> DEFINE s == InOrder(S)
<1>10. s \in [1..n -> S] /\ Ordered(s)
  BY <1>8, <1>9 DEF InOrder
<1> HIDE DEF s
<1>11. \A k \in 1..n : s[k] \in S
  BY <1>10
<1>12. s \in Seq(Times) /\ DOMAIN s = 1..n
  <2>1. s \in [1..n -> Times]
    BY <1>10
  <2> HIDE DEF n
  <2> QED
    BY <1>1, <2>1
<1>13. Rising(s)
  BY <1>10, <1>12 DEF Rising
<1>14. s \in Surjection(1..n, S)
  <2>1. \A i, j \in 1..n : s[i] = s[j] => i = j
    <3> TAKE i, j \in 1..n
    <3>1. s[i] \in Nat /\ s[j] \in Nat
      BY <1>1, <1>11
    <3>2. (i < j => s[i] < s[j]) /\ (j < i => s[j] < s[i])
      BY <1>10
    <3> HIDE DEF n
    <3> QED
      BY <1>1, <3>1, <3>2
  <2>2. s \in Injection(1..n, S)
    BY <1>10, <2>1 DEF Injection, IsInjective
  <2> QED
    BY <1>1, <1>6, <2>2, FS_Injection
<1>15. Held(s) = S
  BY <1>11, <1>12, <1>14 DEF Held, Surjection
<1> QED
  BY <1>12, <1>13, <1>15 DEF s

\* What a view shows of a file: the samples of its span, in order and no others.
Shows(samples, f, now, span) ==
  /\ samples \in Seq(Times) /\ Rising(samples)
  /\ \A t \in Held(samples) : t <= now
  /\ \A s, t \in Held(samples) : t - s <= span
  /\ {t \in SampleTimes(Readable(f)) : now - span <= t} \subseteq Held(samples)
  /\ \A r \in Readable(f) : r.time <= now

ViewInv ==
  /\ window \in Windows
  /\ ~setBack => Shows(view, file, clock, window)

LEMMA HeldType ==
  ASSUME NEW samples \in Seq(Times)
  PROVE  Held(samples) \subseteq Times
<1>1. DOMAIN samples = 1..Len(samples)
  BY LenProperties
<1> QED
  BY <1>1, ElementOfSeq DEF Held

\* Loading a file and showing what was loaded (load and replace).
LEMMA ShownShows ==
  ASSUME NEW f \in ArchiveFiles, NEW now \in Times, NEW age \in Windows,
         \A r \in Readable(f) : r.time <= now
  PROVE  Shows(Shown(Load(f, age, now), age), f, now, age)
<1> DEFINE records == Load(f, age, now)
           all == {r.time : r \in records}
           s == Shown(records, age)
<1>1. age \in Nat /\ Day \in Nat /\ now \in Nat
  BY ArchiveAssumption DEF Times
<1>2. Readable(f) \in SUBSET Records /\ records \in SUBSET Records
  BY DEF Load, Within, Readable, ArchiveFiles
<1>3. \A r \in Readable(f) : r \in Records /\ r.time \in Nat /\ r.time <= now
  BY <1>2 DEF Records, Times
<1>4. \A r \in Readable(f) : now - age <= r.time => r \in records
  BY <1>1, <1>3 DEF Load, Within
<1>5. \A r \in records : r \in Readable(f)
  BY DEF Load, Within
<1> HIDE DEF records
<1>6. SampleTimes(records) \subseteq Times /\ SampleTimes(records) \subseteq all
      /\ all \subseteq Times
  BY <1>2 DEF SampleTimes, Records
<1>7. \A t \in SampleTimes(Readable(f)) : now - age <= t => t \in SampleTimes(records)
  BY <1>4 DEF SampleTimes
<1>8. CASE records = {}
  <2>1. s = <<>> /\ s \in Seq(Times) /\ DOMAIN s = {}
    BY <1>8 DEF Shown
  <2>2. Held(s) = {}
    BY <2>1 DEF Held
  <2>3. {t \in SampleTimes(Readable(f)) : now - age <= t} = {}
    BY <1>7, <1>8 DEF SampleTimes
  <2> HIDE DEF s
  <2>4. Shows(s, f, now, age)
    BY <1>3, <2>1, <2>2, <2>3 DEF Shows, Rising
  <2> QED
    BY <2>4 DEF s, records
<1>9. CASE records # {}
  <2> DEFINE newest == Latest(all)
  <2>1. newest \in all /\ \A t \in all : t <= newest
    <3>1. all # {}
      BY <1>9
    <3> HIDE DEF all
    <3> QED
      BY <1>6, <3>1, LatestExists
  <2>2. newest \in Nat /\ newest <= now
    BY <1>3, <1>5, <2>1
  <2>3. s = Pruned(InOrder(SampleTimes(records)), newest - age)
    BY <1>9 DEF Shown
  <2> HIDE DEF newest, s
  <2>4. /\ InOrder(SampleTimes(records)) \in Seq(Times)
        /\ Rising(InOrder(SampleTimes(records)))
        /\ Held(InOrder(SampleTimes(records))) = SampleTimes(records)
    BY <1>6, InOrderHolds
  <2>5. newest - age \in Int
    BY <1>1, <2>2
  <2>6. /\ s \in Seq(Times) /\ Rising(s)
        /\ Held(s) = {t \in SampleTimes(records) : t >= newest - age}
    BY <2>3, <2>4, <2>5, PrunedHolds
  <2>7. \A t \in Held(s) : t \in Nat /\ t <= newest /\ t >= newest - age
    BY <1>6, <2>1, <2>6 DEF Times
  <2>8. \A t \in Held(s) : t <= now
    BY <1>1, <2>2, <2>7
  <2>9. \A t, u \in Held(s) : u - t <= age
    BY <1>1, <2>2, <2>7
  <2>10. {t \in SampleTimes(Readable(f)) : now - age <= t} \subseteq Held(s)
    <3> SUFFICES ASSUME NEW t \in SampleTimes(Readable(f)), now - age <= t
                 PROVE  t \in Held(s)
      OBVIOUS
    <3>1. t \in SampleTimes(records) /\ t \in Nat
      BY <1>6, <1>7 DEF Times
    <3>2. t >= newest - age
      BY <1>1, <2>2, <3>1
    <3> QED
      BY <2>6, <3>1, <3>2
  <2>11. Shows(s, f, now, age)
    BY <1>3, <2>6, <2>8, <2>9, <2>10 DEF Shows
  <2> QED
    BY <2>11 DEF s, records
<1> QED
  BY <1>8, <1>9

\* A write adds to what can be read at most the record written, however it ends.
LEMMA AddedReadable ==
  ASSUME NEW f \in ArchiveFiles, NEW r \in Records
  PROVE  Readable(Added(f, r)) \subseteq Readable(f) \cup {r}
<1> DEFINE g == Added(f, r)
<1>1. f.open \in BOOLEAN
  BY DEF ArchiveFiles
<1>2. g.legible = f.legible /\ g.lines \cup g.bare \subseteq f.lines \cup f.bare \cup {r}
  BY <1>1, AddedShape
<1> HIDE DEF g
<1>3. Readable(g) \subseteq Readable(f) \cup {r}
  BY <1>2 DEF Readable
<1> QED
  BY <1>3 DEF g

LEMMA TornReadable ==
  ASSUME file \in ArchiveFiles, NEW r \in Records, TornOff(r)
  PROVE  Readable(file') \subseteq Readable(file) \cup {r}
<1>1. /\ file'.lines = file.lines /\ file'.bare \in {{}, {r}}
  BY TornShape
<1>2. file'.legible => file.legible
  <2> SUFFICES ASSUME NEW h, h = file' PROVE h.legible => file.legible
    OBVIOUS
  <2>1. CASE file' \in Cut(file, r)
    <3>1. PICK b \in {{}, {r}} : h = [file EXCEPT !.bare = b, !.open = TRUE]
      BY <2>1 DEF Cut
    <3> QED
      BY <3>1 DEF ArchiveFiles
  <2>2. CASE file' \in Split(file, r)
    <3>1. h = [file EXCEPT !.bare = {}, !.open = TRUE, !.legible = FALSE]
      BY <2>2 DEF Split
    <3> QED
      BY <3>1 DEF ArchiveFiles
  <2> QED
    BY <2>1, <2>2 DEF TornOff
<1> QED
  BY <1>1, <1>2 DEF Readable

LEMMA RecordReadable ==
  ASSUME file \in ArchiveFiles, NEW r \in Records, Record(r)
  PROVE  Readable(file') \subseteq Readable(file) \cup {r}
<1> DEFINE f == Added(file, r)
<1>1. Readable(f) \subseteq Readable(file) \cup {r}
  BY AddedReadable
<1> HIDE DEF f
<1>2. CASE file' = Compacted(f, clock)
  <2>1. Readable(file') \subseteq Readable(f)
    BY <1>2 DEF Readable, Compacted, Sealed, Newest, Load, Within
  <2> QED
    BY <1>1, <2>1
<1> QED
  BY <1>1, <1>2, TornReadable DEF Record, Written, f

\* A view that has lost what is too old and gained what is in the file now.
LEMMA PrunedShows ==
  ASSUME NEW samples \in Seq(Times), Rising(samples), NEW f, NEW now \in Times, NEW age \in Windows,
         \A t \in Held(samples) : t <= now,
         {t \in SampleTimes(Readable(f)) : now - age <= t} \subseteq Held(samples),
         \A r \in Readable(f) : r.time <= now
  PROVE  Shows(Pruned(samples, now - age), f, now, age)
<1> DEFINE p == Pruned(samples, now - age)
<1>1. now \in Nat /\ age \in Nat /\ now - age \in Int
  BY ArchiveAssumption DEF Times
<1>2. /\ p \in Seq(Times) /\ Rising(p)
      /\ Held(p) = {t \in Held(samples) : t >= now - age}
  BY <1>1, PrunedHolds
<1> HIDE DEF p
<1>3. \A t \in Held(p) : t \in Nat /\ t <= now /\ t >= now - age
  BY <1>2, HeldType DEF Times
<1>4. \A s, t \in Held(p) : t - s <= age
  BY <1>1, <1>3
<1>5. {t \in SampleTimes(Readable(f)) : now - age <= t} \subseteq Held(p)
  <2> SUFFICES ASSUME NEW t \in SampleTimes(Readable(f)), now - age <= t
               PROVE  t \in Held(p)
    OBVIOUS
  <2>1. t \in Held(samples) /\ t \in Nat
    BY HeldType DEF Times
  <2> QED
    BY <1>1, <1>2, <2>1
<1>6. Shows(p, f, now, age)
  BY <1>2, <1>3, <1>4, <1>5 DEF Shows
<1> QED
  BY <1>6 DEF p

\* A newer sample goes to the end of a view.
LEMMA AppendedHolds ==
  ASSUME NEW samples \in Seq(Times), Rising(samples), NEW now \in Times,
         \A t \in Held(samples) : t < now
  PROVE  /\ Append(samples, now) \in Seq(Times) /\ Rising(Append(samples, now))
         /\ Held(Append(samples, now)) = Held(samples) \cup {now}
<1> DEFINE n == Len(samples)
           a == Append(samples, now)
<1>1. n \in Nat /\ DOMAIN samples = 1..n
  BY LenProperties
<1>2. /\ a \in Seq(Times) /\ Len(a) = n + 1 /\ a[n + 1] = now
      /\ \A i \in 1..n : a[i] = samples[i]
  BY AppendProperties
<1>3. DOMAIN a = 1..(n + 1)
  <2>1. DOMAIN a = 1..Len(a)
    BY <1>2, LenProperties
  <2> HIDE DEF a
  <2> QED
    BY <1>2, <2>1
<1> HIDE DEF n, a
<1>4. \A i \in 1..n : a[i] < now
  BY <1>1, <1>2 DEF Held
<1>5. Rising(a)
  <2> SUFFICES ASSUME NEW i \in DOMAIN a, NEW j \in DOMAIN a, i < j
               PROVE  a[i] < a[j]
    BY DEF Rising
  <2>1. i \in 1..n /\ (j = n + 1 \/ j \in 1..n)
    BY <1>1, <1>3
  <2>2. CASE j = n + 1
    BY <1>2, <1>4, <2>1, <2>2
  <2>3. CASE j \in 1..n
    BY <1>1, <1>2, <2>1, <2>3 DEF Rising
  <2> QED
    BY <2>1, <2>2, <2>3
<1>6. Held(a) = Held(samples) \cup {now}
  <2>1. \A i \in 1..(n + 1) : i = n + 1 \/ i \in 1..n
    BY <1>1
  <2>2. n + 1 \in 1..(n + 1) /\ \A i \in 1..n : i \in 1..(n + 1)
    BY <1>1
  <2> QED
    BY <1>1, <1>2, <1>3, <2>1, <2>2 DEF Held
<1> QED
  BY <1>2, <1>5, <1>6 DEF a

LEMMA ViewStep ==
  ASSUME ArchiveInv, ViewInv, [ArchiveNext]_archiveVars
  PROVE  ViewInv'
<1>1. /\ clock \in Times /\ file \in ArchiveFiles /\ window \in Windows
      /\ clock \in Nat /\ window \in Nat
  BY ArchiveAssumption DEF ArchiveInv, ViewInv, Times
<1>2. ASSUME ~setBack
      PROVE  /\ view \in Seq(Times) /\ Rising(view) /\ \A t \in Held(view) : t <= clock
             /\ {t \in SampleTimes(Readable(file)) : clock - window <= t} \subseteq Held(view)
             /\ \A r \in Readable(file) : r.time <= clock
  BY <1>2 DEF ViewInv, Shows
<1>3. Sample \in Records /\ Event \in Records /\ Sample.time = clock /\ Event.time = clock
      /\ Sample.kind = "sample" /\ Event.kind = "event"
  BY <1>1 DEF Sample, Event, Records
<1>4. CASE UpdateStatus
  <2>1. /\ \A i \in DOMAIN view : view[i] # clock
        /\ view' = Pruned(Append(view, clock), clock - window)
        /\ clock' = clock /\ window' = window /\ setBack' = setBack
    BY <1>4 DEF UpdateStatus
  <2>2. Readable(file') \subseteq Readable(file) \cup {Sample}
    BY <1>1, <1>3, <1>4, RecordReadable DEF UpdateStatus
  <2>3. ASSUME ~setBack
        PROVE  Shows(view', file', clock, window)
    <3>1. \A t \in Held(view) : t < clock
      <4> TAKE t \in Held(view)
      <4>1. t # clock /\ t <= clock /\ t \in Nat
        BY <1>2, <2>1, <2>3, HeldType DEF Held, Times
      <4> QED
        BY <1>1, <4>1
    <3>2. /\ Append(view, clock) \in Seq(Times) /\ Rising(Append(view, clock))
          /\ Held(Append(view, clock)) = Held(view) \cup {clock}
      BY <1>1, <1>2, <2>3, <3>1, AppendedHolds
    <3>3. \A r \in Readable(file') : r.time <= clock
      BY <1>1, <1>2, <1>3, <2>2, <2>3
    <3>4. SampleTimes(Readable(file')) \subseteq SampleTimes(Readable(file)) \cup {clock}
      BY <1>3, <2>2 DEF SampleTimes
    <3>5. {t \in SampleTimes(Readable(file')) : clock - window <= t}
            \subseteq Held(Append(view, clock))
      BY <1>2, <2>3, <3>2, <3>4
    <3>6. \A t \in Held(Append(view, clock)) : t <= clock
      BY <1>1, <1>2, <2>3, <3>2
    <3> QED
      BY <1>1, <2>1, <3>2, <3>3, <3>5, <3>6, PrunedShows
  <2> QED
    BY <1>1, <2>1, <2>3 DEF ViewInv
<1>5. CASE RecordEvent
  <2>1. /\ view' = Pruned(view, clock - window)
        /\ clock' = clock /\ window' = window /\ setBack' = setBack
    BY <1>5 DEF RecordEvent
  <2>2. Readable(file') \subseteq Readable(file) \cup {Event}
    BY <1>1, <1>3, <1>5, RecordReadable DEF RecordEvent
  <2>3. ASSUME ~setBack
        PROVE  Shows(view', file', clock, window)
    <3>1. \A r \in Readable(file') : r.time <= clock
      BY <1>1, <1>2, <1>3, <2>2, <2>3
    <3>2. SampleTimes(Readable(file')) \subseteq SampleTimes(Readable(file))
      BY <1>3, <2>2 DEF SampleTimes
    <3>3. {t \in SampleTimes(Readable(file')) : clock - window <= t} \subseteq Held(view)
      BY <1>2, <2>3, <3>2
    <3> QED
      BY <1>1, <1>2, <2>1, <2>3, <3>1, <3>3, PrunedShows
  <2> QED
    BY <1>1, <2>1, <2>3 DEF ViewInv
<1>6. ASSUME NEW w \in Windows, ChangeWindow(w) PROVE ViewInv'
  <2>1. /\ view' = Shown(Load(file, w, clock), w) /\ window' = w
        /\ file' = file /\ clock' = clock /\ setBack' = setBack
    BY <1>6 DEF ChangeWindow
  <2> QED
    BY <1>1, <1>2, <2>1, ShownShows DEF ViewInv
<1>7. CASE ExportCsv
  BY <1>7 DEF ExportCsv, ViewInv
<1>8. CASE Restart
  <2>1. /\ view' = Shown(Load(file, ShortWindow, clock), ShortWindow) /\ window' = ShortWindow
        /\ file' = file /\ clock' = clock /\ setBack' = setBack
    BY <1>8 DEF Restart, Started
  <2> QED
    BY <1>1, <1>2, <2>1, ShownShows, ShortWindowType DEF ViewInv
<1>9. CASE \E r \in {Sample, Event} : KilledWriting(r)
  <2>1. PICK r \in {Sample, Event} : KilledWriting(r)
    BY <1>9
  <2>2. /\ view' = Shown(Load(file', ShortWindow, clock), ShortWindow) /\ window' = ShortWindow
        /\ clock' = clock /\ setBack' = setBack
    BY <2>1 DEF KilledWriting, Started
  <2>3. r \in Records /\ r.time = clock
    BY <1>3
  <2>4. file' \in ArchiveFiles /\ Readable(file') \subseteq Readable(file) \cup {r}
    <3>1. CASE file' = Added(file, r)
      BY <1>1, <2>3, <3>1, AddedShape, AddedReadable
    <3>2. CASE TornOff(r)
      BY <1>1, <2>3, <3>2, TornShape, TornReadable
    <3> QED
      BY <2>1, <3>1, <3>2 DEF KilledWriting
  <2>5. ~setBack => \A q \in Readable(file') : q.time <= clock
    BY <1>1, <1>2, <2>3, <2>4
  <2> QED
    BY <1>1, <2>2, <2>4, <2>5, ShownShows, ShortWindowType DEF ViewInv
<1>10. CASE ClockTicks
  <2>1. /\ clock' = clock + 1
        /\ file' = file /\ view' = view /\ window' = window /\ setBack' = setBack
    BY <1>10 DEF ClockTicks
  <2>2. ASSUME ~setBack PROVE Shows(view, file, clock', window)
    <3>1. \A t \in Held(view) : t \in Nat
      BY <1>2, <2>2, HeldType DEF Times
    <3>2. \A r \in Readable(file) : r \in Records /\ r.time \in Nat
      BY <1>1 DEF Readable, ArchiveFiles, Records, Times
    <3>3. \A t \in SampleTimes(Readable(file)) : t \in Nat
      BY <3>2 DEF SampleTimes
    <3>4. \A t \in Held(view) : t <= clock'
      BY <1>1, <1>2, <2>1, <2>2, <3>1
    <3>5. \A r \in Readable(file) : r.time <= clock'
      BY <1>1, <1>2, <2>1, <2>2, <3>2
    <3>6. {t \in SampleTimes(Readable(file)) : clock' - window <= t} \subseteq Held(view)
      BY <1>1, <1>2, <2>1, <2>2, <3>3
    <3>7. \A s, t \in Held(view) : t - s <= window
      BY <2>2 DEF ViewInv, Shows
    <3> QED
      BY <1>2, <2>2, <3>4, <3>5, <3>6, <3>7 DEF Shows
  <2> QED
    BY <1>1, <2>1, <2>2 DEF ViewInv
<1>11. CASE ClockSetBack
  BY <1>11 DEF ClockSetBack, ViewInv
<1>12. CASE UNCHANGED archiveVars
  BY <1>12 DEF archiveVars, ViewInv
<1> QED
  BY <1>4, <1>5, <1>6, <1>7, <1>8, <1>9, <1>10, <1>11, <1>12 DEF ArchiveNext

\* With a steady clock the view holds every readable sample of the window
\* chosen and spans no more than it, through appends, compactions, restarts,
\* torn writes and changes of the window (TelemetryHistory, load and replace).
THEOREM ViewsAreComplete == ArchiveSpec => []ViewComplete
<1>1. ASSUME ArchiveInit PROVE ViewInv
  <2>1. window \in Windows /\ view = <<>> /\ Readable(file) = {}
    BY <1>1, ShortWindowType DEF ArchiveInit, NoFile, Sealed, Readable
  <2>2. view \in Seq(Times) /\ DOMAIN view = {}
    BY <2>1
  <2>3. Held(view) = {} /\ Rising(view) /\ SampleTimes(Readable(file)) = {}
    BY <2>1, <2>2 DEF Held, Rising, SampleTimes
  <2> QED
    BY <2>1, <2>2, <2>3 DEF ViewInv, Shows
<1>2. ViewInv => ViewComplete
  BY DEF ViewInv, Shows, ViewComplete, Held
<1>3. ArchiveInv /\ ViewInv /\ [ArchiveNext]_archiveVars => (ArchiveInv /\ ViewInv)'
  BY ArchiveStep, ViewStep
<1> QED
  BY <1>1, <1>2, <1>3, ArchiveStart, PTL DEF ArchiveSpec

-----------------------------------------------------------------------------
(* The alerts *)

AlertInv ==
  /\ moment \in Nat /\ lastNotice \in Int /\ roseAt \in Int /\ roseAt <= moment
  /\ observed = heat /\ heat \in Levels /\ noticedLevel \in Levels
  /\ HeatIsTold

LEMMA Ranks == \A level \in Levels : Rank[level] \in Nat
BY DEF Levels, Rank

LEMMA ObserveInv ==
  ASSUME AlertInv, NEW cpu \in Readouts, NEW gpu \in Readouts, Observe(cpu, gpu)
  PROVE  AlertInv'
<1> DEFINE level == Level(Hottest(cpu, gpu))
           notice == Hot(level) /\ (Escalated(level) \/ CooledDown)
<1>1. level \in Levels
  BY DEF Level, Levels
<1>2. /\ observed' = level /\ heat' = level /\ moment' = moment
      /\ roseAt' = IF Hot(level) /\ Rank[level] > Rank[heat] THEN moment ELSE roseAt
      /\ IF notice THEN lastNotice' = moment /\ noticedLevel' = level
         ELSE lastNotice' = lastNotice /\ noticedLevel' = noticedLevel
  BY DEF Observe
<1>3. Rank[level] \in Nat /\ Rank[heat] \in Nat /\ Rank[noticedLevel] \in Nat
  BY <1>1, Ranks DEF AlertInv
<1> HIDE DEF level
<1>4. CASE notice
  BY <1>1, <1>2, <1>3, <1>4 DEF AlertInv, HeatIsTold
<1>5. CASE ~notice
  <2>1. lastNotice' = lastNotice /\ noticedLevel' = noticedLevel
    BY <1>2, <1>5
  <2>2. ASSUME Hot(level)
        PROVE  Rank[level] <= Rank[heat] /\ Hot(heat)
    BY <1>3, <1>5, <2>2 DEF Escalated, AlertInv, Hot
  <2>3. HeatIsTold'
    BY <1>2, <1>3, <2>1, <2>2 DEF AlertInv, HeatIsTold, Hot
  <2> QED
    BY <1>1, <1>2, <2>1, <2>3 DEF AlertInv
<1> QED
  BY <1>4, <1>5

\* Since the machine last got hotter the user has been told a level at least
\* as high as the last status says, for every order of readings, gaps and
\* missing sensors and for every cooldown (ThermalAlertController.observe).
THEOREM HeatIsAlwaysTold == AlertSpec => []HeatIsTold
<1>1. AlertInit => AlertInv
  BY DEF AlertInit, AlertInv, HeatIsTold, Hot, Rank, Levels
<1>2. AlertInv /\ [AlertNext]_alertVars => AlertInv'
  <2>1. SUFFICES ASSUME AlertInv, [AlertNext]_alertVars PROVE AlertInv'
    OBVIOUS
  <2>2. CASE \E cpu, gpu \in Readouts : Observe(cpu, gpu)
    BY <2>1, <2>2, ObserveInv
  <2>3. CASE MomentPasses
    BY <2>1, <2>3 DEF MomentPasses, AlertInv, HeatIsTold
  <2>4. CASE UNCHANGED alertVars
    BY <2>1, <2>4 DEF alertVars, AlertInv, HeatIsTold
  <2> QED
    BY <2>1, <2>2, <2>3, <2>4 DEF AlertNext
<1>3. AlertInv => HeatIsTold
  BY DEF AlertInv
<1> QED
  BY <1>1, <1>2, <1>3, PTL DEF AlertSpec

-----------------------------------------------------------------------------
(* The rules of the power source *)

LEMMA LoadShows ==
  ASSUME NEW faults2, LoadRules(ruleFile', faults2)
  PROVE  RulesShown'
BY DEF LoadRules, RulesShown

\* The controls, the rules that act and the file that the next session reads
\* are the same, whichever save or load fails, unless the page said that it
\* could not read the file (_on_controls_changed, _load of ui_automation.py).
THEOREM RulesAreShown == RulesSpec => []RulesShown
<1>1. RulesInit => RulesShown
  BY DEF RulesInit, RulesShown
<1>2. RulesShown /\ [RulesNext]_ruleVars => RulesShown'
  <2>1. SUFFICES ASSUME RulesShown, [RulesNext]_ruleVars PROVE RulesShown'
    OBVIOUS
  <2>2. CASE FirstRules
    BY <2>2, LoadShows DEF FirstRules
  <2>3. ASSUME NEW r \in Moves, ChangeRule(r) PROVE RulesShown'
    <3>1. CASE ruleFile' = ValidRules(r) /\ rules' = r /\ controls' = r
      BY <3>1 DEF RulesShown, ValidRules
    <3>2. CASE LoadRules(ruleFile', ruleFaults + 1)
      BY <3>2, LoadShows
    <3> QED
      BY <2>3, <3>1, <3>2 DEF ChangeRule
  <2>4. CASE RestartRules
    BY <2>4 DEF RestartRules, RulesShown
  <2>5. CASE UNCHANGED ruleVars
    BY <2>1, <2>5 DEF ruleVars, RulesShown
  <2> QED
    BY <2>1, <2>2, <2>3, <2>4, <2>5 DEF RulesNext
<1> QED
  BY <1>1, <1>2, PTL DEF RulesSpec

-----------------------------------------------------------------------------
(* The language *)

\* What a language may be that was reported as saved, or cut off in a save.
Known == {saidLanguage} \cup maybeLanguage
Trusted == saidLanguage # NoLanguage /\ ~powerLost

\* A process that has not shown its window yet can save nothing, so it speaks
\* what the file said when it started.
LanguageInv ==
  /\ saidLanguage \in Languages \cup {NoLanguage} /\ maybeLanguage \subseteq Languages
  /\ Trusted => languageFile \in Known
  /\ (Trusted /\ frame = "starting" /\ override = NoLanguage) => activeLanguage \in Known

Speaks ==
  frame' = "starting" /\ override' = NoLanguage /\ saidLanguage # NoLanguage /\ ~powerLost
    => activeLanguage' \in Known

LEMMA StartsInv ==
  ASSUME LanguageInv, NEW environment, Starts(environment), UNCHANGED Lasting
  PROVE  LanguageInv' /\ Speaks
<1>1. ASSUME Trusted, environment = NoLanguage
      PROVE  activeLanguage' \in Known
  <2>1. languageFile \in Known /\ NoLanguage \notin Known
    BY <1>1, SessionAssumption DEF LanguageInv, Trusted, Known
  <2>2. languageFile # NoLanguage
    BY <2>1
  <2> QED
    BY <1>1, <2>1, <2>2 DEF Starts, StartupLanguage
<1>2. override' = environment
  BY DEF Starts
<1>3. Speaks
  BY <1>1, <1>2 DEF Speaks, Trusted
<1>4. LanguageInv'
  BY <1>1, <1>2 DEF LanguageInv, Lasting, Trusted, Known
<1> QED
  BY <1>3, <1>4

\* Steps that start no process and leave the language alone.
LEMMA LanguageKept ==
  ASSUME LanguageInv, UNCHANGED languageVars, frame' \in {frame, "shown", "hidden"}
  PROVE  LanguageInv' /\ Speaks
BY DEF LanguageInv, languageVars, Trusted, Known, Speaks

LEMMA SessionStep ==
  ASSUME LanguageInv, [SessionNext]_sessionVars
  PROVE  LanguageInv' /\ Speaks
<1>1. ASSUME NEW environment \in Overrides, Launch(environment)
      PROVE  LanguageInv' /\ Speaks
  BY <1>1, StartsInv DEF Launch
<1>2. CASE Activate
  BY <1>2, LanguageKept DEF Activate
<1>3. CASE Close
  <2>1. CASE trayAvailable
    BY <1>3, <2>1 DEF Close, Lasting, LanguageInv, Trusted, Known, Speaks
  <2>2. CASE ~trayAvailable
    BY <1>3, <2>2 DEF Close, Ends, Lasting, LanguageInv, Trusted, Known, Speaks
  <2> QED
    BY <2>1, <2>2
<1>4. CASE RestartNow
  BY <1>4, StartsInv DEF RestartNow
<1>5. CASE BusAcquired \/ BusLost \/ WatcherComesOrGoes
  BY <1>5, LanguageKept DEF BusAcquired, BusLost, WatcherComesOrGoes
<1>6. ASSUME NEW code \in Languages, ChooseLanguage(code)
      PROVE  LanguageInv' /\ Speaks
  <2>1. frame' = "shown"
    BY <1>6 DEF ChooseLanguage
  <2>2. CASE /\ languageFile' = code /\ saidLanguage' = code
             /\ maybeLanguage' = {} /\ powerLost' = FALSE
    BY <2>1, <2>2 DEF LanguageInv, Trusted, Known, Speaks
  <2>3. CASE UNCHANGED <<languageFile, saidLanguage, maybeLanguage, powerLost>>
    BY <2>1, <2>3 DEF LanguageInv, Trusted, Known, Speaks
  <2> QED
    BY <1>6, <2>2, <2>3 DEF ChooseLanguage
<1>7. ASSUME NEW code \in Languages, KilledSaving(code)
      PROVE  LanguageInv' /\ Speaks
  <2>1. /\ frame' = "ended" /\ maybeLanguage' = maybeLanguage \cup {code}
        /\ languageFile' \in {languageFile, code}
        /\ saidLanguage' = saidLanguage /\ powerLost' = powerLost
    BY <1>7 DEF KilledSaving, Unsure, Ends
  <2> QED
    BY <2>1 DEF LanguageInv, Trusted, Known, Speaks
<1>8. CASE PowerLoss
  <2>1. /\ frame' = "ended" /\ powerLost' = TRUE
        /\ saidLanguage' = saidLanguage /\ maybeLanguage' = maybeLanguage
    BY <1>8 DEF PowerLoss, Ends
  <2> QED
    BY <2>1 DEF LanguageInv, Trusted, Known, Speaks
<1>9. CASE UNCHANGED sessionVars
  BY <1>9, LanguageKept DEF sessionVars, languageVars
<1> QED
  BY <1>1, <1>2, <1>3, <1>4, <1>5, <1>6, <1>7, <1>8, <1>9 DEF SessionNext

\* A process speaks the language last reported as saved, or one whose save was
\* cut off since, through failures, kills and restarts, unless the environment
\* says another or power was lost (LanguageStore, configure_startup_language).
THEOREM LanguageIsFollowed == SessionSpec => LanguageFollows
<1>1. SessionInit => LanguageInv
  BY DEF SessionInit, LanguageInv, Trusted, Known
<1>2. LanguageInv /\ [SessionNext]_sessionVars => LanguageInv' /\ [Speaks]_sessionVars
  BY SessionStep
<1>3. Speaks =>
        (frame' = "starting" /\ override' = NoLanguage /\ saidLanguage # NoLanguage /\ ~powerLost
           => activeLanguage' \in {saidLanguage} \cup maybeLanguage)
  BY DEF Speaks, Known
<1> QED
  BY <1>1, <1>2, <1>3, PTL DEF SessionSpec, LanguageFollows

-----------------------------------------------------------------------------
(* The maintainer scripts of the package *)

\* How far a service that is owed its restart has got: the marker carries it from
\* prerm to postinst, and it runs at both ends.
Owing ==
  /\ job = "upgrade" /\ manual
  /\ marker \/ unit = On
  /\ script \in {"disable", "hand back", "files"} \/ package = "unpacking" => marker
  /\ script = "unmark" \/ (package = "configured" /\ script = "none") => unit = On

\* How far an undisturbed removal has got.
Removing ==
  /\ script = "disable" => ~marker
  /\ script = "hand back" => ~marker /\ unit = Off
  /\ script = "files" \/ package \in {"unpacking", "removed"} =>
       unit = Off /\ fans = "firmware" /\ ~marker

\* DeploymentKept speaks of the ends of an upgrade and of a removal; this says
\* what the steps in between have made sure of.
PackageInv ==
  /\ unit \in Units /\ fans \in {"firmware", "daemon"}
  /\ unit.state # "stopped" => unit.enabled /\ manual
  /\ package = "removed" => job = "remove" /\ script = "none"
  /\ package = "unpacking" => script \in {"none", "files"}
  /\ owed => Owing
  /\ job = "remove" /\ ~disturbed => Removing

\* A service is on exactly when it is enabled and runs, off when neither.
LEMMA OnAndOff ==
  /\ On \in Units /\ Off \in Units /\ On # Off
  /\ On.enabled = TRUE /\ On.state = "running"
  /\ Off.enabled = FALSE /\ Off.state = "stopped"
  /\ \A u \in Units : u.enabled = TRUE /\ u.state = "running" => u = On
  /\ \A u \in Units : u.enabled = FALSE /\ u.state = "stopped" => u = Off
BY DEF On, Off, Units

\* What starting or stopping a unit does not touch: whether it is enabled.
LEMMA OtherState ==
  ASSUME NEW u \in Units, NEW s \in {"stopped", "running", "waiting"},
         NEW v, v = [u EXCEPT !.state = s]
  PROVE  v \in Units /\ v.enabled = u.enabled /\ v.state = s
BY DEF Units

\* dpkg's own steps: nothing but what comes next changes.
LEMMA DpkgKeeps ==
  ASSUME PackageInv,
         BeginUpgrade \/ BeginRemoval \/ Configure \/ ResumeFiles \/ Files \/ KillScripts
  PROVE  PackageInv'
<1>1. CASE BeginUpgrade
  <2>1. owed' => manual /\ (marker \/ unit = On)
    BY <1>1, OnAndOff DEF BeginUpgrade, PackageInv, Owing, Units
  <2> QED
    BY <1>1, <2>1 DEF BeginUpgrade, PackageInv, Owing
<1>2. CASE BeginRemoval
  BY <1>2 DEF BeginRemoval, PackageInv, Removing
<1>3. CASE Configure
  BY <1>3 DEF Configure, PackageInv, Owing
<1>4. CASE ResumeFiles
  BY <1>4 DEF ResumeFiles, PackageInv, Owing, Removing
<1>5. CASE Files
  BY <1>5 DEF Files, PackageInv, Owing, Removing
<1>6. CASE KillScripts
  <2>1. /\ marker' = marker /\ unit' = unit /\ fans' = fans /\ manual' = manual
        /\ disturbed' = disturbed
    BY <1>6 DEF KillScripts
  <2>2. CASE script = "files" /\ script' = "none" /\ package' = "unpacking"
             /\ job' = job /\ owed' = owed
    BY <2>1, <2>2 DEF PackageInv, Owing, Removing
  <2>3. CASE script \notin {"files", "none"} /\ script' = "none" /\ package' = "half"
             /\ job' = job /\ owed' = owed
    BY <2>1, <2>3 DEF PackageInv, Owing, Removing
  <2>4. CASE script \in Prerm /\ script' = "mark" /\ job' = "failed-upgrade"
             /\ owed' = FALSE /\ package' = package
    BY <2>1, <2>4 DEF PackageInv, Prerm
  <2> QED
    BY <1>6, <2>2, <2>3, <2>4 DEF KillScripts
<1> QED BY <1>1, <1>2, <1>3, <1>4, <1>5, <1>6

\* prerm and postinst hand the service from the unit to the marker and back.
LEMMA ScriptsKeep ==
  ASSUME PackageInv, Mark \/ Disable \/ HandBack \/ Enable \/ Unmark
  PROVE  PackageInv'
<1>1. CASE Mark
  <2>1. /\ script = "mark" /\ script' = "disable" /\ package' = package /\ job' = job
        /\ unit' = unit /\ fans' = fans /\ manual' = manual /\ disturbed' = disturbed
    BY <1>1 DEF Mark
  <2>2. (owed' => owed) /\ (owed' => marker') /\ (job = "remove" => ~marker')
    <3>1. CASE job = "upgrade" /\ marker' = (marker \/ unit.state = "running") /\ owed' = owed
      <4>1. owed => marker'
        BY <3>1, OnAndOff DEF PackageInv, Owing
      <4> QED
        BY <3>1, <4>1
    <3>2. CASE owed' = FALSE /\ job = "upgrade"
      BY <3>2
    <3>3. CASE job # "upgrade" /\ marker' = FALSE /\ owed' = owed
      BY <3>3 DEF PackageInv, Owing
    <3> QED
      BY <1>1, <3>1, <3>2, <3>3 DEF Mark
  <2> QED
    BY <2>1, <2>2 DEF PackageInv, Owing, Removing
<1>2. CASE Disable
  BY <1>2, OnAndOff DEF Disable, PackageInv, Owing, Removing
<1>3. CASE HandBack
  <2>1. /\ script = "hand back" /\ script' = "files" /\ package' = package /\ job' = job
        /\ unit' = unit /\ marker' = marker /\ manual' = manual /\ owed' = owed
    BY <1>3 DEF HandBack
  <2>2. owed' => Owing'
    BY <2>1 DEF PackageInv, Owing
  <2>3. fans' \in {"firmware", "daemon"} /\ (~disturbed' => ~disturbed /\ fans' = "firmware")
    <3>1. CASE fans' = "firmware" /\ disturbed' = disturbed
      BY <3>1
    <3>2. CASE fans' = fans /\ disturbed' = (disturbed \/ fans = "daemon")
      BY <3>2 DEF PackageInv
    <3> QED
      BY <1>3, <3>1, <3>2 DEF HandBack
  <2> QED
    BY <2>1, <2>2, <2>3 DEF PackageInv, Removing
<1>4. CASE Enable
  <2>1. CASE unit' = [enabled |-> TRUE, state |-> IF manual THEN "running" ELSE "stopped"]
    <3> DEFINE s == IF manual THEN "running" ELSE "stopped"
    <3>1. s \in {"stopped", "running", "waiting"} /\ (s # "stopped" => manual)
          /\ (manual => s = "running")
      OBVIOUS
    <3> HIDE DEF s
    <3>2. unit' \in Units /\ unit'.enabled = TRUE /\ unit'.state = s
      BY <2>1, <3>1 DEF Units, s
    <3>3. (manual => unit' = On) /\ (unit'.state # "stopped" => manual)
      BY <3>1, <3>2, OnAndOff
    <3>4. job' = job /\ marker' = marker /\ manual' = manual /\ fans' = fans
          /\ disturbed' = disturbed /\ script = "enable"
      BY <1>4 DEF Enable
    <3>5. CASE marker /\ script' = "unmark" /\ package' = package /\ (owed' => owed)
      <4>1. owed' => Owing'
        BY <3>3, <3>4, <3>5 DEF PackageInv, Owing
      <4>2. Removing'
        BY <3>4, <3>5 DEF PackageInv, Removing
      <4> QED
        BY <3>2, <3>3, <3>4, <3>5, <4>1, <4>2 DEF PackageInv
    <3>6. CASE ~marker /\ unit' = unit /\ script' = "none" /\ package' = "configured"
               /\ owed' = owed
      BY <3>2, <3>3, <3>4, <3>6 DEF PackageInv, Owing, Removing
    <3> QED
      BY <1>4, <3>5, <3>6 DEF Enable
  <2>2. CASE unit' = unit
    <3>1. job' = job /\ marker' = marker /\ manual' = manual /\ fans' = fans
          /\ disturbed' = disturbed /\ script = "enable"
      BY <1>4 DEF Enable
    <3>2. CASE marker /\ script' = "unmark" /\ package' = package /\ owed' = FALSE
      BY <2>2, <3>1, <3>2 DEF PackageInv, Removing
    <3>3. CASE ~marker /\ script' = "none" /\ package' = "configured" /\ owed' = owed
      BY <2>2, <3>1, <3>3 DEF PackageInv, Owing, Removing
    <3>4. CASE /\ marker /\ script' = "unmark" /\ package' = package /\ owed' = owed
               /\ unit' = [enabled |-> TRUE, state |-> IF manual THEN "running" ELSE "stopped"]
      BY <2>1, <2>2, <3>4
    <3> QED
      BY <1>4, <2>1, <3>2, <3>3, <3>4 DEF Enable
  <2> QED
    BY <1>4, <2>1, <2>2 DEF Enable
<1>5. CASE Unmark
  BY <1>5 DEF Unmark, PackageInv, Owing, Removing
<1> QED BY <1>1, <1>2, <1>3, <1>4, <1>5

\* Between two steps of the scripts the daemon, systemd and the user act.
LEMMA ServiceKeeps ==
  ASSUME PackageInv,
         Tick \/ DaemonFails \/ StartsAgain \/ AskManual \/ AskAutomatic \/ RebootMachine
  PROVE  PackageInv'
<1>1. CASE Tick
  BY <1>1, OnAndOff DEF Tick, PackageInv, Owing, Removing
<1>2. CASE DaemonFails
  <2>1. PICK state \in {"waiting", "stopped"} : unit' = [unit EXCEPT !.state = state]
    BY <1>2 DEF DaemonFails
  <2>2. unit' \in Units /\ unit'.enabled = unit.enabled
    BY <2>1, OtherState DEF PackageInv
  <2>3. unit.enabled /\ manual /\ unit # Off
    BY <1>2, OnAndOff DEF DaemonFails, PackageInv
  <2> QED
    BY <1>2, <2>2, <2>3 DEF DaemonFails, PackageInv, Removing
<1>3. CASE StartsAgain
  <2>1. unit' \in Units /\ unit'.enabled = unit.enabled /\ unit'.state = "running"
    BY <1>3, OtherState DEF StartsAgain, PackageInv
  <2>2. unit.enabled /\ manual /\ unit # Off /\ unit # On
    BY <1>3, OnAndOff DEF StartsAgain, PackageInv
  <2> QED
    BY <1>3, <2>1, <2>2 DEF StartsAgain, PackageInv, Owing, Removing
<1>4. CASE AskManual
  BY <1>4, OnAndOff DEF AskManual, PackageInv, Owing, Removing
<1>5. CASE AskAutomatic
  BY <1>5, OnAndOff DEF AskAutomatic, PackageInv, Owing, Removing
<1>6. CASE RebootMachine
  <2> DEFINE s == IF unit.enabled /\ manual THEN "running" ELSE "stopped"
  <2>1. /\ s \in {"stopped", "running", "waiting"}
        /\ s # "stopped" => unit.enabled /\ manual
        /\ unit.enabled = TRUE /\ manual => s = "running"
        /\ unit.enabled = FALSE => s = "stopped"
    OBVIOUS
  <2> HIDE DEF s
  <2>2. unit' = [unit EXCEPT !.state = s]
    BY <1>6 DEF RebootMachine, s
  <2>3. unit' \in Units /\ unit'.enabled = unit.enabled /\ unit'.state = s
    BY <2>1, <2>2, OtherState DEF PackageInv
  <2>4. unit = On /\ manual => unit' = On
    BY <2>1, <2>3, OnAndOff
  <2>5. unit = Off => unit' = Off
    BY <2>1, <2>3, OnAndOff
  <2>6. unit'.state # "stopped" => unit'.enabled /\ manual'
    BY <1>6, <2>1, <2>3 DEF RebootMachine
  <2> QED
    BY <1>6, <2>3, <2>4, <2>5, <2>6 DEF RebootMachine, PackageInv, Owing, Removing
<1> QED BY <1>1, <1>2, <1>3, <1>4, <1>5, <1>6

\* An upgrade brings back the service it stopped and a removal leaves the fans
\* with the firmware, through kills, retries, aborted and interrupted upgrades
\* and everything the user does between two steps of the scripts (prerm and
\* postinst of packaging/debian).
THEOREM DeploymentIsKept == PackageSpec => []DeploymentKept
<1>1. PackageInit => PackageInv
  BY OnAndOff DEF PackageInit, PackageInv
<1>2. PackageInv /\ [PackageNext]_packageVars => PackageInv'
  <2> SUFFICES ASSUME PackageInv, [PackageNext]_packageVars PROVE PackageInv'
    OBVIOUS
  <2>1. CASE UNCHANGED packageVars
    BY <2>1 DEF packageVars, PackageInv, Owing, Removing
  <2> QED
    BY <2>1, DpkgKeeps, ScriptsKeep, ServiceKeeps DEF PackageNext
<1>3. PackageInv => DeploymentKept
  BY DEF PackageInv, Owing, Removing, DeploymentKept, ResumesAfterUpgrade, RemovedIsFree
<1> QED
  BY <1>1, <1>2, <1>3, PTL DEF PackageSpec

-----------------------------------------------------------------------------
(* The Doctor report *)

\* The page knows what the probe could see when it was last read: both are
\* replaced together, also when the probe fails.
DoctorInv ==
  /\ machine \in Conditions
  /\ probe = rechecked /\ probe \in ProbeFacts

\* The hottest of the readings is one of them, and unknown only without any.
LEMMA HottestIsRead ==
  ASSUME NEW cpu \in Readouts, NEW gpu \in Readouts
  PROVE  Hottest(cpu, gpu) \in Int \cup {NoReading}
<1> DEFINE known == {cpu, gpu} \ {NoReading}
<1>1. CASE known = {}
  BY <1>1 DEF Hottest
<1>2. CASE known # {}
  <2>1. \A t \in known : t \in Int
    BY LevelsAssumption DEF Readouts
  <2>2. \E t \in known : \A u \in known : u <= t
    BY <1>2, <2>1
  <2> QED BY <1>2, <2>1, <2>2 DEF Hottest
<1> QED BY <1>1, <1>2

\* What the Doctor takes a temperature for agrees with the alerts.
LEMMA SeverityAgrees ==
  ASSUME NEW t \in Int \cup {NoReading}
  PROVE  /\ ThermalSeverity(t) = "ok" => Level(t) = "normal"
         /\ Level(t) = "critical" => ThermalSeverity(t) = "error"
BY LevelsAssumption DEF ThermalSeverity, Level, ElevatedTemperature, CriticalTemperature

\* What a report built from status s and probe p says in sum.
Honest(s, p, f) ==
  /\ Worst(f) = "ok" =>
       /\ ~Refuses(s, p)
       /\ p.service \notin {"failed", "unknown"}
       /\ ~p.profileRival /\ ~p.keyboardRival
       /\ Level(Hottest(s.cpu, s.gpu)) = "normal"
  /\ Level(Hottest(s.cpu, s.gpu)) = "critical" => Worst(f) = "error"

\* No finding is lost in the sum.
LEMMA FindingsHonest ==
  ASSUME NEW s \in StatusFacts, NEW p \in ProbeFacts
  PROVE  Honest(s, p, Findings(s, p))
<1> DEFINE f == Findings(s, p)
           t == Hottest(s.cpu, s.gpu)
<1>1. s.cpu \in Readouts /\ s.gpu \in Readouts
  BY DEF StatusFacts
<1>2. t \in Int \cup {NoReading}
  BY <1>1, HottestIsRead
<1>3. /\ f["identity"] = Unless(s.supported, "error")
      /\ f["privileges"] = Unless(p.helper /\ p.action, "error")
      /\ f["fan_control"] = Unless(s.fanControl, "warning")
      /\ f["thermal"] = ThermalSeverity(t)
      /\ f["fan_service"] = FanServiceFinding(p)
      /\ f["rgb"] = Unless(s.keyboard, "warning")
      /\ f["profile_conflict"] = ConflictFinding(p.profileRival)
      /\ f["rgb_conflict"] = ConflictFinding(p.keyboardRival)
  BY DEF Findings
<1> HIDE DEF f, t
<1>4. ASSUME Worst(f) = "ok"
      PROVE  \A k \in Keys : f[k] \notin {"error", "warning"}
  BY <1>4 DEF Worst
<1>5. Worst(f) = "ok" =>
        /\ s.supported /\ p.helper /\ p.action /\ s.fanControl /\ s.keyboard
        /\ ~p.profileRival /\ ~p.keyboardRival
  BY <1>3, <1>4 DEF Keys, Unless, ConflictFinding
<1>6. Worst(f) = "ok" => p.service \notin {"failed", "unknown"}
  BY <1>3, <1>4 DEF Keys, FanServiceFinding, Unless
<1>7. Worst(f) = "ok" => Level(t) = "normal"
  <2>1. ThermalSeverity(t) \in {"ok", "warning", "error"}
    BY DEF ThermalSeverity
  <2> QED BY <1>2, <1>3, <1>4, <2>1, SeverityAgrees DEF Keys
<1>8. Level(t) = "critical" => Worst(f) = "error"
  BY <1>2, <1>3, SeverityAgrees DEF Worst, Keys
<1> QED
  BY <1>5, <1>6, <1>7, <1>8 DEF Honest, Refuses, f, t

\* A report never reassures about a machine whose controls are missing, whose
\* service failed, that another program writes to or that is hot, whenever its
\* status and its probe were read; and it says "error" where the alerts say
\* critical (build_doctor_report, DoctorPage.update_status).
THEOREM ReportIsHonest == DoctorSpec => ReportHonest
<1>1. DoctorInit => DoctorInv
  BY MachinesAssumption DEF DoctorInit, DoctorInv, NoProbe, ProbeFacts
<1>2. DoctorInv /\ [DoctorNext]_doctorVars => DoctorInv'
  <2> SUFFICES ASSUME DoctorInv, [DoctorNext]_doctorVars PROVE DoctorInv'
    OBVIOUS
  <2>1. machine.probe \in ProbeFacts /\ NoProbe \in ProbeFacts
    BY DEF DoctorInv, Conditions, NoProbe, ProbeFacts
  <2>2. CASE UpdateReport \/ RecheckProbe
    BY <2>1, <2>2 DEF UpdateReport, RecheckProbe, ReadProbe, DoctorInv
  <2>3. CASE MachineChanges
    BY <2>3, MachinesAssumption DEF MachineChanges, DoctorInv
  <2>4. CASE UNCHANGED doctorVars
    BY <2>4 DEF doctorVars, DoctorInv
  <2> QED BY <2>2, <2>3, <2>4 DEF DoctorNext
<1>3. ASSUME DoctorInv, DoctorInv', [DoctorNext]_doctorVars
      PROVE  findings' # findings => Honest(polled', rechecked', findings')
  <2> SUFFICES ASSUME findings' # findings PROVE Honest(polled', rechecked', findings')
    OBVIOUS
  <2>1. UpdateReport
    BY <1>3 DEF DoctorNext, RecheckProbe, MachineChanges, doctorVars
  <2>2. polled' = machine.status /\ findings' = Findings(machine.status, probe')
    BY <2>1 DEF UpdateReport
  <2>3. machine.status \in StatusFacts /\ probe' \in ProbeFacts /\ rechecked' = probe'
    BY <1>3 DEF DoctorInv, Conditions
  <2>4. Honest(machine.status, probe', Findings(machine.status, probe'))
    BY <2>3, FindingsHonest
  <2> QED BY <2>2, <2>3, <2>4
<1>4. DoctorInv /\ DoctorInv' /\ [DoctorNext]_doctorVars =>
        [findings' # findings =>
           /\ Worst(findings') = "ok" =>
                /\ ~Refuses(polled', rechecked')
                /\ rechecked'.service \notin {"failed", "unknown"}
                /\ ~rechecked'.profileRival /\ ~rechecked'.keyboardRival
                /\ Level(Hottest(polled'.cpu, polled'.gpu)) = "normal"
           /\ Level(Hottest(polled'.cpu, polled'.gpu)) = "critical" => Worst(findings') = "error"
        ]_doctorVars
  BY <1>3 DEF Honest
<1> QED
  BY <1>1, <1>2, <1>4, PTL DEF DoctorSpec, ReportHonest

-----------------------------------------------------------------------------
(* Types *)

\* Every variable of the alerts has its type.
THEOREM AlertTypes == AlertSpec => []AlertTypeOK
<1>1. AlertInit => AlertTypeOK
  BY AlertAssumption DEF AlertInit, AlertTypeOK, Levels
<1>2. AlertTypeOK /\ [AlertNext]_alertVars => AlertTypeOK'
  <2>1. SUFFICES ASSUME AlertTypeOK, [AlertNext]_alertVars PROVE AlertTypeOK'
    OBVIOUS
  <2>2. ASSUME NEW cpu \in Readouts, NEW gpu \in Readouts, Observe(cpu, gpu)
        PROVE  AlertTypeOK'
    <3> DEFINE level == Level(Hottest(cpu, gpu))
    <3>1. level \in Levels
      BY DEF Level, Levels
    <3>2. /\ observed' = level /\ heat' = level /\ moment' = moment
          /\ roseAt' \in {moment, roseAt}
          /\ lastNotice' \in {moment, lastNotice} /\ noticedLevel' \in {level, noticedLevel}
      BY <2>2 DEF Observe
    <3> HIDE DEF level
    <3>3. moment \in -1..LastMoment
      BY <2>1 DEF AlertTypeOK
    <3> QED
      BY <2>1, <3>1, <3>2, <3>3 DEF AlertTypeOK
  <2>3. CASE MomentPasses
    BY <2>1, <2>3, AlertAssumption DEF MomentPasses, AlertTypeOK
  <2>4. CASE UNCHANGED alertVars
    BY <2>1, <2>4 DEF alertVars, AlertTypeOK
  <2> QED
    BY <2>1, <2>2, <2>3, <2>4 DEF AlertNext
<1> QED
  BY <1>1, <1>2, PTL DEF AlertSpec

\* Every variable of the rules' page has its type.
THEOREM RuleTypes == RulesSpec => []RuleTypeOK
<1>1. RulesInit => RuleTypeOK
  <2> SUFFICES ASSUME RulesInit PROVE RuleTypeOK
    OBVIOUS
  <2>1. \A r \in RuleSets : \A k \in {"absent", "valid", "broken"} :
          [kind |-> k, rules |-> r] \in RuleFiles
    BY DEF RuleFiles
  <2>2. ruleFile \in RuleFiles
    BY <2>1, RuleAssumption DEF RulesInit, ValidRules
  <2>3. ruleFaults \in 0..MaxRuleFaults
    BY RuleAssumption DEF RulesInit
  <2>4. rules \in RuleSets /\ controls \in RuleSets
    BY RuleAssumption DEF RulesInit
  <2>5. rulesLoaded \in BOOLEAN /\ misloaded \in BOOLEAN
    BY DEF RulesInit
  <2> QED
    BY <2>2, <2>3, <2>4, <2>5 DEF RuleTypeOK
<1>2. RuleTypeOK /\ [RulesNext]_ruleVars => RuleTypeOK'
  <2>1. SUFFICES ASSUME RuleTypeOK, [RulesNext]_ruleVars PROVE RuleTypeOK'
    OBVIOUS
  <2>2. DefaultRules \in RuleSets /\ MaxRuleFaults \in Nat /\ Moves \subseteq RuleSets
    BY RuleAssumption DEF Moves
  <2>3. \A r \in RuleSets : ValidRules(r) \in RuleFiles
    BY DEF ValidRules, RuleFiles
  <2>4. ASSUME ruleFile' \in RuleFiles, NEW n \in 0..MaxRuleFaults, LoadRules(ruleFile', n)
        PROVE  RuleTypeOK'
    <3>1. ruleFile'.rules \in RuleSets
      BY <2>4 DEF RuleFiles
    <3>2. rules' \in RuleSets /\ controls' \in RuleSets
          /\ rulesLoaded' \in BOOLEAN /\ misloaded' \in BOOLEAN
      BY <2>2, <2>4, <3>1 DEF LoadRules
    <3>3. ruleFaults' \in 0..MaxRuleFaults
      BY <2>2, <2>4 DEF LoadRules
    <3> QED
      BY <2>4, <3>2, <3>3 DEF RuleTypeOK
  <2>5. CASE FirstRules
    BY <2>1, <2>4, <2>5 DEF FirstRules, RuleTypeOK
  <2>6. ASSUME NEW r \in Moves, ChangeRule(r) PROVE RuleTypeOK'
    <3>1. r \in RuleSets /\ ValidRules(r) \in RuleFiles
      BY <2>2, <2>3
    <3>2. CASE /\ ruleFile' = ValidRules(r)
               /\ rules' = r /\ controls' = r
               /\ misloaded' = FALSE
               /\ UNCHANGED <<rulesLoaded, ruleFaults>>
      BY <2>1, <3>1, <3>2 DEF RuleTypeOK
    <3>3. CASE /\ ruleFaults < MaxRuleFaults
               /\ ruleFile' \in {ruleFile, ValidRules(r)}
               /\ LoadRules(ruleFile', ruleFaults + 1)
      <4>1. ruleFile' \in RuleFiles /\ ruleFaults + 1 \in 0..MaxRuleFaults
        BY <2>1, <2>2, <3>1, <3>3 DEF RuleTypeOK
      <4> QED
        BY <2>4, <3>3, <4>1
    <3> QED
      BY <2>6, <3>2, <3>3 DEF ChangeRule
  <2>7. CASE RestartRules
    <3>1. ruleFile' \in RuleFiles /\ ruleFaults' \in 0..MaxRuleFaults
      BY <2>1, <2>2, <2>3, <2>7 DEF RestartRules, RuleTypeOK
    <3> QED
      BY <2>2, <2>7, <3>1 DEF RestartRules, RuleTypeOK
  <2>8. CASE UNCHANGED ruleVars
    BY <2>1, <2>8 DEF ruleVars, RuleTypeOK
  <2> QED
    BY <2>1, <2>5, <2>6, <2>7, <2>8 DEF RulesNext
<1> QED
  BY <1>1, <1>2, PTL DEF RulesSpec

\* Every variable of the Doctor page has its type.
THEOREM DoctorTypes == DoctorSpec => []DoctorTypeOK
<1>1. Machines \subseteq Conditions /\ NoProbe \in ProbeFacts
  BY MachinesAssumption DEF NoProbe, ProbeFacts
<1>2. DoctorInit => DoctorTypeOK
  BY <1>1 DEF DoctorInit, DoctorTypeOK, Conditions, Severities
<1>3. DoctorTypeOK /\ [DoctorNext]_doctorVars => DoctorTypeOK'
  <2>1. SUFFICES ASSUME DoctorTypeOK, [DoctorNext]_doctorVars PROVE DoctorTypeOK'
    OBVIOUS
  <2>2. machine.probe \in ProbeFacts /\ machine.status \in StatusFacts
    BY <1>1, <2>1 DEF DoctorTypeOK, Conditions
  <2>3. \A s \in StatusFacts : \A p \in ProbeFacts : Findings(s, p) \in [Keys -> Severities]
    BY DEF Findings, Keys, Severities, Unless, BiosFinding, FanServiceFinding, ConflictFinding,
           ThermalSeverity
  <2>4. CASE UpdateReport
    <3>1. probe' \in ProbeFacts /\ rechecked' \in ProbeFacts /\ probeRead' \in BOOLEAN
      BY <1>1, <2>1, <2>2, <2>4 DEF UpdateReport, ReadProbe, DoctorTypeOK
    <3> QED
      BY <2>1, <2>2, <2>3, <2>4, <3>1 DEF UpdateReport, DoctorTypeOK
  <2>5. CASE RecheckProbe
    BY <1>1, <2>1, <2>2, <2>5 DEF RecheckProbe, ReadProbe, DoctorTypeOK
  <2>6. CASE MachineChanges
    BY <2>1, <2>6 DEF MachineChanges, DoctorTypeOK
  <2>7. CASE UNCHANGED doctorVars
    BY <2>1, <2>7 DEF doctorVars, DoctorTypeOK
  <2> QED
    BY <2>1, <2>4, <2>5, <2>6, <2>7 DEF DoctorNext
<1> QED
  BY <1>2, <1>3, PTL DEF DoctorSpec


\* Every variable of the process, its indicator and its language has its type.
THEOREM SessionTypes == SessionSpec => []SessionTypeOK
<1>1. SessionInit => SessionTypeOK
  <2> SUFFICES ASSUME SessionInit PROVE SessionTypeOK
    OBVIOUS
  <2>1. {languageFile, override, saidLanguage} = {NoLanguage}
        /\ {activeLanguage, languageRow} = {SystemLanguage}
    BY DEF SessionInit
  <2>2. SystemLanguage \in Languages /\ MaxSessionFaults \in Nat
    BY SessionAssumption
  <2>3. sessionFaults \in 0..MaxSessionFaults
    BY <2>2 DEF SessionInit
  <2>4. /\ trayAvailable \in BOOLEAN /\ watcher \in BOOLEAN /\ restartRow \in BOOLEAN
        /\ powerLost \in BOOLEAN
    BY DEF SessionInit
  <2>5. /\ {languageFile, override, saidLanguage} \subseteq Languages \cup {NoLanguage}
        /\ {activeLanguage, languageRow} \subseteq Languages /\ maybeLanguage \subseteq Languages
    BY <2>1, <2>2 DEF SessionInit
  <2>6. frame = "ended" /\ tray = "stopped"
    BY DEF SessionInit
  <2> QED
    BY <2>3, <2>4, <2>5, <2>6 DEF SessionTypeOK
<1>2. SessionTypeOK /\ [SessionNext]_sessionVars => SessionTypeOK'
  <2>1. SUFFICES ASSUME SessionTypeOK, [SessionNext]_sessionVars PROVE SessionTypeOK'
    OBVIOUS
  <2> DEFINE Codes == Languages \cup {NoLanguage}
  <2>2. /\ frame \in {"ended", "starting", "shown", "hidden"}
        /\ tray \in {"stopped", "owning", "exported"}
        /\ trayAvailable \in BOOLEAN /\ watcher \in BOOLEAN
        /\ languageFile \in Codes /\ override \in Codes /\ saidLanguage \in Codes
        /\ activeLanguage \in Languages /\ languageRow \in Languages
        /\ restartRow \in BOOLEAN /\ maybeLanguage \in SUBSET Languages
        /\ powerLost \in BOOLEAN /\ sessionFaults \in 0..MaxSessionFaults
    BY <2>1 DEF SessionTypeOK
  <2>3. SessionFault => sessionFaults' \in 0..MaxSessionFaults
    BY <2>2, SessionAssumption DEF SessionFault
  <2>4. ASSUME NEW environment \in Codes, Starts(environment), UNCHANGED Lasting
        PROVE  SessionTypeOK'
    <3>1. StartupLanguage(environment) \in Languages
      BY <2>2, SessionAssumption DEF StartupLanguage
    <3> QED
      BY <2>2, <2>4, <3>1 DEF Starts, Lasting, SessionTypeOK
  <2>5. ASSUME NEW environment \in Overrides, Launch(environment) PROVE SessionTypeOK'
    BY <2>4, <2>5, SessionAssumption DEF Launch
  <2>6. CASE Activate
    BY <2>2, <2>6 DEF Activate, trayVars, languageVars, SessionTypeOK
  <2>7. CASE Close
    BY <2>2, <2>7 DEF Close, Ends, trayVars, Lasting, SessionTypeOK
  <2>8. CASE RestartNow
    BY <2>2, <2>4, <2>8 DEF RestartNow
  <2>9. CASE BusAcquired
    BY <2>2, <2>9 DEF BusAcquired, languageVars, SessionTypeOK
  <2>10. CASE BusLost
    BY <2>2, <2>10 DEF BusLost, languageVars, SessionTypeOK
  <2>11. CASE WatcherComesOrGoes
    BY <2>2, <2>11 DEF WatcherComesOrGoes, trayVars, languageVars, SessionTypeOK
  <2>12. ASSUME NEW code \in Languages, ChooseLanguage(code) PROVE SessionTypeOK'
    <3>1. sessionFaults' \in 0..MaxSessionFaults
      BY <2>2, <2>3, <2>12 DEF ChooseLanguage
    <3> QED
      BY <2>2, <2>12, <3>1 DEF ChooseLanguage, trayVars, SessionTypeOK
  <2>13. ASSUME NEW code \in Languages, KilledSaving(code) PROVE SessionTypeOK'
    <3>1. sessionFaults' \in 0..MaxSessionFaults
      BY <2>3, <2>13 DEF KilledSaving, Unsure
    <3> QED
      BY <2>2, <2>13, <3>1 DEF KilledSaving, Unsure, Ends, SessionTypeOK
  <2>14. CASE PowerLoss
    <3>1. sessionFaults' \in 0..MaxSessionFaults
      BY <2>3, <2>14 DEF PowerLoss
    <3> QED
      BY <2>2, <2>14, <3>1 DEF PowerLoss, Ends, SessionTypeOK
  <2>15. CASE UNCHANGED sessionVars
    BY <2>2, <2>15 DEF sessionVars, trayVars, languageVars, SessionTypeOK
  <2> QED
    BY <2>1, <2>5, <2>6, <2>7, <2>8, <2>9, <2>10, <2>11, <2>12, <2>13, <2>14, <2>15
       DEF SessionNext
<1> QED
  BY <1>1, <1>2, PTL DEF SessionSpec

\* Every variable of the package's scripts has its type.
THEOREM PackageTypes == PackageSpec => []PackageTypeOK
<1>1. PackageInit => PackageTypeOK
  <2> SUFFICES ASSUME PackageInit PROVE PackageTypeOK
    OBVIOUS
  <2>1. unit \in Units
    BY DEF PackageInit, Units, On, Off
  <2>2. packageFaults \in 0..MaxPackageFaults
    BY PackageAssumption DEF PackageInit
  <2>3. marker \in BOOLEAN /\ manual \in BOOLEAN /\ owed \in BOOLEAN /\ disturbed \in BOOLEAN
    BY DEF PackageInit
  <2>4. /\ package = "configured" /\ script = "none" /\ job = "upgrade"
        /\ fans = "firmware"
    BY DEF PackageInit
  <2> QED
    BY <2>1, <2>2, <2>3, <2>4 DEF PackageTypeOK
<1>2. PackageTypeOK /\ [PackageNext]_packageVars => PackageTypeOK'
  <2>1. SUFFICES ASSUME PackageTypeOK, [PackageNext]_packageVars PROVE PackageTypeOK'
    OBVIOUS
  <2>2. PackageFault => packageFaults' \in 0..MaxPackageFaults
    BY <2>1, PackageAssumption DEF PackageFault, PackageTypeOK
  <2>3. /\ Off \in Units /\ On \in Units
        /\ \A e \in BOOLEAN : \A s \in {"stopped", "running", "waiting"} :
             /\ [enabled |-> e, state |-> s] \in Units
             /\ [unit EXCEPT !.state = s] \in Units
    BY <2>1 DEF Off, On, Units, PackageTypeOK
  <2>4. CASE BeginUpgrade \/ BeginRemoval \/ Configure \/ ResumeFiles
    BY <2>1, <2>4 DEF BeginUpgrade, BeginRemoval, Configure, ResumeFiles, PackageTypeOK, Prerm,
       Postinst
  <2>5. CASE Files
    BY <2>1, <2>2, <2>5 DEF Files, PackageTypeOK, Prerm, Postinst
  <2>6. CASE KillScripts
    BY <2>1, <2>2, <2>6 DEF KillScripts, PackageTypeOK, Prerm, Postinst
  <2>7. CASE Mark
    BY <2>1, <2>2, <2>7 DEF Mark, PackageTypeOK, Prerm, Postinst
  <2>8. CASE Disable
    BY <2>1, <2>2, <2>3, <2>8 DEF Disable, PackageTypeOK, Prerm, Postinst
  <2>9. CASE HandBack
    BY <2>1, <2>2, <2>9 DEF HandBack, PackageTypeOK, Prerm, Postinst
  <2>10. CASE Enable
    BY <2>1, <2>2, <2>3, <2>10 DEF Enable, PackageTypeOK, Prerm, Postinst
  <2>11. CASE Unmark \/ Tick
    BY <2>1, <2>11 DEF Unmark, Tick, PackageTypeOK, Prerm, Postinst
  <2>12. CASE DaemonFails
    BY <2>1, <2>2, <2>3, <2>12 DEF DaemonFails, PackageTypeOK, Prerm, Postinst
  <2>13. CASE StartsAgain \/ AskManual \/ AskAutomatic
    BY <2>1, <2>3, <2>13 DEF StartsAgain, AskManual, AskAutomatic, PackageTypeOK
  <2>14. CASE RebootMachine
    BY <2>1, <2>2, <2>3, <2>14 DEF RebootMachine, PackageTypeOK, Prerm, Postinst
  <2>15. CASE UNCHANGED packageVars
    BY <2>1, <2>15 DEF packageVars, PackageTypeOK
  <2> QED
    BY <2>1, <2>4, <2>5, <2>6, <2>7, <2>8, <2>9, <2>10, <2>11, <2>12, <2>13, <2>14, <2>15
       DEF PackageNext
<1> QED
  BY <1>1, <1>2, PTL DEF PackageSpec

\* _prune leaves times of any samples, whatever their order: after the clock
\* has been set back a view need not rise any more.
LEMMA PrunedType ==
  ASSUME NEW samples \in Seq(Times), NEW oldest \in Int
  PROVE  Pruned(samples, oldest) \in Seq(Times)
<1> DEFINE n == Len(samples)
<1>1. n \in Nat /\ \A i \in 1..n : samples[i] \in Times
  BY LenProperties, ElementOfSeq
<1>2. PICK first \in 1..(n + 1) : Pruned(samples, oldest) = SubSeq(samples, first, n)
  BY PrunedCuts
<1> HIDE DEF n
<1>3. first \in Int /\ n \in Int /\ \A i \in first..n : samples[i] \in Times
  BY <1>1, <1>2
<1> QED
  BY <1>2, <1>3, SubSeqProperties

\* What is shown of any file.
LEMMA ShownType ==
  ASSUME NEW f \in ArchiveFiles, NEW now, NEW age \in Windows
  PROVE  Shown(Load(f, age, now), age) \in Seq(Times)
<1> DEFINE records == Load(f, age, now)
           all == {r.time : r \in records}
<1>1. records \in SUBSET Records
  BY DEF Load, Within, Readable, ArchiveFiles
<1> HIDE DEF records
<1>2. CASE records = {}
  BY <1>2 DEF Shown, records
<1>3. CASE records # {}
  <2>1. InOrder(SampleTimes(records)) \in Seq(Times)
    BY <1>1, SampleTimesType, InOrderHolds
  <2>2. all \subseteq Times /\ all # {}
    BY <1>1, <1>3 DEF Records
  <2> HIDE DEF all
  <2>3. Latest(all) \in Times
    BY <2>2, LatestExists
  <2>4. Latest(all) - age \in Int
    BY <2>3, ArchiveAssumption DEF Times
  <2>5. Shown(records, age) = Pruned(InOrder(SampleTimes(records)), Latest(all) - age)
    BY <1>3 DEF Shown, all
  <2> QED
    BY <2>1, <2>4, <2>5, PrunedType DEF records
<1> QED
  BY <1>2, <1>3

\* The file and what is known of it; the counters, of which every torn write
\* takes one of the faults.
RecordsTyped ==
  /\ file \in ArchiveFiles /\ acked \subseteq Records
  /\ lastSample \in Times \cup {NoTime} /\ lastCompaction \in Times \cup {NoTime}

CountersTyped ==
  /\ torn \in Nat /\ torn <= faults /\ faults \in 0..MaxFaults
  /\ spoilt \in BOOLEAN /\ setBack \in BOOLEAN

ArchiveTyped ==
  /\ RecordsTyped /\ CountersTyped
  /\ clock \in Times /\ window \in Windows /\ view \in Seq(Times)

LEMMA FaultUsed ==
  ASSUME CountersTyped, Fails, torn' = torn \/ torn' = torn + 1,
         spoilt' \in {spoilt, TRUE}, setBack' \in {setBack, TRUE}
  PROVE  CountersTyped'
<1>1. torn' \in Nat /\ torn' <= faults'
  BY DEF CountersTyped, Fails
<1>2. faults' \in 0..MaxFaults
  BY ArchiveAssumption DEF CountersTyped, Fails
<1>3. spoilt' \in BOOLEAN /\ setBack' \in BOOLEAN
  BY DEF CountersTyped
<1> QED
  BY <1>1, <1>2, <1>3 DEF CountersTyped

LEMMA RecordTyped ==
  ASSUME RecordsTyped, CountersTyped, clock \in Times, NEW r \in Records, Record(r),
         UNCHANGED setBack
  PROVE  RecordsTyped' /\ CountersTyped'
<1> DEFINE f == Added(file, r)
           sampled == IF r.kind = "sample" THEN r.time ELSE lastSample
           loaded == LastLoaded(Load(f, Retention, clock), sampled)
<1>1. f \in ArchiveFiles
  BY AddedShape DEF RecordsTyped
<1>2. sampled \in Times \cup {NoTime}
  BY DEF RecordsTyped, Records
<1> HIDE DEF f, sampled
<1>3. loaded \in Times \cup {NoTime}
  BY <1>1, <1>2, LoadedType
<1> HIDE DEF loaded
<1>4. Compacted(f, clock) \in ArchiveFiles
  BY <1>1 DEF Compacted, Sealed, Newest, Load, Within, Readable, ArchiveFiles
<1>5. Retained(f, acked \cup {r}) \subseteq Records /\ acked \cup {r} \subseteq Records
  BY DEF Retained, RecordsTyped
<1>6. CASE Written(r) /\ UNCHANGED <<torn, spoilt>>
  <2>1. /\ file' \in {f, Compacted(f, clock)}
        /\ acked' \in {acked, acked \cup {r}, Retained(f, acked \cup {r})}
        /\ lastSample' \in {sampled, loaded}
        /\ lastCompaction' \in {lastCompaction, clock}
        /\ UNCHANGED faults \/ Fails
    BY <1>6 DEF Written, f, sampled, loaded
  <2>2. RecordsTyped'
    BY <1>1, <1>2, <1>3, <1>4, <1>5, <2>1 DEF RecordsTyped
  <2>3. CASE UNCHANGED faults
    BY <1>6, <2>2, <2>3 DEF CountersTyped
  <2>4. CASE Fails
    BY <1>6, <2>2, <2>4, FaultUsed
  <2> QED
    BY <2>1, <2>3, <2>4
<1>7. CASE /\ Fails
           /\ TornOff(r) \/ UNCHANGED <<file, torn, spoilt>>
           /\ UNCHANGED <<lastSample, lastCompaction, acked>>
  <2>1. /\ torn' = torn \/ torn' = torn + 1
        /\ spoilt' \in {spoilt, TRUE}
    BY <1>7 DEF TornOff
  <2>2. CountersTyped'
    BY <1>7, <2>1, FaultUsed
  <2>3. file' \in ArchiveFiles
    BY <1>7, TornShape DEF RecordsTyped
  <2> QED
    BY <1>7, <2>2, <2>3 DEF RecordsTyped
<1> QED
  BY <1>6, <1>7 DEF Record

LEMMA StartedTyped ==
  ASSUME NEW f \in ArchiveFiles, Started(f)
  PROVE  /\ window' \in Windows /\ view' \in Seq(Times)
         /\ lastSample' \in Times \cup {NoTime} /\ lastCompaction' \in Times \cup {NoTime}
<1>1. ShortWindow \in Windows /\ NoTime \in Times \cup {NoTime}
  BY ShortWindowType
<1>2. Shown(Load(f, ShortWindow, clock), ShortWindow) \in Seq(Times)
  BY <1>1, ShownType
<1>3. LastLoaded(Load(f, ShortWindow, clock), NoTime) \in Times \cup {NoTime}
  BY <1>1, LoadedType
<1> QED
  BY <1>1, <1>2, <1>3 DEF Started

\* Every variable of the telemetry has its type, and no more writes are torn
\* than faults have happened.
THEOREM ArchiveTypes == ArchiveSpec => []ArchiveTypeOK
<1>1. ArchiveInit => ArchiveTyped
  <2> SUFFICES ASSUME ArchiveInit PROVE ArchiveTyped
    OBVIOUS
  <2>1. file \in ArchiveFiles
    BY DEF ArchiveInit, NoFile, Sealed, ArchiveFiles
  <2>2. RecordsTyped
    BY <2>1 DEF ArchiveInit, RecordsTyped
  <2>3. torn \in Nat /\ torn <= faults /\ faults \in 0..MaxFaults
    BY ArchiveAssumption DEF ArchiveInit
  <2>4. CountersTyped
    BY <2>3 DEF ArchiveInit, CountersTyped
  <2>5. clock \in Times
    BY ArchiveAssumption DEF ArchiveInit, Times
  <2>6. window \in Windows /\ view \in Seq(Times)
    BY ShortWindowType DEF ArchiveInit
  <2> QED
    BY <2>2, <2>4, <2>5, <2>6 DEF ArchiveTyped
<1>2. ArchiveTyped /\ [ArchiveNext]_archiveVars => ArchiveTyped'
  <2>1. SUFFICES ASSUME ArchiveTyped, [ArchiveNext]_archiveVars PROVE ArchiveTyped'
    OBVIOUS
  <2>2. /\ RecordsTyped /\ CountersTyped /\ clock \in Times /\ window \in Windows
        /\ view \in Seq(Times)
    BY <2>1 DEF ArchiveTyped
  <2>3. /\ clock - window \in Int
        /\ file \in ArchiveFiles /\ lastSample \in Times \cup {NoTime}
        /\ Sample \in Records /\ Event \in Records
    BY <2>2, ArchiveAssumption DEF RecordsTyped, Times, Sample, Event, Records
  <2>4. CASE UpdateStatus
    <3>1. view' \in Seq(Times)
      <4>1. Append(view, clock) \in Seq(Times)
        BY <2>2, AppendProperties
      <4> QED
        BY <2>3, <2>4, <4>1, PrunedType DEF UpdateStatus
    <3>2. CASE Record(Sample)
      <4>1. RecordsTyped' /\ CountersTyped'
        BY <2>2, <2>3, <2>4, <3>2, RecordTyped DEF UpdateStatus
      <4> QED
        BY <2>2, <2>4, <3>1, <4>1 DEF UpdateStatus, ArchiveTyped
    <3>3. CASE UNCHANGED <<file, lastSample, lastCompaction, acked, torn, spoilt, faults>>
      BY <2>2, <2>4, <3>1, <3>3 DEF UpdateStatus, ArchiveTyped, RecordsTyped, CountersTyped
    <3> QED
      BY <2>4, <3>2, <3>3 DEF UpdateStatus
  <2>5. CASE RecordEvent
    <3>1. view' \in Seq(Times)
      BY <2>2, <2>3, <2>5, PrunedType DEF RecordEvent
    <3>2. RecordsTyped' /\ CountersTyped'
      BY <2>2, <2>3, <2>5, RecordTyped DEF RecordEvent
    <3> QED
      BY <2>2, <2>5, <3>1, <3>2 DEF RecordEvent, ArchiveTyped
  <2>6. ASSUME NEW w \in Windows, ChangeWindow(w) PROVE ArchiveTyped'
    <3>1. view' \in Seq(Times) /\ lastSample' \in Times \cup {NoTime}
      BY <2>3, <2>6, ShownType, LoadedType DEF ChangeWindow
    <3> QED
      BY <2>2, <2>6, <3>1 DEF ChangeWindow, ArchiveTyped, RecordsTyped, CountersTyped
  <2>7. CASE ExportCsv
    <3>1. lastSample' \in Times \cup {NoTime}
      BY <2>3, <2>7, LoadedType DEF ExportCsv
    <3> QED
      BY <2>2, <2>7, <3>1 DEF ExportCsv, ArchiveTyped, RecordsTyped, CountersTyped
  <2>8. CASE Restart
    <3>1. /\ window' \in Windows /\ view' \in Seq(Times)
          /\ lastSample' \in Times \cup {NoTime} /\ lastCompaction' \in Times \cup {NoTime}
      BY <2>3, <2>8, StartedTyped DEF Restart
    <3> QED
      BY <2>2, <2>8, <3>1 DEF Restart, ArchiveTyped, RecordsTyped, CountersTyped
  <2>9. ASSUME NEW r \in {Sample, Event}, KilledWriting(r) PROVE ArchiveTyped'
    <3>1. file' \in ArchiveFiles
      <4>1. r \in Records
        BY <2>3
      <4>2. CASE file' = Added(file, r)
        BY <2>3, <4>1, <4>2, AddedShape
      <4>3. CASE TornOff(r)
        BY <2>3, <4>1, <4>3, TornShape
      <4> QED
        BY <2>9, <4>2, <4>3 DEF KilledWriting
    <3>2. /\ window' \in Windows /\ view' \in Seq(Times)
          /\ lastSample' \in Times \cup {NoTime} /\ lastCompaction' \in Times \cup {NoTime}
      BY <2>9, <3>1, StartedTyped DEF KilledWriting
    <3>3. /\ torn' = torn \/ torn' = torn + 1
          /\ spoilt' \in {spoilt, TRUE}
      BY <2>9 DEF KilledWriting, TornOff
    <3>4. CountersTyped'
      BY <2>2, <2>9, <3>3, FaultUsed DEF KilledWriting
    <3> QED
      BY <2>2, <2>9, <3>1, <3>2, <3>4 DEF KilledWriting, ArchiveTyped, RecordsTyped
  <2>10. CASE ClockTicks
    <3>1. clock' \in Times
      BY <2>2, <2>10, ArchiveAssumption DEF ClockTicks, Times
    <3> QED
      BY <2>2, <2>10, <3>1 DEF ClockTicks, ArchiveTyped, RecordsTyped, CountersTyped
  <2>11. CASE ClockSetBack
    <3>1. CountersTyped'
      BY <2>2, <2>11, FaultUsed DEF ClockSetBack
    <3> QED
      BY <2>2, <2>11, <3>1 DEF ClockSetBack, ArchiveTyped, RecordsTyped
  <2>12. CASE UNCHANGED archiveVars
    BY <2>2, <2>12 DEF archiveVars, ArchiveTyped, RecordsTyped, CountersTyped
  <2> QED
    BY <2>1, <2>4, <2>5, <2>6, <2>7, <2>8, <2>9, <2>10, <2>11, <2>12 DEF ArchiveNext
<1>3. ArchiveTyped => ArchiveTypeOK
  <2> SUFFICES ASSUME ArchiveTyped PROVE ArchiveTypeOK
    OBVIOUS
  <2>1. torn \in 0..MaxFaults
    BY ArchiveAssumption DEF ArchiveTyped, CountersTyped
  <2> QED
    BY <2>1 DEF ArchiveTyped, RecordsTyped, CountersTyped, ArchiveTypeOK
<1> QED
  BY <1>1, <1>2, <1>3, PTL DEF ArchiveSpec

\* Every variable of the notice of an update has its type, which is part of
\* its invariant (StoreProofs).
THEOREM NoticeTypes == NoticeSpec => []NoticeTypeOK
<1>1. NoticeInv => NoticeTypeOK
  BY DEF NoticeInv
<1> QED
  BY <1>1, NoticeInvariance, PTL

\* Every variable of the scenes and their file has its type, which is part of
\* their invariant (StoreProofs).
THEOREM SceneTypes == SceneSpec => []SceneTypeOK
<1>1. SceneInv => SceneTypeOK
  BY DEF SceneInv
<1> QED
  BY <1>1, SceneInvariance, PTL

-----------------------------------------------------------------------------
(* The parts together *)

\* Seen by itself, every part of the desktop behaves as its own specification
\* says: a step of the whole is a step of the part or leaves it alone.
LEMMA PartsRun ==
  DesktopSpec =>
    /\ ArchiveSpec
    /\ NoticeSpec
    /\ SceneSpec
    /\ RulesSpec
    /\ PowerSpec
    /\ KeyboardSpec
    /\ AlertSpec
    /\ DoctorSpec
    /\ SessionSpec
    /\ PackageSpec
<1>1. DesktopInit =>
        /\ ArchiveInit /\ NoticeInit /\ SceneInit /\ RulesInit /\ PowerInit
        /\ KeyboardInit /\ AlertInit /\ DoctorInit /\ SessionInit /\ PackageInit
  BY DEF DesktopInit
<1>2. [DesktopNext]_desktopVars => [ArchiveNext]_archiveVars
  BY DEF DesktopNext, desktopVars
<1>3. [DesktopNext]_desktopVars => [NoticeNext]_noticeVars
  BY DEF DesktopNext, desktopVars
<1>4. [DesktopNext]_desktopVars => [SceneNext]_sceneVars
  BY DEF DesktopNext, desktopVars
<1>5. [DesktopNext]_desktopVars => [RulesNext]_ruleVars
  BY DEF DesktopNext, desktopVars
<1>6. [DesktopNext]_desktopVars => [PowerNext]_powerVars
  BY DEF DesktopNext, desktopVars
<1>7. [DesktopNext]_desktopVars => [KeyboardNext]_keyboardVars
  BY DEF DesktopNext, desktopVars
<1>8. [DesktopNext]_desktopVars => [AlertNext]_alertVars
  BY DEF DesktopNext, desktopVars
<1>9. [DesktopNext]_desktopVars => [DoctorNext]_doctorVars
  BY DEF DesktopNext, desktopVars
<1>10. [DesktopNext]_desktopVars => [SessionNext]_sessionVars
  BY DEF DesktopNext, desktopVars
<1>11. [DesktopNext]_desktopVars => [PackageNext]_packageVars
  BY DEF DesktopNext, desktopVars
<1> QED
  BY <1>1, <1>2, <1>3, <1>4, <1>5, <1>6, <1>7, <1>8, <1>9, <1>10, <1>11, PTL
     DEF DesktopSpec, ArchiveSpec, NoticeSpec, SceneSpec, RulesSpec, PowerSpec,
         KeyboardSpec, AlertSpec, DoctorSpec, SessionSpec, PackageSpec

\* The state of every part has its type, whichever part runs.
THEOREM DesktopTyped == DesktopSpec => []DesktopTypeOK
<1>1. /\ ArchiveTypeOK /\ NoticeTypeOK /\ SceneTypeOK /\ RuleTypeOK /\ PowerTypeOK
      /\ KeyboardTypeOK /\ AlertTypeOK /\ DoctorTypeOK /\ SessionTypeOK /\ PackageTypeOK
      => DesktopTypeOK
  BY DEF DesktopTypeOK
<1> QED
  BY <1>1, PartsRun, ArchiveTypes, NoticeTypes, SceneTypes, RuleTypes, PowerTypes, KeyboardTyped,
     AlertTypes, DoctorTypes, SessionTypes, PackageTypes, PTL

\* What the parts promise of their states: nothing saved is lost but what a torn
\* write takes, the samples are spaced and shown, heat is told, the rules, the
\* choices and the scenes are the saved ones, a pair of limits is whole, what
\* was asked of the keyboard is lit, and an upgrade leaves the service as it was.
DesktopPromises ==
  /\ TearCostsOne /\ SamplesSpaced /\ ViewComplete
  /\ HeatIsTold /\ RulesShown /\ ChoiceKept
  /\ SavedScenesKept /\ OneScene
  /\ PowerSound /\ KeyboardShows /\ DeploymentKept

\* The properties of the parts hold of the desktop they make up, those of its
\* states and those of its steps: the language follows the user's choice, the
\* Doctor reports what it found, and no kept answer is asked for again.
THEOREM PromisesKept ==
  DesktopSpec =>
    []DesktopPromises /\ LanguageFollows /\ ReportHonest /\ AnswerNotAskedAgain
<1>1. /\ TearCostsOne /\ SamplesSpaced /\ ViewComplete
      /\ HeatIsTold /\ RulesShown /\ ChoiceKept
      /\ SavedScenesKept /\ OneScene
      /\ PowerSound /\ KeyboardShows /\ DeploymentKept
      => DesktopPromises
  BY DEF DesktopPromises
<1> QED
  BY <1>1, PartsRun, TearsCostOneEach, SamplesAreSpaced, ViewsAreComplete, HeatIsAlwaysTold,
     RulesAreShown, ChoicesAreKept, SavedScenesAreKept, ScenesAreOne, PowerIsSound, AskedIsLit,
     DeploymentIsKept, LanguageIsFollowed, ReportIsHonest, AnswersAreKept, PTL
=============================================================================
