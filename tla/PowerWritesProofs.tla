------------------------- MODULE PowerWritesProofs -------------------------
(* The promises of PowerWrites for every pair of bounds and every value the  *)
(* registers can hold.                                                       *)
EXTENDS PowerWrites, TLAPS

\* What a request running has done so far, and what it can go back to.
Progress ==
  /\ writing.step # "idle" => answer = "none"
  /\ writing.step # "idle" => InBounds(writing.target)
  /\ writing.step # "idle" => (~damaged => InBounds(writing.previous))
  /\ writing.step = "slow" => pair.sustained = writing.target.sustained
  /\ writing.step = "undo slow" =>
       (~writing.lost => pair.sustained = writing.previous.sustained)
  /\ writing.step \in {"sustained", "slow", "undo sustained"} => ~writing.lost

IInv == PowerTypeOK /\ Progress /\ AnswerIsTrue /\ PairWhole

\* Two pairs with the same limits are one.
LEMMA SamePair ==
  ASSUME NEW p \in Pairs, NEW q \in Pairs, p.sustained = q.sustained, p.slow = q.slow
  PROVE  p = q
  BY DEF Pairs

\* A pair with one limit replaced is a pair, and the other limit is what it was.
LEMMA OneWritten ==
  ASSUME NEW p \in Pairs, NEW w \in Registered
  PROVE  /\ [p EXCEPT !["sustained"] = w] \in Pairs
         /\ [p EXCEPT !["sustained"] = w].sustained = w
         /\ [p EXCEPT !["sustained"] = w].slow = p.slow
         /\ [p EXCEPT !["slow"] = w] \in Pairs
         /\ [p EXCEPT !["slow"] = w].slow = w
         /\ [p EXCEPT !["slow"] = w].sustained = p.sustained
  BY DEF Pairs

\* The request of a type-correct state.
LEMMA RequestType ==
  ASSUME PowerTypeOK
  PROVE  /\ pair \in Pairs
         /\ writing.target \in Limits /\ writing.previous \in Limits
         /\ writing.target \in Pairs /\ writing.previous \in Pairs
         /\ writing.target.sustained \in Registered /\ writing.target.slow \in Registered
         /\ writing.previous.sustained \in Registered /\ writing.previous.slow \in Registered
  BY DEF PowerTypeOK, Limits, Pairs

\* Moving a request to its next write changes nothing else of it.
LEMMA Moved ==
  ASSUME PowerTypeOK, NEW step \in Steps, GoOn(step)
  PROVE  /\ writing' \in [step : Steps, target : Limits, previous : Limits, lost : BOOLEAN]
         /\ writing'.step = step /\ writing'.target = writing.target
         /\ writing'.previous = writing.previous /\ writing'.lost = writing.lost
  BY DEF PowerTypeOK, GoOn

\* A fault is counted within its bound.
LEMMA FaultCounted ==
  ASSUME PowerTypeOK, powerFaults < MaxPowerFaults
  PROVE  powerFaults + 1 \in 0..MaxPowerFaults
<1>1. MaxPowerFaults \in Nat /\ powerFaults \in 0..MaxPowerFaults
  BY PowerAssumption DEF PowerTypeOK
<1> QED
  BY <1>1

\* A doubtful write leaves a pair, whatever the register holds.
LEMMA DoubtfulType ==
  ASSUME PowerTypeOK, NEW name \in {"sustained", "slow"}, Doubtful(name)
  PROVE  pair' \in Pairs /\ powerFaults' \in 0..MaxPowerFaults
<1>1. PICK w \in Registered : pair' = [pair EXCEPT ![name] = w]
  BY DEF Doubtful
<1>2. pair \in Pairs
  BY DEF PowerTypeOK
<1>3. pair' \in Pairs
  <2>1. CASE name = "sustained"
    BY <1>1, <1>2, <2>1, OneWritten
  <2>2. CASE name = "slow"
    BY <1>1, <1>2, <2>2, OneWritten
  <2> QED
    BY <2>1, <2>2
<1> QED
  BY <1>3, FaultCounted DEF Doubtful

LEMMA InitInv == PowerInit => IInv
<1>1. SUFFICES ASSUME PowerInit PROVE IInv
  OBVIOUS
<1>2. /\ SustainedBounds.default \in Registered /\ SlowBounds.default \in Registered
       /\ SustainedBounds.default <= SlowBounds.default /\ MaxPowerFaults \in Nat
       /\ ContainsWatts(SustainedBounds, SustainedBounds.default)
       /\ ContainsWatts(SlowBounds, SlowBounds.default)
  BY PowerAssumption DEF ValidBounds
<1>3. /\ pair = [sustained |-> SustainedBounds.default, slow |-> SlowBounds.default]
      /\ inCustom \in BOOLEAN
      /\ writing = [step |-> "idle", target |-> pair, previous |-> pair, lost |-> FALSE]
      /\ answer = "none" /\ damaged = FALSE /\ powerFaults = 0
  BY <1>1 DEF PowerInit
<1>4. pair \in Limits /\ InBounds(pair)
  BY <1>2, <1>3 DEF Limits, Pairs, InBounds
<1>5. PowerTypeOK
  <2>1. pair \in Pairs
    BY <1>4 DEF Limits
  <2>2. writing \in [step : Steps, target : Limits, previous : Limits, lost : BOOLEAN]
    BY <1>3, <1>4 DEF Steps
  <2>3. powerFaults \in 0..MaxPowerFaults
    BY <1>3, <1>2
  <2> QED
    BY <1>3, <2>1, <2>2, <2>3 DEF PowerTypeOK, Answers
<1> QED
  BY <1>3, <1>4, <1>5 DEF IInv, Progress, AnswerIsTrue, PairWhole

\* A request that is refused changes nothing; one that starts remembers a pair
\* it can go back to.
LEMMA BeginInv ==
  ASSUME IInv, NEW target \in Limits, Begin(target)
  PROVE  IInv'
<1>1. writing.step = "idle" /\ PowerTypeOK /\ PairWhole
  BY DEF IInv, Begin
<1>2. pair' = pair /\ inCustom' = inCustom /\ damaged' = damaged /\ powerFaults' = powerFaults
  BY DEF Begin
<1>3. CASE writing' = writing /\ answer' \in {"not custom", "invalid", "unreadable"}
  <2>1. PowerTypeOK'
    BY <1>1, <1>2, <1>3 DEF PowerTypeOK, Answers
  <2> QED
    BY <1>1, <1>2, <1>3, <2>1 DEF IInv, Progress, AnswerIsTrue, PairWhole, InBounds
<1>4. CASE /\ writing' = [step |-> "sustained", target |-> target, previous |-> pair,
                          lost |-> FALSE]
           /\ answer' = "none" /\ InBounds(target) /\ pair \in Limits
  <2>1. /\ writing'.step = "sustained" /\ writing'.target = target
        /\ writing'.previous = pair /\ writing'.lost = FALSE
    BY <1>4
  <2>2. PowerTypeOK'
    BY <1>1, <1>2, <1>4 DEF PowerTypeOK, Answers, Steps
  <2>3. Progress'
    BY <1>1, <1>2, <1>4, <2>1 DEF Progress, PairWhole, InBounds
  <2> QED
    BY <1>4, <2>1, <2>2, <2>3 DEF IInv, AnswerIsTrue, PairWhole
<1> QED
  BY <1>3, <1>4 DEF Begin

LEMMA WriteSustainedInv ==
  ASSUME IInv, WriteSustained
  PROVE  IInv'
<1>1. PowerTypeOK /\ Progress /\ writing.step = "sustained"
  BY DEF IInv, WriteSustained
<1>2. inCustom' = inCustom /\ answer' = answer /\ damaged' = damaged /\ answer = "none"
  BY <1>1 DEF WriteSustained, Progress
<1>3. CASE Confirmed("sustained", writing.target.sustained) /\ GoOn("slow")
  <2>1. /\ writing' \in [step : Steps, target : Limits, previous : Limits, lost : BOOLEAN]
        /\ writing'.step = "slow" /\ writing'.target = writing.target
        /\ writing'.previous = writing.previous /\ writing'.lost = writing.lost
    BY <1>1, <1>3, Moved DEF Steps
  <2>2. pair' \in Pairs /\ pair'.sustained = writing.target.sustained
    BY <1>1, <1>3, RequestType, OneWritten DEF Confirmed
  <2>3. PowerTypeOK'
    BY <1>1, <1>2, <1>3, <2>1, <2>2 DEF PowerTypeOK, Confirmed
  <2>4. Progress'
    BY <1>1, <1>2, <2>1, <2>2 DEF Progress, InBounds
  <2> QED
    BY <1>2, <2>1, <2>3, <2>4 DEF IInv, AnswerIsTrue, PairWhole
<1>4. CASE Doubtful("sustained") /\ GoOn("undo sustained")
  <2>1. /\ writing' \in [step : Steps, target : Limits, previous : Limits, lost : BOOLEAN]
        /\ writing'.step = "undo sustained" /\ writing'.target = writing.target
        /\ writing'.previous = writing.previous /\ writing'.lost = writing.lost
    BY <1>1, <1>4, Moved DEF Steps
  <2>2. pair' \in Pairs /\ powerFaults' \in 0..MaxPowerFaults
    BY <1>1, <1>4, DoubtfulType
  <2>3. PowerTypeOK'
    BY <1>1, <1>2, <1>4, <2>1, <2>2 DEF PowerTypeOK
  <2>4. Progress'
    BY <1>1, <1>2, <2>1 DEF Progress, InBounds
  <2> QED
    BY <1>2, <2>1, <2>3, <2>4 DEF IInv, AnswerIsTrue, PairWhole
<1> QED
  BY <1>3, <1>4 DEF WriteSustained

\* The second write confirms the pair that was asked for.
LEMMA WriteSlowInv ==
  ASSUME IInv, WriteSlow
  PROVE  IInv'
<1>1. PowerTypeOK /\ Progress /\ writing.step = "slow"
  BY DEF IInv, WriteSlow
<1>2. inCustom' = inCustom /\ answer = "none"
  BY <1>1 DEF WriteSlow, Progress
<1>3. CASE /\ Confirmed("slow", writing.target.slow) /\ GoOn("idle")
           /\ answer' = "applied" /\ damaged' = FALSE
  <2>1. /\ writing' \in [step : Steps, target : Limits, previous : Limits, lost : BOOLEAN]
        /\ writing'.step = "idle" /\ writing'.target = writing.target
    BY <1>1, <1>3, Moved DEF Steps
  <2>2. /\ pair' \in Pairs /\ pair'.slow = writing.target.slow
        /\ pair'.sustained = pair.sustained
    BY <1>1, <1>3, RequestType, OneWritten DEF Confirmed
  <2>3. pair' = writing.target
    BY <1>1, <2>2, RequestType, SamePair DEF Progress
  <2>4. PowerTypeOK'
    BY <1>1, <1>2, <1>3, <2>1, <2>2 DEF PowerTypeOK, Confirmed, Answers
  <2>5. pair' \in Limits /\ InBounds(pair')
    BY <1>1, <2>3, RequestType DEF Progress
  <2>6. Progress'
    BY <2>1 DEF Progress
  <2> QED
    BY <1>3, <2>1, <2>3, <2>4, <2>5, <2>6 DEF IInv, AnswerIsTrue, PairWhole, InBounds
<1>4. CASE Doubtful("slow") /\ GoOn("undo sustained") /\ UNCHANGED <<answer, damaged>>
  <2>1. /\ writing' \in [step : Steps, target : Limits, previous : Limits, lost : BOOLEAN]
        /\ writing'.step = "undo sustained" /\ writing'.target = writing.target
        /\ writing'.previous = writing.previous /\ writing'.lost = writing.lost
    BY <1>1, <1>4, Moved DEF Steps
  <2>2. pair' \in Pairs /\ powerFaults' \in 0..MaxPowerFaults
    BY <1>1, <1>4, DoubtfulType
  <2>3. PowerTypeOK'
    BY <1>1, <1>2, <1>4, <2>1, <2>2 DEF PowerTypeOK
  <2>4. Progress'
    BY <1>1, <1>2, <1>4, <2>1 DEF Progress, InBounds
  <2> QED
    BY <1>2, <1>4, <2>1, <2>3, <2>4 DEF IInv, AnswerIsTrue, PairWhole
<1> QED
  BY <1>3, <1>4 DEF WriteSlow

LEMMA UndoSustainedInv ==
  ASSUME IInv, UndoSustained
  PROVE  IInv'
<1>1. PowerTypeOK /\ Progress /\ writing.step = "undo sustained"
  BY DEF IInv, UndoSustained
<1>2. inCustom' = inCustom /\ answer' = answer /\ damaged' = damaged /\ answer = "none"
  BY <1>1 DEF UndoSustained, Progress
<1>3. CASE Confirmed("sustained", writing.previous.sustained) /\ GoOn("undo slow")
  <2>1. /\ writing' \in [step : Steps, target : Limits, previous : Limits, lost : BOOLEAN]
        /\ writing'.step = "undo slow" /\ writing'.target = writing.target
        /\ writing'.previous = writing.previous /\ writing'.lost = writing.lost
    BY <1>1, <1>3, Moved DEF Steps
  <2>2. pair' \in Pairs /\ pair'.sustained = writing.previous.sustained
    BY <1>1, <1>3, RequestType, OneWritten DEF Confirmed
  <2>3. PowerTypeOK'
    BY <1>1, <1>2, <1>3, <2>1, <2>2 DEF PowerTypeOK, Confirmed
  <2>4. Progress'
    BY <1>1, <1>2, <2>1, <2>2 DEF Progress, InBounds
  <2> QED
    BY <1>2, <2>1, <2>3, <2>4 DEF IInv, AnswerIsTrue, PairWhole
<1>4. CASE /\ Doubtful("sustained")
           /\ writing' = [writing EXCEPT !.step = "undo slow", !.lost = TRUE]
  <2>1. /\ writing' \in [step : Steps, target : Limits, previous : Limits, lost : BOOLEAN]
        /\ writing'.step = "undo slow" /\ writing'.target = writing.target
        /\ writing'.previous = writing.previous /\ writing'.lost = TRUE
    BY <1>1, <1>4 DEF Steps, PowerTypeOK
  <2>2. pair' \in Pairs /\ powerFaults' \in 0..MaxPowerFaults
    BY <1>1, <1>4, DoubtfulType
  <2>3. PowerTypeOK'
    BY <1>1, <1>2, <1>4, <2>1, <2>2 DEF PowerTypeOK
  <2>4. Progress'
    BY <1>1, <1>2, <2>1 DEF Progress, InBounds
  <2> QED
    BY <1>2, <2>1, <2>3, <2>4 DEF IInv, AnswerIsTrue, PairWhole
<1> QED
  BY <1>3, <1>4 DEF UndoSustained

\* The second undo confirms the pair there was, unless the first was lost.
LEMMA UndoSlowInv ==
  ASSUME IInv, UndoSlow
  PROVE  IInv'
<1>1. PowerTypeOK /\ Progress /\ writing.step = "undo slow"
  BY DEF IInv, UndoSlow
<1>2. inCustom' = inCustom /\ answer = "none"
  BY <1>1 DEF UndoSlow, Progress
<1>3. /\ writing' \in [step : Steps, target : Limits, previous : Limits, lost : BOOLEAN]
      /\ writing'.step = "idle" /\ writing'.target = writing.target
      /\ writing'.previous = writing.previous
  BY <1>1, Moved DEF Steps, UndoSlow
<1>4. Progress'
  BY <1>3 DEF Progress
<1>5. CASE Confirmed("slow", writing.previous.slow)
  <2>1. /\ pair' \in Pairs /\ pair'.slow = writing.previous.slow
        /\ pair'.sustained = pair.sustained
    BY <1>1, <1>5, RequestType, OneWritten DEF Confirmed
  <2>2. CASE writing.lost /\ answer' = "incomplete" /\ damaged' = TRUE
    <3>1. PowerTypeOK'
      BY <1>1, <1>2, <1>3, <1>5, <2>1, <2>2 DEF PowerTypeOK, Confirmed, Answers
    <3> QED
      BY <1>4, <2>2, <3>1 DEF IInv, AnswerIsTrue, PairWhole
  <2>3. CASE ~writing.lost /\ answer' = "restored" /\ damaged' = damaged
    <3>1. pair' = writing.previous
      BY <1>1, <2>1, <2>3, RequestType, SamePair DEF Progress
    <3>2. PowerTypeOK'
      BY <1>1, <1>2, <1>3, <1>5, <2>1, <2>3 DEF PowerTypeOK, Confirmed, Answers
    <3>3. ~damaged => pair' \in Limits /\ InBounds(pair')
      BY <1>1, <3>1, RequestType DEF Progress
    <3> QED
      BY <1>3, <1>4, <2>3, <3>1, <3>2, <3>3 DEF IInv, AnswerIsTrue, PairWhole, InBounds
  <2>4. writing.lost \in BOOLEAN
    BY <1>1 DEF PowerTypeOK
  <2>5. \/ writing.lost /\ answer' = "incomplete" /\ damaged' = TRUE
        \/ ~writing.lost /\ answer' = "restored" /\ damaged' = damaged
        \/ answer' = "incomplete" /\ damaged' = TRUE
    BY <2>4 DEF UndoSlow
  <2>6. CASE answer' = "incomplete" /\ damaged' = TRUE
    <3>1. PowerTypeOK'
      BY <1>1, <1>2, <1>3, <1>5, <2>1, <2>6 DEF PowerTypeOK, Confirmed, Answers
    <3> QED
      BY <1>4, <2>6, <3>1 DEF IInv, AnswerIsTrue, PairWhole
  <2> QED
    BY <2>2, <2>3, <2>5, <2>6
<1>6. CASE Doubtful("slow") /\ answer' = "incomplete" /\ damaged' = TRUE
  <2>1. pair' \in Pairs /\ powerFaults' \in 0..MaxPowerFaults
    BY <1>1, <1>6, DoubtfulType
  <2>2. PowerTypeOK'
    BY <1>1, <1>2, <1>3, <1>6, <2>1 DEF PowerTypeOK, Answers
  <2> QED
    BY <1>4, <1>6, <2>2 DEF IInv, AnswerIsTrue, PairWhole
<1> QED
  BY <1>5, <1>6 DEF UndoSlow

LEMMA KillWriterInv ==
  ASSUME IInv, KillWriter
  PROVE  IInv'
<1>1. PowerTypeOK
  BY DEF IInv
<1>2. /\ pair' = pair /\ inCustom' = inCustom /\ answer' = "none" /\ damaged' = TRUE
      /\ powerFaults < MaxPowerFaults /\ powerFaults' = powerFaults + 1
  BY DEF KillWriter
<1>3. /\ writing' \in [step : Steps, target : Limits, previous : Limits, lost : BOOLEAN]
      /\ writing'.step = "idle"
  BY <1>1, Moved DEF Steps, KillWriter
<1>4. PowerTypeOK'
  BY <1>1, <1>2, <1>3, FaultCounted DEF PowerTypeOK, Answers
<1> QED
  BY <1>2, <1>3, <1>4 DEF IInv, Progress, AnswerIsTrue, PairWhole

LEMMA FirmwareSetsInv ==
  ASSUME IInv, FirmwareSets
  PROVE  IInv'
<1>1. PowerTypeOK /\ writing.step = "idle"
  BY DEF IInv, FirmwareSets
<1>2. /\ pair' \in Limits /\ InBounds(pair') /\ inCustom' \in BOOLEAN
      /\ answer' = "none" /\ damaged' = FALSE
      /\ writing' = writing /\ powerFaults' = powerFaults
  BY DEF FirmwareSets
<1>3. PowerTypeOK'
  BY <1>1, <1>2 DEF PowerTypeOK, Answers, Limits
<1> QED
  BY <1>1, <1>2, <1>3 DEF IInv, Progress, AnswerIsTrue, PairWhole, InBounds

\* Every step keeps the inductive invariant.
THEOREM PowerInvariance == PowerSpec => []IInv
<1>1. IInv /\ [PowerNext]_powerVars => IInv'
  <2>1. SUFFICES ASSUME IInv, [PowerNext]_powerVars PROVE IInv'
    OBVIOUS
  <2>2. CASE UNCHANGED powerVars
    BY <2>1, <2>2 DEF powerVars, IInv, PowerTypeOK, Progress, AnswerIsTrue, PairWhole, InBounds
  <2>3. CASE PowerNext
    BY <2>1, <2>3, BeginInv, WriteSustainedInv, WriteSlowInv, UndoSustainedInv, UndoSlowInv,
       KillWriterInv, FirmwareSetsInv DEF PowerNext
  <2> QED
    BY <2>1, <2>2, <2>3
<1> QED
  BY <1>1, InitInv, PTL DEF PowerSpec

\* The registers hold values they are seen to hold, and the request running is
\* for limits and goes back to limits (set_power_limits).
THEOREM PowerTypes == PowerSpec => []PowerTypeOK
<1>1. IInv => PowerTypeOK
  BY DEF IInv
<1> QED
  BY <1>1, PowerInvariance, PTL

\* "applied" and "restored" are true of both registers, whichever write failed
\* (set_power_limits and _restore_power_limits).
THEOREM AnswersAreTrue == PowerSpec => []AnswerIsTrue
<1>1. IInv => AnswerIsTrue
  BY DEF IInv
<1> QED
  BY <1>1, PowerInvariance, PTL

\* Between requests the registers hold limits within their bounds, unless a
\* writer was killed or a restoration failed (set_power_limits).
THEOREM PairsAreWhole == PowerSpec => []PairWhole
<1>1. IInv => PairWhole
  BY DEF IInv
<1> QED
  BY <1>1, PowerInvariance, PTL

\* The answers and the registers together, as the run checks them
\* (set_power_limits).
THEOREM PowerIsSound == PowerSpec => []PowerSound
<1>1. AnswerIsTrue /\ PairWhole => PowerSound
  BY DEF PowerSound
<1> QED
  BY <1>1, AnswersAreTrue, PairsAreWhole, PTL
=============================================================================
