----------------------- MODULE LogUpdateHelperProofs -----------------------
(***************************************************************************)
(* The log in memory and the log in the file are exact for every horizon,  *)
(* every set of values and any number of updates.                          *)
(***************************************************************************)
EXTENDS LogUpdateHelper, SequenceTheorems, TLAPS

V == Values \cup {NoValue}
Interval == Times \X Times \X V
Line == Times \X V
Form(ivs, sig, from, to) == InMemory!RunLengthForm(ivs, sig, from, to)

----------------------------------------------------------------------------
(* Lemmas about the run-length form *)

\* new is ivs and one more interval, [left, right) with value v.
Pushed(new, ivs, left, right, v) ==
  /\ new \in Seq(Interval)
  /\ Len(new) = Len(ivs) + 1
  /\ \A i \in 1 .. Len(ivs) : new[i] = ivs[i]
  /\ new[Len(ivs) + 1] = <<left, right, v>>

\* What pushing one interval does to the vector.
LEMMA PushOne ==
  ASSUME NEW ivs \in Seq(Interval),
         NEW left \in Times, NEW right \in Times, NEW v \in V
  PROVE  Pushed(ivs \o << <<left, right, v>> >>, ivs, left, right, v)
PROOF
<1> DEFINE x == <<left, right, v>>
<1>0. x \in Interval
  BY DEF Interval
<1> HIDE DEF x
<1>1. <<x>> \in Seq(Interval) /\ Len(<<x>>) = 1 /\ <<x>>[1] = x
  BY <1>0
<1>2. /\ ivs \o <<x>> \in Seq(Interval)
      /\ Len(ivs \o <<x>>) = Len(ivs) + 1
      /\ \A i \in 1 .. Len(ivs) + 1 :
           (ivs \o <<x>>)[i] = IF i <= Len(ivs) THEN ivs[i]
                                              ELSE <<x>>[i - Len(ivs)]
  BY <1>1, ConcatProperties
<1>3. Len(ivs) \in Nat
  BY LenProperties
<1>4. Pushed(ivs \o <<x>>, ivs, left, right, v)
  BY <1>1, <1>2, <1>3 DEF Pushed, x
<1> QED  BY <1>4 DEF x

\* A form is extended by one interval that starts where it ends and has
\* another value than its last one.
LEMMA FormExtends ==
  ASSUME NEW ivs \in Seq(Interval), NEW sig, NEW from \in Times,
         NEW to \in Times, NEW right \in Times, NEW v \in V,
         NEW new, Pushed(new, ivs, to, right, v),
         Form(ivs, sig, from, to), from <= to, to < right,
         \A t \in Times : to <= t /\ t < right => sig[t] = v,
         ivs # << >> => ivs[Len(ivs)][3] # v
  PROVE  Form(new, sig, from, right)
PROOF
<1> DEFINE x == <<to, right, v>>
<1>2. new \in Seq(Interval) /\ Len(new) = Len(ivs) + 1
  BY DEF Pushed
<1>3. Len(ivs) \in Nat /\ Len(new) \in Nat
  BY <1>2, LenProperties
<1>4. /\ \A i \in 1 .. Len(ivs) : new[i] = ivs[i]
      /\ new[Len(ivs) + 1] = x
  BY DEF Pushed
<1>5. new # << >>
  BY <1>2, <1>3, EmptySeq
<1>6. x[1] = to /\ x[2] = right /\ x[3] = v
  OBVIOUS
<1> HIDE DEF x
<1>7. from # right
  BY DEF Times
<1>8. new[1][1] = from /\ new[Len(new)][2] = right
  <2>1. CASE ivs = << >>
    <3>1. Len(ivs) = 0 /\ from = to
      BY <2>1 DEF Form, InMemory!RunLengthForm
    <3> QED  BY <3>1, <1>2, <1>4, <1>6
  <2>2. CASE ivs # << >>
    <3>1. 1 \in 1 .. Len(ivs)
      BY <2>2, <1>3, EmptySeq
    <3> QED  BY <2>2, <3>1, <1>2, <1>4, <1>6 DEF Form, InMemory!RunLengthForm
  <2> QED  BY <2>1, <2>2
<1>9. ASSUME NEW i \in 1 .. Len(new)
      PROVE  /\ new[i][1] < new[i][2] /\ new[i][2] <= right
             /\ \A t \in InMemory!Times :
                  new[i][1] <= t /\ t < new[i][2] => sig[t] = new[i][3]
  <2>1. CASE i \in 1 .. Len(ivs)
    <3>1. /\ ivs[i][1] < ivs[i][2] /\ ivs[i][2] <= to
          /\ \A t \in InMemory!Times :
                  ivs[i][1] <= t /\ t < ivs[i][2] => sig[t] = ivs[i][3]
      BY <2>1 DEF Form, InMemory!RunLengthForm
    <3>2. ivs[i] \in Interval
      BY <2>1, LenProperties
    <3>3. ivs[i][2] \in Int
      BY <3>2, HorizonAssumption DEF Interval, Times
    <3> QED  BY <3>1, <3>3, <2>1, <1>4 DEF Times
  <2>2. CASE i = Len(ivs) + 1
    BY <2>2, <1>4, <1>6 DEF Times, InMemory!Times
  <2> QED  BY <2>1, <2>2, <1>2, <1>3
<1>10. ASSUME NEW i \in 1 .. Len(new) - 1
       PROVE  new[i][2] = new[i + 1][1] /\ new[i][3] # new[i + 1][3]
  <2>1. i \in 1 .. Len(ivs)
    BY <1>2, <1>3
  <2>2. CASE i = Len(ivs)
    <3>1. ivs # << >>
      BY <2>1, <2>2, <1>3, EmptySeq
    <3>2. ivs[Len(ivs)][2] = to /\ ivs[Len(ivs)][3] # v
      BY <3>1 DEF Form, InMemory!RunLengthForm
    <3> QED  BY <3>2, <2>1, <2>2, <1>4, <1>6
  <2>3. CASE i # Len(ivs)
    <3>1. i \in 1 .. Len(ivs) - 1 /\ i + 1 \in 1 .. Len(ivs)
      BY <2>1, <2>3, <1>3
    <3> QED  BY <3>1, <2>1, <1>4 DEF Form, InMemory!RunLengthForm
  <2> QED  BY <2>2, <2>3
<1>11. Form(new, sig, from, right)
  BY <1>5, <1>7, <1>8, <1>9, <1>10 DEF Form, InMemory!RunLengthForm
<1> QED  BY <1>11

\* A form speaks only about the instants before its end.
LEMMA FormKept ==
  ASSUME NEW ivs \in Seq(Interval), NEW sig, NEW sig2, NEW from \in Times,
         NEW to \in Times, Form(ivs, sig, from, to),
         \A t \in Times : t < to => sig2[t] = sig[t]
  PROVE  Form(ivs, sig2, from, to)
PROOF
<1>1. ASSUME NEW i \in 1 .. Len(ivs), NEW t \in Times,
             ivs[i][1] <= t, t < ivs[i][2]
      PROVE  sig2[t] = ivs[i][3]
  <2>1. ivs[i] \in Interval
    BY LenProperties
  <2>2. ivs[i][2] \in Int /\ ivs[i][2] <= to /\ sig[t] = ivs[i][3]
    BY <2>1, <1>1, HorizonAssumption
    DEF Form, InMemory!RunLengthForm, InMemory!Times, Interval, Times
  <2> QED  BY <2>2, <1>1, HorizonAssumption DEF Times
<1> QED  BY <1>1 DEF Form, InMemory!RunLengthForm, InMemory!Times, Times

----------------------------------------------------------------------------
(* The intervals that lines stand for *)

\* Each line starts an interval that the next line ends, the last one at end.
Reading(lines, end) ==
  [i \in 1 .. Len(lines) |->
     <<lines[i][1], IF i = Len(lines) THEN end ELSE lines[i + 1][1], lines[i][2]>>]

LEMMA ReadingTyped ==
  ASSUME NEW lines \in Seq(Line), NEW end \in Times
  PROVE  Reading(lines, end) \in Seq(Interval) /\ Len(Reading(lines, end)) = Len(lines)
PROOF
<1>1. Len(lines) \in Nat /\ \A i \in 1 .. Len(lines) : lines[i] \in Times \X V
  BY LenProperties, ElementOfSeq DEF Line
<1>2. \A i \in 1 .. Len(lines) : i # Len(lines) => i + 1 \in 1 .. Len(lines)
  BY <1>1
<1>3. Reading(lines, end) \in [1 .. Len(lines) -> Interval]
  BY <1>1, <1>2 DEF Reading, Interval
<1> QED  BY <1>1, <1>3

\* What appending one line does.
LEMMA AppendLine ==
  ASSUME NEW lines \in Seq(Line), NEW x \in Line
  PROVE  /\ lines \o <<x>> \in Seq(Line)
         /\ Len(lines \o <<x>>) = Len(lines) + 1
         /\ \A i \in 1 .. Len(lines) : (lines \o <<x>>)[i] = lines[i]
         /\ (lines \o <<x>>)[Len(lines) + 1] = x
PROOF
<1>1. <<x>> \in Seq(Line) /\ Len(<<x>>) = 1 /\ <<x>>[1] = x
  OBVIOUS
<1>2. /\ lines \o <<x>> \in Seq(Line)
      /\ Len(lines \o <<x>>) = Len(lines) + 1
      /\ \A i \in 1 .. Len(lines) + 1 :
           (lines \o <<x>>)[i] = IF i <= Len(lines) THEN lines[i] ELSE <<x>>[i - Len(lines)]
  BY <1>1, ConcatProperties
<1>3. Len(lines) \in Nat
  BY LenProperties
<1> QED  BY <1>1, <1>2, <1>3

\* A further line pushes an interval: it ends the last one where it starts.
LEMMA WriteOne ==
  ASSUME NEW lines \in Seq(Line), NEW left \in Times, NEW right \in Times, NEW v \in V
  PROVE  Pushed(Reading(lines \o << <<left, v>> >>, right), Reading(lines, left),
                left, right, v)
PROOF
<1> DEFINE x == <<left, v>>
           more == lines \o <<x>>
<1>1. x \in Line /\ x[1] = left /\ x[2] = v
  BY DEF Line
<1> HIDE DEF x
<1>2. /\ more \in Seq(Line) /\ Len(more) = Len(lines) + 1 /\ Len(lines) \in Nat
      /\ \A i \in 1 .. Len(lines) : more[i] = lines[i]
      /\ more[Len(lines) + 1] = x
  BY <1>1, AppendLine, LenProperties
<1> HIDE DEF more
<1>3. /\ Reading(more, right) \in Seq(Interval)
      /\ Len(Reading(more, right)) = Len(lines) + 1
      /\ Len(Reading(lines, left)) = Len(lines)
  BY <1>2, ReadingTyped
<1>4. ASSUME NEW i \in 1 .. Len(lines)
      PROVE  Reading(more, right)[i] = Reading(lines, left)[i]
  <2>1. i \in 1 .. Len(more) /\ i # Len(more) /\ more[i] = lines[i]
    BY <1>2
  <2>2. more[i + 1][1] = IF i = Len(lines) THEN left ELSE lines[i + 1][1]
    <3>1. CASE i = Len(lines)
      BY <3>1, <1>1, <1>2
    <3>2. CASE i # Len(lines)
      <4>1. i + 1 \in 1 .. Len(lines)
        BY <3>2, <1>2
      <4> QED  BY <3>2, <4>1, <1>2
    <3> QED  BY <3>1, <3>2
  <2> QED  BY <2>1, <2>2 DEF Reading
<1>5. Reading(more, right)[Len(lines) + 1] = <<left, right, v>>
  <2>1. Len(lines) + 1 \in 1 .. Len(more) /\ Len(lines) + 1 = Len(more)
    BY <1>2
  <2> QED  BY <2>1, <1>1, <1>2 DEF Reading
<1>6. Pushed(Reading(more, right), Reading(lines, left), left, right, v)
  BY <1>3, <1>4, <1>5 DEF Pushed
<1> QED  BY <1>6 DEF more, x

\* The last line of a closed file only ends the one before it.
Intervals(lines) ==
  [i \in 1 .. Len(lines) - 1 |-> <<lines[i][1], lines[i + 1][1], lines[i][2]>>]

LEMMA LastLine ==
  ASSUME NEW lines \in Seq(Line), NEW end \in Times, NEW v \in V
  PROVE  Intervals(lines \o << <<end, v>> >>) = Reading(lines, end)
PROOF
<1> DEFINE x == <<end, v>>
           more == lines \o <<x>>
<1>1. x \in Line /\ x[1] = end
  BY DEF Line
<1> HIDE DEF x
<1>2. /\ more \in Seq(Line) /\ Len(more) = Len(lines) + 1 /\ Len(lines) \in Nat
      /\ \A i \in 1 .. Len(lines) : more[i] = lines[i]
      /\ more[Len(lines) + 1] = x
  BY <1>1, AppendLine, LenProperties
<1> HIDE DEF more
<1>3. Len(more) - 1 = Len(lines)
  BY <1>2
<1>4. ASSUME NEW i \in 1 .. Len(lines)
      PROVE  <<more[i][1], more[i + 1][1], more[i][2]>>
               = <<lines[i][1], IF i = Len(lines) THEN end ELSE lines[i + 1][1], lines[i][2]>>
  <2>1. CASE i = Len(lines)
    BY <2>1, <1>1, <1>2
  <2>2. CASE i # Len(lines)
    <3>1. i + 1 \in 1 .. Len(lines)
      BY <2>2, <1>2
    <3> QED  BY <2>2, <3>1, <1>2
  <2> QED  BY <2>1, <2>2
<1>5. Intervals(more) = Reading(lines, end)
  BY <1>3, <1>4 DEF Intervals, Reading
<1> QED  BY <1>5 DEF more, x

LEMMA TwoLines ==
  ASSUME NEW lines \in Seq(Line), NEW x \in Line, NEW y \in Line
  PROVE  lines \o <<x, y>> = (lines \o <<x>>) \o <<y>>
PROOF
<1>1. <<x>> \in Seq(Line) /\ <<y>> \in Seq(Line) /\ <<x, y>> = Append(<<x>>, y)
  OBVIOUS
<1>2. <<x, y>> = <<x>> \o <<y>>
  BY <1>1, AppendIsConcat
<1> QED  BY <1>1, <1>2, ConcatAssociative

LEMMA ThreeLines ==
  ASSUME NEW lines \in Seq(Line), NEW x \in Line, NEW y \in Line, NEW z \in Line
  PROVE  lines \o <<x, y, z>> = ((lines \o <<x>>) \o <<y>>) \o <<z>>
PROOF
<1>1. /\ <<x, y>> \in Seq(Line) /\ <<z>> \in Seq(Line)
      /\ <<x, y, z>> = Append(<<x, y>>, z)
  OBVIOUS
<1>2. <<x, y, z>> = <<x, y>> \o <<z>>
  BY <1>1, AppendIsConcat
<1>3. lines \o <<x, y, z>> = (lines \o <<x, y>>) \o <<z>>
  BY <1>1, <1>2, ConcatAssociative
<1> QED  BY <1>3, TwoLines

LEMMA NothingRead ==
  /\ Intervals(<< >>) = << >>
  /\ \A end : Reading(<< >>, end) = << >>
PROOF
<1>1. Len(<< >>) = 0 /\ 1 .. 0 = {} /\ 1 .. 0 - 1 = {}
  OBVIOUS
<1> QED  BY <1>1 DEF Intervals, Reading

----------------------------------------------------------------------------
(* Type correctness *)

LEMMA SaveAndWriteTyped ==
  ASSUME NEW ivs \in Seq(Interval), NEW lines \in Seq(Times \X V),
         log \in Seq(Interval), file \in Seq(Times \X V), Save(ivs), Write(lines)
  PROVE  log' \in Seq(Interval) /\ file' \in Seq(Times \X V)
PROOF
<1>1. log \o ivs \in Seq(Interval) /\ file \o lines \in Seq(Times \X V)
  BY ConcatProperties
<1> QED  BY <1>1 DEF Save, Write

\* Every field keeps its type; in particular the left ends of the open
\* intervals are instants of the simulation.
THEOREM TypeCorrect == Spec => []TypeOK
PROOF
<1>1. Init => TypeOK
  BY HorizonAssumption DEF Init, TypeOK, Unset, Times
<1>2. TypeOK /\ [Next]_vars => TypeOK'
  <2> SUFFICES ASSUME TypeOK, [Next]_vars PROVE TypeOK'
    OBVIOUS
  <2>0. /\ log \in Seq(Interval) /\ file \in Seq(Times \X V)
        /\ alphaLeft # Unset => alphaLeft \in Times
        /\ betaLeft # Unset => betaLeft \in Times
        /\ lastUpdate \in V /\ alphaValue \in V
    BY DEF TypeOK, Interval, V
  <2>1. ASSUME NEW time \in Times, NEW value \in Values, Update(time, value)
        PROVE  TypeOK'
    <3>1. CASE SaveAlphaAndShift(time)
      <4>1. /\ << <<alphaLeft, betaLeft, alphaValue>> >> \in Seq(Interval)
            /\ << <<alphaLeft, alphaValue>> >> \in Seq(Times \X V)
        BY <3>1, <2>0 DEF SaveAlphaAndShift, Interval
      <4>2. log' \in Seq(Interval) /\ file' \in Seq(Times \X V)
        BY <3>1, <2>0, <4>1, SaveAndWriteTyped DEF SaveAlphaAndShift
      <4> QED
        BY <3>1, <4>2, <2>0, <2>1
        DEF TypeOK, Update, SaveAlphaAndShift, V, Interval
    <3>2. CASE ~SaveAlphaAndShift(time)
      BY <3>2, <2>1 DEF TypeOK, Update, NewInstant, StartAlpha, StartBeta,
                        MergeBetaIntoAlpha, intervals
    <3> QED  BY <3>1, <3>2
  <2>2. ASSUME NEW time \in Times, Finalize(time)
        PROVE  TypeOK'
    <3>1. log' \in Seq(Interval) /\ file' \in Seq(Times \X V)
      <4>1. CASE CloseAlpha(time)
        <5>1. /\ << <<alphaLeft, time, lastUpdate>> >> \in Seq(Interval)
              /\ << <<alphaLeft, lastUpdate>>, <<time, lastUpdate>> >>
                   \in Seq(Times \X V)
          BY <4>1, <2>0 DEF CloseAlpha, Interval
        <5> QED  BY <4>1, <5>1, <2>0, SaveAndWriteTyped DEF CloseAlpha
      <4>2. CASE CloseMerged(time)
        <5>1. /\ << <<alphaLeft, time, alphaValue>> >> \in Seq(Interval)
              /\ << <<alphaLeft, alphaValue>>, <<time, alphaValue>> >>
                   \in Seq(Times \X V)
          BY <4>2, <2>0 DEF CloseMerged, Interval
        <5> QED  BY <4>2, <5>1, <2>0, SaveAndWriteTyped DEF CloseMerged
      <4>3. CASE CloseBoth(time)
        <5>1. /\ << <<alphaLeft, betaLeft, alphaValue>>,
                    <<betaLeft, time, lastUpdate>> >> \in Seq(Interval)
              /\ << <<alphaLeft, betaLeft, alphaValue>> >> \in Seq(Interval)
              /\ << <<alphaLeft, alphaValue>>, <<betaLeft, lastUpdate>>,
                    <<time, lastUpdate>> >> \in Seq(Times \X V)
              /\ << <<alphaLeft, alphaValue>>, <<betaLeft, alphaValue>> >>
                   \in Seq(Times \X V)
          BY <4>3, <2>0 DEF CloseBoth, Interval
        <5> QED  BY <4>3, <5>1, <2>0, SaveAndWriteTyped DEF CloseBoth
      <4>4. CASE CloseEmpty
        BY <4>4, <2>0 DEF CloseEmpty
      <4> QED  BY <2>2, <4>1, <4>2, <4>3, <4>4 DEF Finalize
    <3> QED  BY <3>1, <2>2 DEF TypeOK, Finalize, V, Interval
  <2>3. CASE UNCHANGED vars
    BY <2>3 DEF TypeOK, vars
  <2> QED  BY <2>1, <2>2, <2>3 DEF Next
<1> QED  BY <1>1, <1>2, PTL DEF Spec

----------------------------------------------------------------------------
(* The inductive invariant *)

\* What the open intervals say of the signal while the log is open.
OpenIntervals ==
  /\ alphaLeft = Unset => betaLeft = Unset /\ lastCheck = Unset /\ since = Unset
  /\ alphaLeft # Unset =>
       since # Unset /\ lastCheck # Unset /\ since <= alphaLeft
  /\ alphaLeft # Unset /\ betaLeft = Unset =>
       lastCheck = alphaLeft /\ since = alphaLeft
  /\ betaLeft # Unset =>
       /\ betaLeft = lastCheck
       /\ alphaLeft < betaLeft
       /\ \A t \in Times : alphaLeft <= t /\ t < betaLeft => signal[t] = alphaValue
  /\ betaLeft = Unset => log = << >> /\ file = << >>

LatestHolds ==
  lastCheck # Unset => \A t \in Times : t >= lastCheck => signal[t] = lastUpdate

\* ivs is the form up to an interval that has value v.
ExactUpTo(ivs, sig, from, to, v) ==
  /\ Form(ivs, sig, from, to)
  /\ ivs # << >> => ivs[Len(ivs)][3] # v

PushedIsExact ==
  SaveInMemory /\ alphaLeft # Unset =>
    ExactUpTo(log, signal, since, alphaLeft, alphaValue)

WrittenIsExact ==
  SaveToFile /\ alphaLeft # Unset =>
    ExactUpTo(Reading(file, alphaLeft), signal, since, alphaLeft, alphaValue)

LogIInv ==
  /\ TypeOK
  /\ finalTime = Unset => OpenIntervals /\ LatestHolds /\ PushedIsExact /\ WrittenIsExact

LEMMA TimesAreNumbers ==
  /\ Unset \in Int /\ Times \subseteq Int
  /\ \A t \in Times : t # Unset /\ t >= 0 /\ t > Unset
BY HorizonAssumption DEF Times, Unset

LEMMA EmptyForm ==
  ASSUME NEW sig, NEW at \in Times
  PROVE  Form(<< >>, sig, at, at)
BY DEF Form, InMemory!RunLengthForm

\* An update settles what the open intervals say.
LEMMA OpenKept ==
  ASSUME LogIInv, NEW time \in Times, NEW value \in Values, Update(time, value)
  PROVE  OpenIntervals' /\ LatestHolds'
PROOF
<1>1. TypeOK /\ OpenIntervals /\ LatestHolds /\ finalTime = Unset
  BY DEF LogIInv, Update
<1>2. /\ lastCheck' = time /\ lastUpdate' = value /\ time >= lastCheck
      /\ \A t \in Times : signal'[t] = IF t >= time THEN value ELSE signal[t]
      /\ since' = IF since = Unset THEN time ELSE since
  BY DEF Update
<1>3. /\ time # Unset /\ time \in Int /\ Unset \in Int /\ Times \subseteq Int
      /\ \A t \in Times : t # Unset
  BY TimesAreNumbers
<1>4. LatestHolds'
  BY <1>2 DEF LatestHolds
<1>5. CASE time = lastCheck
  <2>1. UNCHANGED <<log, file, alphaValue, alphaLeft, betaLeft>> /\ alphaLeft # Unset
    BY <1>5, <1>1, <1>3 DEF Update, intervals, OpenIntervals, NewInstant
  <2>2. since # Unset /\ since' = since
    BY <2>1, <1>1, <1>2 DEF OpenIntervals
  <2>3. OpenIntervals'
    BY <2>1, <2>2, <1>1, <1>2, <1>3, <1>5 DEF OpenIntervals, TypeOK
  <2> QED  BY <2>3, <1>4
<1>6. CASE time > lastCheck
  <2>0. NewInstant(time)
    BY <1>6, <1>1, <1>3 DEF Update, TypeOK
  <2>1. CASE StartAlpha(time)
    <3>1. /\ alphaLeft' = time /\ betaLeft' = Unset /\ since' = time
          /\ log' = << >> /\ file' = << >>
      BY <2>1, <1>1, <1>2 DEF StartAlpha, OpenIntervals
    <3> QED
      BY <3>1, <1>2, <1>3, <1>4 DEF OpenIntervals
  <2>2. CASE StartBeta(time)
    <3>1. /\ alphaLeft' = alphaLeft /\ betaLeft' = time /\ alphaValue' = lastUpdate
          /\ lastCheck = alphaLeft /\ alphaLeft \in Times
          /\ since = alphaLeft /\ since' = since
      BY <2>2, <1>1, <1>2 DEF StartBeta, OpenIntervals, TypeOK
    <3>2. \A t \in Times : alphaLeft <= t /\ t < time => signal'[t] = lastUpdate
      <4> SUFFICES ASSUME NEW t \in Times, alphaLeft <= t, t < time
                   PROVE  signal'[t] = lastUpdate
        OBVIOUS
      <4>1. signal[t] = lastUpdate
        BY <3>1, <1>1, <1>3 DEF LatestHolds
      <4>2. ~(t >= time)
        BY <1>3
      <4> QED  BY <4>1, <4>2, <1>2
    <3> QED
      BY <3>1, <3>2, <1>2, <1>3, <1>4, <1>6 DEF OpenIntervals
  <2>3. CASE MergeBetaIntoAlpha(time)
    <3>1. /\ alphaLeft' = alphaLeft /\ betaLeft' = time
          /\ alphaValue' = alphaValue /\ alphaValue = lastUpdate
          /\ betaLeft = lastCheck /\ alphaLeft < betaLeft
          /\ alphaLeft \in Times /\ betaLeft \in Times
          /\ since \in Times /\ since <= alphaLeft /\ since' = since
      BY <2>3, <1>1, <1>2 DEF MergeBetaIntoAlpha, OpenIntervals, TypeOK
    <3>2. \A t \in Times : alphaLeft <= t /\ t < time => signal'[t] = alphaValue
      <4>1. \A t \in Times : alphaLeft <= t /\ t < betaLeft => signal[t] = alphaValue
        BY <2>3, <1>1 DEF MergeBetaIntoAlpha, OpenIntervals
      <4>2. \A t \in Times : t >= betaLeft => signal[t] = alphaValue
        BY <3>1, <1>1, <1>3 DEF LatestHolds
      <4> SUFFICES ASSUME NEW t \in Times, alphaLeft <= t, t < time
                   PROVE  signal'[t] = alphaValue
        OBVIOUS
      <4>3. t < betaLeft \/ t >= betaLeft
        BY <3>1, <1>3
      <4>4. ~(t >= time)
        BY <1>3
      <4> QED  BY <4>1, <4>2, <4>3, <4>4, <1>2
    <3>3. alphaLeft < time
      BY <3>1, <1>3, <1>6
    <3> QED  BY <3>1, <3>2, <3>3, <1>2, <1>3, <1>4 DEF OpenIntervals
  <2>4. CASE SaveAlphaAndShift(time)
    <3>1. /\ alphaLeft' = betaLeft /\ betaLeft' = time /\ alphaValue' = lastUpdate
          /\ betaLeft = lastCheck /\ alphaLeft < betaLeft
          /\ alphaLeft \in Times /\ betaLeft \in Times
          /\ since \in Times /\ since <= alphaLeft /\ since' = since
      BY <2>4, <1>1, <1>2 DEF SaveAlphaAndShift, OpenIntervals, TypeOK
    <3>2. \A t \in Times : betaLeft <= t /\ t < time => signal'[t] = lastUpdate
      BY <3>1, <1>1, <1>2, <1>3 DEF LatestHolds
    <3> QED  BY <3>1, <3>2, <1>2, <1>3, <1>4, <1>6 DEF OpenIntervals
  <2> QED  BY <2>0, <2>1, <2>2, <2>3, <2>4 DEF NewInstant
<1> QED  BY <1>2, <1>3, <1>5, <1>6, <1>1 DEF TypeOK, Unset, Times

\* An update pushes alpha, to the vector or the file, when it shifts and only then.
Pushes(new, ivs, time) ==
  IF time > lastCheck /\ SaveAlphaAndShift(time)
  THEN Pushed(new, ivs, alphaLeft, betaLeft, alphaValue) ELSE new = ivs

LEMMA FormGrows ==
  ASSUME LogIInv, NEW time \in Times, NEW value \in Values, Update(time, value),
         NEW ivs \in Seq(Interval), NEW new, Pushes(new, ivs, time),
         alphaLeft # Unset => ExactUpTo(ivs, signal, since, alphaLeft, alphaValue),
         betaLeft = Unset => ivs = << >>
  PROVE  ExactUpTo(new, signal', since', alphaLeft', alphaValue')
PROOF
<1>1. TypeOK /\ OpenIntervals /\ LatestHolds /\ finalTime = Unset
  BY DEF LogIInv, Update
<1>2. /\ time >= lastCheck
      /\ \A t \in Times : signal'[t] = IF t >= time THEN value ELSE signal[t]
      /\ since' = IF since = Unset THEN time ELSE since
  BY DEF Update
<1>3. /\ time # Unset /\ time \in Int /\ Unset \in Int /\ Times \subseteq Int
      /\ \A t \in Times : t # Unset
  BY TimesAreNumbers
<1>4. CASE time = lastCheck
  <2>1. UNCHANGED <<alphaValue, alphaLeft, betaLeft>> /\ alphaLeft # Unset
    BY <1>4, <1>1, <1>3 DEF Update, intervals, OpenIntervals, NewInstant
  <2>2. since # Unset /\ since' = since
    BY <2>1, <1>1, <1>2 DEF OpenIntervals
  <2>3. new = ivs
    BY <1>3, <1>4 DEF Pushes
  <2>4. /\ alphaLeft \in Times /\ since \in Times
        /\ \A t \in Times : t < alphaLeft => signal'[t] = signal[t]
    BY <2>1, <2>2, <1>1, <1>2, <1>3, <1>4 DEF OpenIntervals, TypeOK
  <2>5. Form(ivs, signal', since, alphaLeft)
    BY <2>1, <2>4, FormKept DEF ExactUpTo
  <2> QED  BY <2>1, <2>2, <2>3, <2>5 DEF ExactUpTo
<1>5. CASE time > lastCheck
  <2>0. NewInstant(time)
    BY <1>5, <1>1, <1>3 DEF Update, TypeOK
  <2>1. CASE StartAlpha(time)
    <3>1. alphaLeft' = time /\ since' = time /\ ivs = << >> /\ new = ivs
      BY <2>1, <1>1, <1>2 DEF StartAlpha, OpenIntervals, Pushes, SaveAlphaAndShift
    <3> QED  BY <3>1, EmptyForm DEF ExactUpTo
  <2>2. CASE StartBeta(time)
    <3>1. /\ alphaLeft' = alphaLeft /\ alphaLeft \in Times
          /\ since = alphaLeft /\ since' = since /\ ivs = << >> /\ new = ivs
      BY <2>2, <1>1, <1>2 DEF StartBeta, OpenIntervals, TypeOK, Pushes, SaveAlphaAndShift
    <3> QED  BY <3>1, EmptyForm DEF ExactUpTo
  <2>3. CASE MergeBetaIntoAlpha(time)
    <3>1. /\ alphaLeft' = alphaLeft /\ alphaValue' = alphaValue /\ new = ivs
          /\ alphaLeft \in Times /\ since \in Times /\ since' = since
          /\ betaLeft = lastCheck /\ alphaLeft < betaLeft /\ betaLeft \in Times
      BY <2>3, <1>1, <1>2
      DEF MergeBetaIntoAlpha, OpenIntervals, TypeOK, Pushes, SaveAlphaAndShift
    <3>2. \A t \in Times : t < alphaLeft => signal'[t] = signal[t]
      <4> TAKE t \in Times
      <4>1. t < alphaLeft => ~(t >= time)
        BY <3>1, <1>3, <1>5
      <4> QED  BY <4>1, <1>2
    <3>3. ExactUpTo(ivs, signal, since, alphaLeft, alphaValue)
      BY <3>1, <1>3
    <3>4. Form(ivs, signal', since, alphaLeft)
      BY <3>1, <3>2, <3>3, FormKept DEF ExactUpTo
    <3> QED  BY <3>1, <3>3, <3>4 DEF ExactUpTo
  <2>4. CASE SaveAlphaAndShift(time)
    <3>1. /\ alphaLeft' = betaLeft /\ alphaValue' = lastUpdate /\ alphaValue # lastUpdate
          /\ betaLeft = lastCheck /\ alphaLeft < betaLeft
          /\ alphaLeft \in Times /\ betaLeft \in Times /\ alphaValue \in V
          /\ since \in Times /\ since <= alphaLeft /\ since' = since
      BY <2>4, <1>1, <1>2 DEF SaveAlphaAndShift, OpenIntervals, TypeOK, V
    <3>2. Pushed(new, ivs, alphaLeft, betaLeft, alphaValue)
      BY <2>4, <1>5 DEF Pushes
    <3>3. \A t \in Times : alphaLeft <= t /\ t < betaLeft => signal[t] = alphaValue
      BY <2>4, <1>1 DEF SaveAlphaAndShift, OpenIntervals
    <3>4. /\ Form(ivs, signal, since, alphaLeft)
          /\ ivs # << >> => ivs[Len(ivs)][3] # alphaValue
      BY <3>1, <1>3 DEF ExactUpTo
    <3>5. Form(new, signal, since, betaLeft)
      BY <3>1, <3>2, <3>3, <3>4, FormExtends
    <3>6. new \in Seq(Interval) /\ new[Len(new)][3] = alphaValue
      <4> DEFINE x == <<alphaLeft, betaLeft, alphaValue>>
      <4>1. x[3] = alphaValue
        OBVIOUS
      <4>2. new \in Seq(Interval) /\ Len(new) = Len(ivs) + 1 /\ new[Len(ivs) + 1] = x
        BY <3>2 DEF Pushed
      <4> HIDE DEF x
      <4> QED  BY <4>1, <4>2
    <3>7. \A t \in Times : t < betaLeft => signal'[t] = signal[t]
      <4> TAKE t \in Times
      <4>1. t < betaLeft => ~(t >= time)
        BY <3>1, <1>3, <1>5
      <4> QED  BY <4>1, <1>2
    <3>8. Form(new, signal', since, betaLeft)
      BY <3>1, <3>5, <3>6, <3>7, FormKept
    <3> QED  BY <3>1, <3>6, <3>8 DEF ExactUpTo
  <2> QED  BY <2>0, <2>1, <2>2, <2>3, <2>4 DEF NewInstant
<1> QED  BY <1>2, <1>3, <1>4, <1>5, <1>1 DEF TypeOK, Unset, Times

----------------------------------------------------------------------------
(* Closing *)

\* What closing at a time pushes: nothing, or the one or two intervals that
\* complete the form.
Closes(new, ivs, time) ==
  /\ new \in Seq(Interval)
  /\ betaLeft = Unset /\ alphaLeft = time => new = ivs
  /\ betaLeft = Unset /\ alphaLeft # time =>
       Pushed(new, ivs, alphaLeft, time, lastUpdate)
  /\ betaLeft # Unset /\ alphaValue = lastUpdate =>
       Pushed(new, ivs, alphaLeft, time, alphaValue)
  /\ betaLeft # Unset /\ alphaValue # lastUpdate /\ betaLeft = time =>
       Pushed(new, ivs, alphaLeft, betaLeft, alphaValue)
  /\ betaLeft # Unset /\ alphaValue # lastUpdate /\ betaLeft # time =>
       \E mid \in Seq(Interval) :
         /\ Pushed(mid, ivs, alphaLeft, betaLeft, alphaValue)
         /\ Pushed(new, mid, betaLeft, time, lastUpdate)

LEMMA FormCompleted ==
  ASSUME TypeOK, OpenIntervals, LatestHolds, since # Unset,
         NEW time \in Times, time >= lastCheck,
         NEW ivs \in Seq(Interval), ExactUpTo(ivs, signal, since, alphaLeft, alphaValue),
         betaLeft = Unset => ivs = << >>,
         NEW new, Closes(new, ivs, time)
  PROVE  Form(new, signal, since, time)
PROOF
<1>1. /\ alphaLeft # Unset /\ alphaLeft \in Times /\ since \in Times /\ since <= alphaLeft
      /\ lastCheck \in Times /\ lastUpdate \in V /\ alphaValue \in V
      /\ Times \subseteq Int /\ time \in Int
  BY TimesAreNumbers DEF TypeOK, OpenIntervals, V
<1>2. /\ Form(ivs, signal, since, alphaLeft)
      /\ ivs # << >> => ivs[Len(ivs)][3] # alphaValue
  BY DEF ExactUpTo
<1>3. \A t \in Times : lastCheck <= t => signal[t] = lastUpdate
  <2> TAKE t \in Times
  <2>1. lastCheck # Unset
    BY <1>1, TimesAreNumbers
  <2>2. lastCheck <= t => t >= lastCheck
    BY <1>1
  <2> QED  BY <2>1, <2>2 DEF LatestHolds
<1>4. CASE betaLeft = Unset
  <2>1. ivs = << >> /\ lastCheck = alphaLeft
    BY <1>1, <1>4 DEF OpenIntervals
  <2>2. CASE alphaLeft = time
    BY <2>2, <1>2, <1>4 DEF Closes
  <2>3. CASE alphaLeft # time
    <3>1. Pushed(new, ivs, alphaLeft, time, lastUpdate)
      BY <2>3, <1>4 DEF Closes
    <3>2. alphaLeft < time
      BY <2>1, <2>3, <1>1
    <3>3. \A t \in Times : alphaLeft <= t /\ t < time => signal[t] = lastUpdate
      BY <2>1, <1>3
    <3> QED  BY <3>1, <3>2, <3>3, <2>1, <1>1, <1>2, FormExtends
  <2> QED  BY <2>2, <2>3
<1>5. CASE betaLeft # Unset
  <2>1. betaLeft \in Times /\ betaLeft = lastCheck /\ alphaLeft < betaLeft
    BY <1>5 DEF TypeOK, OpenIntervals
  <2>2. betaLeft <= time /\ alphaLeft < time /\ since <= betaLeft
    BY <2>1, <1>1
  <2>3. \A t \in Times : alphaLeft <= t /\ t < betaLeft => signal[t] = alphaValue
    BY <1>5 DEF OpenIntervals
  <2>4. CASE alphaValue = lastUpdate
    <3>1. Pushed(new, ivs, alphaLeft, time, alphaValue)
      BY <2>4, <1>5 DEF Closes
    <3>2. ASSUME NEW t \in Times, alphaLeft <= t, t < time
          PROVE  signal[t] = alphaValue
      <4>1. t < betaLeft \/ lastCheck <= t
        BY <2>1, <1>1
      <4> QED  BY <4>1, <3>2, <2>3, <2>4, <1>3
    <3> QED  BY <3>1, <3>2, <2>2, <1>1, <1>2, FormExtends
  <2>5. CASE alphaValue # lastUpdate /\ betaLeft = time
    <3>1. Pushed(new, ivs, alphaLeft, betaLeft, alphaValue)
      BY <2>5, <1>5 DEF Closes
    <3> QED  BY <3>1, <2>1, <2>3, <2>5, <1>1, <1>2, FormExtends
  <2>6. CASE alphaValue # lastUpdate /\ betaLeft # time
    <3>1. PICK mid \in Seq(Interval) :
            /\ Pushed(mid, ivs, alphaLeft, betaLeft, alphaValue)
            /\ Pushed(new, mid, betaLeft, time, lastUpdate)
      BY <2>6, <1>5 DEF Closes
    <3>2. Form(mid, signal, since, betaLeft)
      BY <3>1, <2>1, <2>3, <1>1, <1>2, FormExtends
    <3>3. mid[Len(mid)][3] # lastUpdate
      <4> DEFINE x == <<alphaLeft, betaLeft, alphaValue>>
      <4>1. x[3] = alphaValue
        OBVIOUS
      <4>2. Len(mid) = Len(ivs) + 1 /\ mid[Len(ivs) + 1] = x
        BY <3>1 DEF Pushed
      <4> HIDE DEF x
      <4> QED  BY <4>1, <4>2, <2>6
    <3>4. betaLeft < time
      BY <2>1, <2>2, <2>6, <1>1
    <3>5. \A t \in Times : betaLeft <= t /\ t < time => signal[t] = lastUpdate
      BY <2>1, <1>3
    <3> QED  BY <3>1, <3>2, <3>3, <3>4, <3>5, <2>1, <2>2, <1>1, FormExtends
  <2> QED  BY <2>4, <2>5, <2>6
<1> QED  BY <1>4, <1>5

----------------------------------------------------------------------------
(* The vector *)

LEMMA MemoryPushes ==
  ASSUME TypeOK, NEW time \in Times, NEW value \in Values, Update(time, value),
         SaveInMemory
  PROVE  log \in Seq(Interval) /\ Pushes(log', log, time)
PROOF
<1>1. log \in Seq(Interval)
  BY DEF TypeOK, Interval, V
<1>2. CASE time > lastCheck /\ SaveAlphaAndShift(time)
  <2>1. log' = log \o << <<alphaLeft, betaLeft, alphaValue>> >>
    BY <1>2 DEF SaveAlphaAndShift, Save
  <2>2. alphaLeft \in Times /\ betaLeft \in Times /\ alphaValue \in V
    BY <1>2 DEF SaveAlphaAndShift, TypeOK, V
  <2>3. Pushed(log', log, alphaLeft, betaLeft, alphaValue)
    BY <2>1, <2>2, <1>1, PushOne
  <2> QED  BY <2>3, <1>1, <1>2 DEF Pushes
<1>3. CASE ~(time > lastCheck /\ SaveAlphaAndShift(time))
  <2>1. log' = log
    BY <1>3 DEF Update, NewInstant, StartAlpha, StartBeta, MergeBetaIntoAlpha, intervals
  <2> QED  BY <2>1, <1>1, <1>3 DEF Pushes
<1> QED  BY <1>2, <1>3

LEMMA TwoIntervals ==
  ASSUME NEW ivs \in Seq(Interval), NEW a \in Interval, NEW b \in Interval
  PROVE  ivs \o <<a, b>> = (ivs \o <<a>>) \o <<b>>
PROOF
<1>1. <<a>> \in Seq(Interval) /\ <<b>> \in Seq(Interval) /\ <<a, b>> = Append(<<a>>, b)
  OBVIOUS
<1>2. <<a, b>> = <<a>> \o <<b>>
  BY <1>1, AppendIsConcat
<1> QED  BY <1>1, <1>2, ConcatAssociative

LEMMA MemoryCloses ==
  ASSUME TypeOK, NEW time \in Times, Finalize(time), SaveInMemory, alphaLeft # Unset
  PROVE  log \in Seq(Interval) /\ Closes(log', log, time)
PROOF
<1>1. /\ log \in Seq(Interval) /\ alphaLeft \in Times
      /\ (betaLeft # Unset => betaLeft \in Times)
      /\ lastUpdate \in V /\ alphaValue \in V
  BY DEF TypeOK, Interval, V
<1>2. CASE CloseAlpha(time)
  <2>1. CASE alphaLeft = time
    BY <2>1, <1>1, <1>2 DEF CloseAlpha, Closes
  <2>2. CASE alphaLeft # time
    <3>1. Pushed(log', log, alphaLeft, time, lastUpdate)
      BY <2>2, <1>1, <1>2, PushOne DEF CloseAlpha, Save
    <3> QED  BY <3>1, <2>2, <1>1, <1>2 DEF CloseAlpha, Closes, Pushed
  <2> QED  BY <2>1, <2>2
<1>3. CASE CloseMerged(time)
  <2>1. Pushed(log', log, alphaLeft, time, alphaValue)
    BY <1>1, <1>3, PushOne DEF CloseMerged, Save
  <2> QED  BY <2>1, <1>1, <1>3 DEF CloseMerged, Closes, Pushed
<1>4. CASE CloseBoth(time)
  <2>1. betaLeft # Unset /\ alphaValue # lastUpdate
    BY <1>4 DEF CloseBoth
  <2>2. CASE betaLeft = time
    <3>1. Pushed(log', log, alphaLeft, betaLeft, alphaValue)
      BY <2>1, <2>2, <1>1, <1>4, PushOne DEF CloseBoth, Save
    <3> QED  BY <3>1, <2>1, <2>2, <1>1 DEF Closes, Pushed
  <2>3. CASE betaLeft # time
    <3> DEFINE a == <<alphaLeft, betaLeft, alphaValue>>
               b == <<betaLeft, time, lastUpdate>>
               mid == log \o <<a>>
    <3>1. Pushed(mid, log, alphaLeft, betaLeft, alphaValue)
      BY <2>1, <1>1, PushOne
    <3>2. a \in Interval /\ b \in Interval
      BY <2>1, <1>1 DEF Interval
    <3>3. log' = log \o <<a, b>>
      BY <2>3, <1>4 DEF CloseBoth, Save
    <3> HIDE DEF a, b
    <3>4. log' = mid \o <<b>>
      BY <3>2, <3>3, <1>1, TwoIntervals
    <3>5. mid \in Seq(Interval)
      BY <3>1 DEF Pushed
    <3> HIDE DEF mid
    <3>6. Pushed(log', mid, betaLeft, time, lastUpdate)
      BY <3>4, <3>5, <2>1, <1>1, PushOne DEF b
    <3>7. log' \in Seq(Interval)
      BY <3>6 DEF Pushed
    <3> QED  BY <3>1, <3>5, <3>6, <3>7, <2>1, <2>3, <1>1 DEF Closes
  <2> QED  BY <2>2, <2>3
<1> QED  BY <1>2, <1>3, <1>4 DEF Finalize, CloseEmpty

----------------------------------------------------------------------------
(* The file *)

LEMMA FilePushes ==
  ASSUME TypeOK, NEW time \in Times, NEW value \in Values, Update(time, value),
         SaveToFile, alphaLeft # Unset
  PROVE  /\ Reading(file, alphaLeft) \in Seq(Interval)
         /\ Pushes(Reading(file', alphaLeft'), Reading(file, alphaLeft), time)
PROOF
<1>1. /\ file \in Seq(Line) /\ alphaLeft \in Times
      /\ Reading(file, alphaLeft) \in Seq(Interval)
  BY ReadingTyped DEF TypeOK, Line, V
<1>2. CASE time > lastCheck /\ SaveAlphaAndShift(time)
  <2>1. file' = file \o << <<alphaLeft, alphaValue>> >> /\ alphaLeft' = betaLeft
    BY <1>2 DEF SaveAlphaAndShift, Write
  <2>2. betaLeft \in Times /\ alphaValue \in V
    BY <1>2 DEF SaveAlphaAndShift, TypeOK, V
  <2>3. Pushed(Reading(file', alphaLeft'), Reading(file, alphaLeft),
               alphaLeft, betaLeft, alphaValue)
    BY <2>1, <2>2, <1>1, WriteOne
  <2> QED  BY <2>3, <1>1, <1>2 DEF Pushes
<1>3. CASE ~(time > lastCheck /\ SaveAlphaAndShift(time))
  <2>1. file' = file /\ alphaLeft' = alphaLeft
    BY <1>3 DEF Update, NewInstant, StartAlpha, StartBeta, MergeBetaIntoAlpha, intervals
  <2> QED  BY <2>1, <1>1, <1>3 DEF Pushes
<1> QED  BY <1>2, <1>3

\* The file after one interval, and the line that ends it.
LEMMA OneMoreAndEnd ==
  ASSUME NEW lines \in Seq(Line), NEW left \in Times, NEW right \in Times,
         NEW v \in V, NEW w \in V
  PROVE  Pushed(Intervals(lines \o << <<left, v>>, <<right, w>> >>),
                Reading(lines, left), left, right, v)
PROOF
<1> DEFINE x == <<left, v>>
           y == <<right, w>>
<1>1. x \in Line /\ y \in Line
  BY DEF Line
<1>2. lines \o <<x>> \in Seq(Line)
  BY <1>1, AppendLine
<1>3. Intervals((lines \o <<x>>) \o <<y>>) = Reading(lines \o <<x>>, right)
  BY <1>2, LastLine
<1>4. Pushed(Reading(lines \o <<x>>, right), Reading(lines, left), left, right, v)
  BY WriteOne
<1>5. lines \o <<x, y>> = (lines \o <<x>>) \o <<y>>
  BY <1>1, TwoLines
<1> QED  BY <1>3, <1>4, <1>5

LEMMA FileCloses ==
  ASSUME TypeOK, NEW time \in Times, Finalize(time), SaveToFile, alphaLeft # Unset,
         betaLeft = Unset => file = << >>
  PROVE  /\ Reading(file, alphaLeft) \in Seq(Interval)
         /\ Closes(Intervals(file'), Reading(file, alphaLeft), time)
PROOF
<1> DEFINE ivs == Reading(file, alphaLeft)
           new == Intervals(file')
<1>1. /\ file \in Seq(Line) /\ alphaLeft \in Times
      /\ (betaLeft # Unset => betaLeft \in Times)
      /\ lastUpdate \in V /\ alphaValue \in V
  BY DEF TypeOK, Line, V
<1>2. ivs \in Seq(Interval)
  BY <1>1, ReadingTyped
<1> SUFFICES Closes(new, ivs, time)
  BY <1>2
<1>3. CASE CloseAlpha(time)
  <2>1. CASE alphaLeft = time
    <3>1. file' = << >> /\ file = << >>
      BY <2>1, <1>3 DEF CloseAlpha
    <3>2. ivs = << >> /\ new = << >>
      BY <3>1, NothingRead
    <3> QED  BY <3>2, <2>1, <1>2, <1>3 DEF CloseAlpha, Closes
  <2>2. CASE alphaLeft # time
    <3>1. file' = file \o << <<alphaLeft, lastUpdate>>, <<time, lastUpdate>> >>
      BY <2>2, <1>3 DEF CloseAlpha, Write
    <3>2. Pushed(new, ivs, alphaLeft, time, lastUpdate)
      BY <3>1, <1>1, OneMoreAndEnd
    <3>3. new \in Seq(Interval) /\ betaLeft = Unset
      BY <3>2, <1>3 DEF Pushed, CloseAlpha
    <3> HIDE DEF ivs, new
    <3> QED  BY <3>2, <3>3, <2>2 DEF Closes
  <2> QED  BY <2>1, <2>2
<1>4. CASE CloseMerged(time)
  <2>1. file' = file \o << <<alphaLeft, alphaValue>>, <<time, alphaValue>> >>
    BY <1>4 DEF CloseMerged, Write
  <2>2. Pushed(new, ivs, alphaLeft, time, alphaValue)
    BY <2>1, <1>1, OneMoreAndEnd
  <2>3. new \in Seq(Interval) /\ betaLeft # Unset /\ alphaValue = lastUpdate
    BY <2>2, <1>4 DEF Pushed, CloseMerged
  <2> HIDE DEF ivs, new
  <2> QED  BY <2>2, <2>3 DEF Closes
<1>5. CASE CloseBoth(time)
  <2>1. betaLeft # Unset /\ alphaValue # lastUpdate
    BY <1>5 DEF CloseBoth
  <2>2. CASE betaLeft = time
    <3>1. file' = file \o << <<alphaLeft, alphaValue>>, <<betaLeft, alphaValue>> >>
      BY <2>2, <1>5 DEF CloseBoth, Write
    <3>2. Pushed(new, ivs, alphaLeft, betaLeft, alphaValue)
      BY <3>1, <2>1, <1>1, OneMoreAndEnd
    <3>3. new \in Seq(Interval)
      BY <3>2 DEF Pushed
    <3> HIDE DEF ivs, new
    <3> QED  BY <3>2, <3>3, <2>1, <2>2 DEF Closes
  <2>3. CASE betaLeft # time
    <3> DEFINE x == <<alphaLeft, alphaValue>>
               y == <<betaLeft, lastUpdate>>
               z == <<time, lastUpdate>>
               lines == file \o <<x>>
               mid == Reading(lines, betaLeft)
    <3>1. x \in Line /\ y \in Line /\ z \in Line
      BY <2>1, <1>1 DEF Line
    <3>2. lines \in Seq(Line)
      BY <3>1, <1>1, AppendLine
    <3>3. Pushed(mid, ivs, alphaLeft, betaLeft, alphaValue)
      BY <2>1, <1>1, WriteOne
    <3>4. file' = lines \o <<y, z>>
      <4>1. file' = file \o <<x, y, z>>
        BY <2>3, <1>5 DEF CloseBoth, Write
      <4> HIDE DEF x, y, z
      <4>2. file \o <<x, y, z>> = (lines \o <<y>>) \o <<z>>
        BY <3>1, <1>1, ThreeLines
      <4> HIDE DEF lines
      <4>3. lines \o <<y, z>> = (lines \o <<y>>) \o <<z>>
        BY <3>1, <3>2, TwoLines
      <4> QED  BY <4>1, <4>2, <4>3
    <3>5. mid \in Seq(Interval)
      BY <3>3 DEF Pushed
    <3> HIDE DEF x, lines
    <3>6. Pushed(new, mid, betaLeft, time, lastUpdate)
      BY <3>2, <3>4, <2>1, <1>1, OneMoreAndEnd
    <3>7. new \in Seq(Interval)
      BY <3>6 DEF Pushed
    <3> HIDE DEF mid, ivs, new
    <3> QED  BY <3>3, <3>5, <3>6, <3>7, <2>1, <2>3 DEF Closes
  <2> QED  BY <2>2, <2>3
<1> QED  BY <1>2, <1>3, <1>4, <1>5 DEF Finalize, CloseEmpty

----------------------------------------------------------------------------
(* The theorems *)

\* The open intervals always describe the signal since the first update, and
\* what was pushed or written is its exact form up to the start of alpha.
THEOREM LogInvariant == Spec => []LogIInv
PROOF
<1>1. Init => LogIInv
  <2> SUFFICES ASSUME Init PROVE LogIInv
    OBVIOUS
  <2>1. TypeOK
    BY HorizonAssumption DEF Init, TypeOK, Unset, Times
  <2> QED
    BY <2>1 DEF Init, LogIInv, OpenIntervals, LatestHolds, PushedIsExact,
                WrittenIsExact, Unset
<1>2. LogIInv /\ TypeOK' /\ [Next]_vars => LogIInv'
  <2> SUFFICES ASSUME LogIInv, TypeOK', [Next]_vars PROVE LogIInv'
    OBVIOUS
  <2>1. ASSUME NEW time \in Times, NEW value \in Values, Update(time, value)
        PROVE  LogIInv'
    <3>1. /\ TypeOK /\ OpenIntervals /\ PushedIsExact /\ WrittenIsExact
          /\ OpenIntervals' /\ LatestHolds'
      BY <2>1, OpenKept DEF LogIInv, Update
    <3>2. PushedIsExact'
      <4> SUFFICES ASSUME SaveInMemory
                   PROVE  ExactUpTo(log', signal', since', alphaLeft', alphaValue')
        BY DEF PushedIsExact
      <4>1. log \in Seq(Interval) /\ Pushes(log', log, time)
        BY <2>1, <3>1, MemoryPushes
      <4>2. betaLeft = Unset => log = << >>
        BY <3>1 DEF OpenIntervals
      <4>3. alphaLeft # Unset => ExactUpTo(log, signal, since, alphaLeft, alphaValue)
        BY <3>1 DEF PushedIsExact
      <4> QED  BY <2>1, <4>1, <4>2, <4>3, FormGrows
    <3>3. WrittenIsExact'
      <4> SUFFICES ASSUME SaveToFile
                   PROVE  ExactUpTo(Reading(file', alphaLeft'), signal', since',
                                    alphaLeft', alphaValue')
        BY DEF WrittenIsExact
      <4>1. betaLeft = Unset => Reading(file, alphaLeft) = << >>
        BY <3>1, NothingRead DEF OpenIntervals
      <4>2. alphaLeft # Unset =>
              ExactUpTo(Reading(file, alphaLeft), signal, since, alphaLeft, alphaValue)
        BY <3>1 DEF WrittenIsExact
      <4>3. /\ Reading(file, alphaLeft) \in Seq(Interval)
            /\ Pushes(Reading(file', alphaLeft'), Reading(file, alphaLeft), time)
        <5>1. CASE alphaLeft # Unset
          BY <5>1, <2>1, <3>1, FilePushes
        <5>2. CASE alphaLeft = Unset
          <6>1. file = << >> /\ file' = << >>
            BY <5>2, <2>1, <3>1 DEF OpenIntervals, Update, NewInstant, StartAlpha,
                 StartBeta, MergeBetaIntoAlpha, SaveAlphaAndShift, intervals
          <6>2. /\ Reading(file, alphaLeft) = << >>
                /\ Reading(file', alphaLeft') = << >>
            BY <6>1, NothingRead
          <6>3. Pushes(<< >>, << >>, time)
            BY <5>2 DEF Pushes, SaveAlphaAndShift
          <6>4. << >> \in Seq(Interval)
            OBVIOUS
          <6> QED  BY <6>2, <6>3, <6>4
        <5> QED  BY <5>1, <5>2
      <4> QED  BY <2>1, <4>1, <4>2, <4>3, FormGrows
    <3> QED  BY <3>1, <3>2, <3>3 DEF LogIInv
  <2>2. ASSUME NEW time \in Times, Finalize(time)
        PROVE  LogIInv'
    BY <2>2, TimesAreNumbers DEF Finalize, LogIInv
  <2>3. CASE UNCHANGED vars
    BY <2>3 DEF LogIInv, vars, OpenIntervals, LatestHolds, PushedIsExact,
                WrittenIsExact, ExactUpTo, Form, InMemory!RunLengthForm
  <2> QED  BY <2>1, <2>2, <2>3 DEF Next
<1> QED  BY <1>1, <1>2, TypeCorrect, PTL DEF Spec

\* What was pushed before the log is closed is exact up to the start of alpha.
THEOREM PartialLogCorrect == Spec => []PartialLogIsExact
PROOF
<1>1. LogIInv => PartialLogIsExact
  BY DEF LogIInv, PushedIsExact, ExactUpTo, PartialLogIsExact, Form
<1> QED  BY <1>1, LogInvariant, PTL

\* Where no update came, closing pushes and writes nothing.
LEMMA NothingClosed ==
  ASSUME LogIInv, NEW time \in Times, Finalize(time), since = Unset
  PROVE  log' = << >> /\ file' = << >>
PROOF
<1>1. OpenIntervals
  BY DEF LogIInv, Finalize
<1>2. alphaLeft = Unset /\ log = << >> /\ file = << >>
  BY <1>1 DEF OpenIntervals
<1> QED  BY <1>2 DEF Finalize, CloseAlpha, CloseMerged, CloseBoth, CloseEmpty

\* What the open intervals allow to conclude when the log is closed.
LEMMA OpenAtClosing ==
  ASSUME LogIInv, NEW time \in Times, Finalize(time), since # Unset
  PROVE  /\ TypeOK /\ OpenIntervals /\ LatestHolds /\ PushedIsExact /\ WrittenIsExact
         /\ alphaLeft # Unset /\ time >= lastCheck
BY DEF LogIInv, Finalize, OpenIntervals

\* LogUpdateHelper implements SignalLog: the memory log is the run-length form
\* of the logged signal, whatever the order and the times of the updates.
THEOREM MemoryLogCorrect ==
  ASSUME SaveInMemory
  PROVE  Spec => MemoryLogIsExact
PROOF
<1>1. Init => InMemory!AbsInit
  BY DEF Init, InMemory!AbsInit
<1>2. LogIInv /\ [Next]_vars => [InMemory!AbsNext]_(InMemory!absVars)
  <2> SUFFICES ASSUME LogIInv, [Next]_vars
               PROVE  [InMemory!AbsNext]_(InMemory!absVars)
    OBVIOUS
  <2>1. ASSUME NEW time \in Times, NEW value \in Values, Update(time, value)
        PROVE  InMemory!AbsUpdate(time, value)
    BY <2>1 DEF Update, InMemory!AbsUpdate, InMemory!Report, InMemory!Times, Times
  <2>2. ASSUME NEW time \in Times, Finalize(time)
        PROVE  InMemory!AbsFinalize(time)
    <3>1. time # Unset
      BY TimesAreNumbers
    <3>2. CASE since = Unset
      BY <3>1, <3>2, <2>2, NothingClosed DEF Finalize, InMemory!AbsFinalize
    <3>3. CASE since # Unset
      <4>1. /\ TypeOK /\ OpenIntervals /\ LatestHolds
            /\ alphaLeft # Unset /\ time >= lastCheck
            /\ ExactUpTo(log, signal, since, alphaLeft, alphaValue)
        BY <3>3, <2>2, OpenAtClosing DEF PushedIsExact
      <4>2. log \in Seq(Interval) /\ Closes(log', log, time)
        BY <4>1, <2>2, MemoryCloses
      <4>3. Form(log', signal, since, time)
        BY <4>1, <4>2, <3>3, FormCompleted DEF OpenIntervals
      <4> QED  BY <4>3, <3>1, <3>3, <2>2 DEF Finalize, InMemory!AbsFinalize, Form
    <3> QED  BY <3>2, <3>3
  <2>3. CASE UNCHANGED vars
    BY <2>3 DEF vars, InMemory!absVars
  <2> QED  BY <2>1, <2>2, <2>3 DEF Next, InMemory!AbsNext, InMemory!Times, Times
<1> QED
  BY <1>1, <1>2, LogInvariant, PTL DEF Spec, MemoryLogIsExact, InMemory!AbsSpec

\* The lines of the closed file, read back, are that form too: a line ends the
\* interval before it, also where the last interval has no extent.
THEOREM FileLogCorrect ==
  ASSUME SaveToFile
  PROVE  Spec => FileLogIsExact
PROOF
<1>1. Init => InFile!AbsInit
  BY DEF Init, InFile!AbsInit
<1>2. LogIInv /\ [Next]_vars => [InFile!AbsNext]_(InFile!absVars)
  <2> SUFFICES ASSUME LogIInv, [Next]_vars
               PROVE  [InFile!AbsNext]_(InFile!absVars)
    OBVIOUS
  <2>1. ASSUME NEW time \in Times, NEW value \in Values, Update(time, value)
        PROVE  InFile!AbsUpdate(time, value)
    BY <2>1 DEF Update, InFile!AbsUpdate, InFile!Report, InFile!Times, Times
  <2>2. ASSUME NEW time \in Times, Finalize(time)
        PROVE  InFile!AbsFinalize(time)
    <3>1. time # Unset /\ FileIntervals' = Intervals(file')
      BY TimesAreNumbers DEF FileIntervals, Intervals
    <3>2. CASE since = Unset
      <4>1. FileIntervals' = << >>
        BY <3>1, <3>2, <2>2, NothingClosed, NothingRead
      <4> QED  BY <3>1, <3>2, <4>1, <2>2 DEF Finalize, InFile!AbsFinalize
    <3>3. CASE since # Unset
      <4> DEFINE ivs == Reading(file, alphaLeft)
      <4>1. /\ TypeOK /\ OpenIntervals /\ LatestHolds
            /\ alphaLeft # Unset /\ time >= lastCheck
            /\ ExactUpTo(ivs, signal, since, alphaLeft, alphaValue)
        BY <3>3, <2>2, OpenAtClosing DEF WrittenIsExact
      <4>2. betaLeft = Unset => file = << >> /\ ivs = << >>
        BY <4>1, NothingRead DEF OpenIntervals
      <4>3. ivs \in Seq(Interval) /\ Closes(Intervals(file'), ivs, time)
        BY <4>1, <4>2, <2>2, FileCloses
      <4> HIDE DEF ivs
      <4>4. Form(FileIntervals', signal, since, time)
        BY <4>1, <4>2, <4>3, <3>1, <3>3, FormCompleted
      <4>5. InFile!RunLengthForm(FileIntervals', signal, since, time)
        BY <4>4 DEF Form, InMemory!RunLengthForm, InFile!RunLengthForm,
                    InMemory!Times, InFile!Times
      <4> QED  BY <4>5, <3>1, <3>3, <2>2 DEF Finalize, InFile!AbsFinalize
    <3> QED  BY <3>2, <3>3
  <2>3. CASE UNCHANGED vars
    <3>1. FileIntervals' = FileIntervals /\ finalTime' = finalTime
      BY <2>3 DEF vars, FileIntervals
    <3> QED  BY <2>3, <3>1 DEF vars, InFile!absVars
  <2> QED  BY <2>1, <2>2, <2>3 DEF Next, InFile!AbsNext, InFile!Times, Times
<1> QED
  BY <1>1, <1>2, LogInvariant, PTL DEF Spec, FileLogIsExact, InFile!AbsSpec
=============================================================================
