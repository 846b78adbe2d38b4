---------------------------- MODULE DecayProofs ----------------------------
(***************************************************************************)
(* Theorems about Decay, for every window, precision, threshold and set of *)
(* usage levels.                                                           *)
(***************************************************************************)
EXTENDS Decay, SequenceTheorems, TLAPS

\* Rounding a number between two integers stays between them.
LEMMA RoundedWithin ==
  ASSUME NEW n \in Int, NEW d \in Nat \ {0}, NEW lo \in Int, NEW hi \in Int,
         lo * d <= n, n <= hi * d, NEW q \in Rounded(n, d)
  PROVE  q \in lo..hi
<1>1. q \in Int /\ 2 * (q * d) <= 2 * n + d /\ 2 * n <= 2 * (q * d) + d
  BY DEF Rounded
<1>2. q <= hi
  <2> SUFFICES ASSUME hi + 1 <= q PROVE FALSE
    BY <1>1
  <2>1. (hi + 1) * d <= q * d
    BY <1>1
  <2>2. (hi + 1) * d = hi * d + d
    OBVIOUS
  <2> QED
    BY <1>1, <2>1, <2>2
<1>3. lo <= q
  <2> SUFFICES ASSUME q + 1 <= lo PROVE FALSE
    BY <1>1
  <2>1. (q + 1) * d <= lo * d
    BY <1>1
  <2>2. (q + 1) * d = q * d + d
    BY <1>1
  <2> QED
    BY <1>1, <2>1, <2>2
<1> QED
  BY <1>1, <1>2, <1>3

\* The EWMA of two values lies between any bounds of both.
LEMMA EwmaWithin ==
  ASSUME NEW lo \in Nat, NEW hi \in Nat,
         NEW sample \in lo..hi, NEW previous \in lo..hi,
         NEW q \in ComputeEwma(sample, previous)
  PROVE  q \in lo..hi
<1> USE DecayAssumption
<1> DEFINE m == Window - 1
           n == WeightedSum(sample, previous)
<1>1. m \in Nat /\ sample \in Nat /\ previous \in Nat /\ Window + 1 = m + 2
  OBVIOUS
<1>2. n = 2 * sample + m * previous /\ n \in Int
  BY <1>1 DEF WeightedSum
<1>3. m * lo <= m * previous /\ m * previous <= m * hi
  <2>1. lo <= previous /\ previous <= hi
    OBVIOUS
  <2> HIDE DEF m
  <2> QED
    BY <1>1, <2>1
<1>4. lo * (m + 2) = 2 * lo + m * lo /\ hi * (m + 2) = 2 * hi + m * hi
  <2> HIDE DEF m
  <2> QED
    BY <1>1
<1>5. m * lo \in Int /\ m * hi \in Int /\ m * previous \in Int
  BY <1>1
<1>6. lo * (m + 2) <= n /\ n <= hi * (m + 2)
  <2>1. 2 * lo <= 2 * sample /\ 2 * sample <= 2 * hi
    OBVIOUS
  <2> HIDE DEF m, n
  <2> QED
    BY <1>1, <1>2, <1>3, <1>4, <1>5, <2>1
<1>7. q \in Rounded(n, m + 2)
  BY <1>1 DEF ComputeEwma
<1> HIDE DEF m, n
<1> QED
  BY <1>1, <1>2, <1>6, <1>7, RoundedWithin

\* What an evaluation will store lies within any bounds of its own sample and of
\* the samples stored before it. One that was overtaken was so by a stored one.
OpenWithinSamples ==
  \A k \in DOMAIN open :
    /\ open[k].overtaken => sampled
    /\ \A lo, hi \in Nat :
         /\ lo <= open[k].sample /\ open[k].sample <= hi
         /\ sampled => lo <= lowest /\ highest <= hi
         => open[k].ewma \in (lo * Precision)..(hi * Precision)

DecayInv ==
  TypeOK /\ EwmaWithinSamples /\ (sampled => lowest <= highest) /\ OpenWithinSamples

LEMMA Scaled ==
  ASSUME NEW a \in Nat, NEW b \in Nat, a <= b
  PROVE  a * Precision \in Nat /\ b * Precision \in Nat /\ a * Precision <= b * Precision
BY DecayAssumption

\* A new sample is within its own bounds.
LEMMA SampleKeepsInv == DecayInv /\ Sample => DecayInv'
<1> SUFFICES ASSUME DecayInv, Sample PROVE DecayInv'
  OBVIOUS
<1> USE DecayAssumption
<1>1. PICK new \in ComputeEwma(usage * Precision, PreviousEwma) :
        open' = Append(open, [sample |-> usage, ewma |-> new, from |-> state,
                              to |-> Evaluate(state, usage, peak, Threshold),
                              overtaken |-> FALSE])
  BY DEF Sample
<1>2. /\ usage \in UsageLevels /\ usage \in Nat /\ state \in STATES
      /\ lowest \in Nat /\ highest \in Nat /\ ewma \in Nat /\ open \in Seq(OpenEvaluations)
  BY DEF DecayInv, TypeOK
<1>3. UNCHANGED <<usage, state, peak, sampled, ewma, lowest, highest>>
  BY DEF Sample
<1>4. ASSUME NEW lo \in Nat, NEW hi \in Nat, lo <= usage, usage <= hi,
             sampled => lo <= lowest /\ highest <= hi
      PROVE  new \in (lo * Precision)..(hi * Precision)
  <2>1. /\ lo * Precision \in Nat /\ hi * Precision \in Nat
        /\ usage * Precision \in (lo * Precision)..(hi * Precision)
    BY <1>2, <1>4, Scaled
  <2>2. PreviousEwma \in (lo * Precision)..(hi * Precision)
    <3>1. CASE sampled
      <4>1. lowest <= highest
        BY <3>1 DEF DecayInv
      <4>2. lo * Precision <= lowest * Precision /\ highest * Precision <= hi * Precision
        BY <1>2, <1>4, <3>1, Scaled
      <4>3. lowest * Precision <= ewma /\ ewma <= highest * Precision
        BY <3>1 DEF DecayInv, EwmaWithinSamples
      <4>4. lowest * Precision \in Nat /\ highest * Precision \in Nat
        BY <1>2, <4>1, Scaled
      <4>5. ewma \in (lo * Precision)..(hi * Precision)
        BY <1>2, <2>1, <4>2, <4>3, <4>4
      <4> QED
        BY <3>1, <4>5 DEF PreviousEwma
    <3>2. CASE ~sampled
      BY <2>1, <3>2 DEF PreviousEwma
    <3> QED
      BY <3>1, <3>2
  <2> QED
    BY <2>1, <2>2, EwmaWithin
<1>5. new \in Nat
  <2> DEFINE lo == IF sampled /\ lowest <= usage THEN lowest ELSE usage
             hi == IF sampled /\ highest >= usage THEN highest ELSE usage
  <2>1. /\ lo \in Nat /\ hi \in Nat /\ lo <= usage /\ usage <= hi
        /\ sampled => lo <= lowest /\ highest <= hi
    BY <1>2
  <2>2. lo * Precision \in Nat /\ hi * Precision \in Nat
    BY <1>2, <2>1, Scaled
  <2> HIDE DEF lo, hi
  <2>3. new \in (lo * Precision)..(hi * Precision)
    BY <1>4, <2>1
  <2> QED
    BY <2>2, <2>3
<1>6. Evaluate(state, usage, peak, Threshold) \in STATES
  BY <1>2 DEF Evaluate, Dest, STATES
<1>7. [sample |-> usage, ewma |-> new, from |-> state,
       to |-> Evaluate(state, usage, peak, Threshold), overtaken |-> FALSE] \in OpenEvaluations
  BY <1>2, <1>5, <1>6 DEF OpenEvaluations
<1>8. TypeOK'
  BY <1>1, <1>2, <1>3, <1>7 DEF DecayInv, TypeOK
<1>9. OpenWithinSamples'
  <2> SUFFICES ASSUME NEW k \in DOMAIN open'
               PROVE  /\ open'[k].overtaken => sampled'
                      /\ \A lo, hi \in Nat :
                           /\ lo <= open'[k].sample /\ open'[k].sample <= hi
                           /\ sampled' => lo <= lowest' /\ highest' <= hi
                           => open'[k].ewma \in (lo * Precision)..(hi * Precision)
    BY DEF OpenWithinSamples
  <2>1. CASE k \in DOMAIN open
    <3>1. open'[k] = open[k]
      BY <1>1, <1>2, <2>1
    <3> QED
      BY <1>3, <2>1, <3>1 DEF DecayInv, OpenWithinSamples
  <2>2. CASE k \notin DOMAIN open
    <3>1. open'[k] = [sample |-> usage, ewma |-> new, from |-> state,
                      to |-> Evaluate(state, usage, peak, Threshold), overtaken |-> FALSE]
      BY <1>1, <1>2, <2>2
    <3> QED
      BY <1>3, <1>4, <3>1
  <2> QED
    BY <2>1, <2>2
<1> QED
  BY <1>3, <1>8, <1>9 DEF DecayInv, EwmaWithinSamples

\* A row that is stored keeps the EWMA within the samples, and the bounds of the
\* evaluations that go on.
LEMMA CommitKeepsInv ==
  ASSUME NEW k, DecayInv, CommitSample(k)
  PROVE  DecayInv'
<1> USE DecayAssumption
<1>1. /\ k \in DOMAIN open
      /\ ewma' = IF open[k].overtaken THEN ewma ELSE open[k].ewma
      /\ sampled' = TRUE
      /\ lowest' = IF sampled /\ lowest <= open[k].sample THEN lowest ELSE open[k].sample
      /\ highest' = IF sampled /\ highest >= open[k].sample THEN highest ELSE open[k].sample
      /\ UNCHANGED <<usage, peak>>
  BY DEF CommitSample
<1>2. open' = [j \in 1..(Len(open) - 1) |->
                 IF j < k THEN [open[j] EXCEPT !.overtaken = TRUE] ELSE open[j + 1]]
  BY DEF CommitSample
<1>3. /\ open \in Seq(OpenEvaluations) /\ lowest \in Nat /\ highest \in Nat /\ ewma \in Nat
      /\ state \in STATES
  BY DEF DecayInv, TypeOK
<1>4. \A j \in DOMAIN open : open[j] \in OpenEvaluations
  BY <1>3
<1>5. open[k].sample \in Nat /\ open[k].ewma \in Nat /\ open[k].to \in STATES
  BY <1>1, <1>4 DEF OpenEvaluations
<1>6. /\ lowest' \in Nat /\ highest' \in Nat /\ lowest' <= highest'
      /\ lowest' <= open[k].sample /\ open[k].sample <= highest'
      /\ sampled => lowest' <= lowest /\ highest <= highest'
  BY <1>1, <1>3, <1>5 DEF DecayInv
<1>7. ewma' \in (lowest' * Precision)..(highest' * Precision)
  <2>1. CASE open[k].overtaken
    <3>1. sampled
      BY <1>1, <2>1 DEF DecayInv, OpenWithinSamples
    <3>2. lowest * Precision <= ewma /\ ewma <= highest * Precision /\ lowest <= highest
      BY <3>1 DEF DecayInv, EwmaWithinSamples
    <3>3. /\ lowest' * Precision \in Nat /\ highest' * Precision \in Nat
          /\ lowest * Precision \in Nat /\ highest * Precision \in Nat
          /\ lowest' * Precision <= lowest * Precision
          /\ highest * Precision <= highest' * Precision
      BY <1>3, <1>6, <3>1, Scaled
    <3>4. ewma \in (lowest' * Precision)..(highest' * Precision)
      BY <1>3, <3>2, <3>3
    <3> QED
      BY <1>1, <2>1, <3>4
  <2>2. CASE ~open[k].overtaken
    <3>1. ewma' = open[k].ewma
      BY <1>1, <2>2
    <3> QED
      BY <1>1, <1>6, <3>1 DEF DecayInv, OpenWithinSamples
  <2> QED
    BY <2>1, <2>2
<1>8. ewma' \in Nat
  BY <1>1, <1>3, <1>5
<1>9. \A j \in DOMAIN open' :
        /\ open'[j] \in OpenEvaluations
        /\ \E m \in DOMAIN open : open'[j].sample = open[m].sample /\ open'[j].ewma = open[m].ewma
  <2> SUFFICES ASSUME NEW j \in DOMAIN open'
               PROVE  /\ open'[j] \in OpenEvaluations
                      /\ \E m \in DOMAIN open :
                           open'[j].sample = open[m].sample /\ open'[j].ewma = open[m].ewma
    OBVIOUS
  <2>1. j \in 1..(Len(open) - 1) /\ Len(open) \in Nat /\ DOMAIN open = 1..Len(open)
    BY <1>2, <1>3
  <2>2. CASE j < k
    <3>1. open'[j] = [open[j] EXCEPT !.overtaken = TRUE] /\ j \in DOMAIN open
      BY <1>2, <2>1, <2>2
    <3>2. open[j] \in OpenEvaluations
      BY <1>4, <3>1
    <3> QED
      BY <3>1, <3>2 DEF OpenEvaluations
  <2>3. CASE ~(j < k)
    <3>1. open'[j] = open[j + 1] /\ j + 1 \in DOMAIN open
      BY <1>2, <2>1, <2>3
    <3> QED
      BY <1>4, <3>1
  <2> QED
    BY <2>2, <2>3
<1>10. OpenWithinSamples'
  <2> SUFFICES ASSUME NEW j \in DOMAIN open', NEW lo \in Nat, NEW hi \in Nat,
                      lo <= open'[j].sample, open'[j].sample <= hi,
                      lo <= lowest', highest' <= hi
               PROVE  open'[j].ewma \in (lo * Precision)..(hi * Precision)
    BY <1>1 DEF OpenWithinSamples
  <2>1. PICK m \in DOMAIN open :
          open'[j].sample = open[m].sample /\ open'[j].ewma = open[m].ewma
    BY <1>9
  <2>2. sampled => lo <= lowest /\ highest <= hi
    BY <1>3, <1>6
  <2>3. lo <= open[m].sample /\ open[m].sample <= hi
    BY <2>1
  <2>4. open[m].ewma \in (lo * Precision)..(hi * Precision)
    BY <2>1, <2>2, <2>3 DEF DecayInv, OpenWithinSamples
  <2> QED
    BY <2>1, <2>4
<1>11. open' \in Seq(OpenEvaluations)
  <2>1. Len(open) \in Nat /\ k \in 1..Len(open)
    BY <1>1, <1>3
  <2>2. Len(open) - 1 \in Nat /\ DOMAIN open' = 1..(Len(open) - 1)
    BY <1>2, <2>1
  <2>3. \A j \in 1..(Len(open) - 1) : open'[j] \in OpenEvaluations
    BY <1>9, <2>2
  <2> DEFINE n == Len(open) - 1
             Entry(j) == IF j < k THEN [open[j] EXCEPT !.overtaken = TRUE] ELSE open[j + 1]
  <2>4. open' = [j \in 1..n |-> Entry(j)] /\ \A j \in 1..n : open'[j] = Entry(j)
    BY <1>2
  <2> HIDE DEF n, Entry
  <2>5. n \in Nat /\ \A j \in 1..n : Entry(j) \in OpenEvaluations
    BY <2>2, <2>3, <2>4 DEF n
  <2>6. [j \in 1..n |-> Entry(j)] \in Seq(OpenEvaluations)
    BY <2>5, IsASeq
  <2> QED
    BY <2>4, <2>6
<1>12. state' \in STATES
  BY <1>3, <1>5 DEF CommitSample
<1>13. TypeOK'
  BY <1>1, <1>6, <1>8, <1>11, <1>12 DEF DecayInv, TypeOK
<1> QED
  BY <1>6, <1>7, <1>10, <1>13 DEF DecayInv, EwmaWithinSamples

\* Every step keeps the types and the EWMA within the samples.
LEMMA NextDecayInv == DecayInv /\ [Next]_vars => DecayInv'
<1> SUFFICES ASSUME DecayInv, [Next]_vars PROVE DecayInv'
  OBVIOUS
<1> USE DecayAssumption
<1>1. CASE Traffic
  BY <1>1 DEF Traffic, DecayInv, TypeOK, EwmaWithinSamples, OpenWithinSamples
<1>2. CASE Activate
  BY <1>2 DEF Activate, DecayInv, TypeOK, EwmaWithinSamples, OpenWithinSamples, Dest, STATES
<1>3. CASE Sample
  BY <1>3, SampleKeepsInv
<1>4. CASE \E k \in 1..MaxOpen : CommitSample(k)
  BY <1>4, CommitKeepsInv
<1>5. CASE UNCHANGED vars
  BY <1>5 DEF vars, DecayInv, TypeOK, EwmaWithinSamples, OpenWithinSamples
<1> QED
  BY <1>1, <1>2, <1>3, <1>4, <1>5 DEF Next

LEMMA DecayInvariant == Spec => []DecayInv
<1>1. Init => DecayInv
  <2> SUFFICES ASSUME Init PROVE DecayInv
    OBVIOUS
  <2>1. sampled = FALSE /\ open = <<>>
    BY DEF Init
  <2>2. <<>> \in Seq(OpenEvaluations)
    OBVIOUS
  <2>3. TypeOK
    BY <2>2, DecayAssumption DEF Init, TypeOK, STATES
  <2> QED
    BY <2>1, <2>3 DEF DecayInv, EwmaWithinSamples, OpenWithinSamples
<1> QED
  BY <1>1, NextDecayInv, PTL DEF Spec

\* Every reachable state is type correct: EWMA and samples are numbers, and the
\* state is one of the campaign's, whatever the guards decide.
THEOREM TypeCorrect == Spec => []TypeOK
BY DecayInvariant, PTL DEF DecayInv

\* For every window and precision, the EWMA that record_metric stores stays
\* within the range of the samples, rounding included.
THEOREM EwmaIsBounded == Spec => []EwmaWithinSamples
BY DecayInvariant, PTL DEF DecayInv
=============================================================================
