--------------------------- MODULE RepliesProofs ----------------------------
(***************************************************************************)
(* What ReadLine, ParseScanResponse and resultFromLine let through, for    *)
(* replies of any length.                                                  *)
(***************************************************************************)
EXTENDS Outcomes, Integers, TLAPS, SequenceTheorems, WellFoundedInduction

\* The largest element exists: by well-foundedness of < applied to the
\* distances from the bound.
LEMMA MaxOfBounded ==
  ASSUME NEW n \in Nat, NEW I \in SUBSET (1 .. n), I # {}
  PROVE  Max(I) \in I /\ \A i \in I : Max(I) >= i
<1> DEFINE T == {n - i : i \in I}
<1>1. T \subseteq Nat /\ T # {}
  <2>1. \A i \in I : n - i \in Nat
        OBVIOUS
  <2>2. PICK i \in I : TRUE
        OBVIOUS
  <2>3. n - i \in T
        BY <2>2
  <2> QED
    BY <2>1, <2>3
<1>2. PICK d \in T : \A e \in T : ~ (<<e, d>> \in OpToRel(<, Nat))
  <2> HIDE DEF T
  <2> QED
    BY <1>1, NatLessThanWellFounded, WFMin
<1>3. PICK m \in I : d = n - m
      BY <1>2
<1>4. \A i \in I : m >= i
  <2> SUFFICES ASSUME NEW i \in I, ~ (m >= i) PROVE FALSE
      OBVIOUS
  <2>1. n - i \in T /\ n - i < d /\ n - i \in Nat /\ d \in Nat
        BY <1>3
  <2>2. <<n - i, d>> \in OpToRel(<, Nat)
        BY <2>1 DEF OpToRel
  <2> QED
    BY <2>1, <2>2, <1>2
<1> QED
  BY <1>4, Zenon DEF Max

\* TrimRight is the prefix that ends with the last lexeme outside the cutset.
LEMMA TrimRightIs ==
  ASSUME NEW S, NEW line \in Seq(S), NEW cutset
  PROVE  \E k \in 0 .. Len(line) :
           /\ TrimRight(line, cutset) = SubSeq(line, 1, k)
           /\ k > 0 => line[k] \notin cutset
           /\ \A i \in k + 1 .. Len(line) : line[i] \in cutset
<1> DEFINE I == {i \in 1 .. Len(line) : line[i] \notin cutset}
<1>0. Len(line) \in Nat
      OBVIOUS
<1>1. TrimRight(line, cutset) = SubSeq(line, 1, IF I # {} THEN Max(I) ELSE 0)
      BY DEF TrimRight, SelectLastInSeq
<1>2. CASE I = {}
  <2>1. \A i \in 1 .. Len(line) : line[i] \in cutset
        BY <1>2
  <2> HIDE DEF I
  <2> QED
    BY <1>0, <1>1, <1>2, <2>1
<1>3. CASE I # {}
  <2>1. I \in SUBSET (1 .. Len(line))
        OBVIOUS
  <2>2. Max(I) \in I /\ \A i \in I : Max(I) >= i
    <3> HIDE DEF I
    <3> QED
      BY <1>0, <1>3, <2>1, MaxOfBounded
  <2>3. PICK k \in 1 .. Len(line) : k = Max(I)
        BY <2>2
  <2>4. line[k] \notin cutset
        BY <2>2, <2>3
  <2>5. ASSUME NEW i \in k + 1 .. Len(line) PROVE line[i] \in cutset
    <3>1. i \in 1 .. Len(line) /\ ~ (k >= i)
          BY <1>0, <2>3
    <3>2. i \notin I
          BY <2>2, <2>3, <3>1
    <3> QED
      BY <3>1, <3>2
  <2> HIDE DEF I
  <2> QED
    BY <1>0, <1>1, <1>3, <2>3, <2>4, <2>5
<1> QED
  BY <1>2, <1>3

\* A line classified clean is one of the allowlist, blanks after it aside.
LEMMA CleanLineIsAllowlisted ==
  ASSUME NEW line \in Seq(Lexemes),
         ParseScanResponse(line).outcome = OutcomeClean
  PROVE  SaysClean(line)
<1>1. TrimRight(line, Blanks) \in CleanLines
      BY DEF ParseScanResponse, OutcomeUnknown, OutcomeClean, OutcomeInfected,
             OutcomeError
<1>2. PICK k \in 0 .. Len(line) :
        /\ TrimRight(line, Blanks) = SubSeq(line, 1, k)
        /\ \A i \in k + 1 .. Len(line) : line[i] \in Blanks
      BY TrimRightIs
<1> QED
  BY <1>1, <1>2 DEF SaysClean

\* finishLine takes nothing but line ends off the end.
LEMMA FinishLineIs ==
  ASSUME NEW content \in Seq(Lexemes), FinishLine(content).err = "nil"
  PROVE  \E j \in 0 .. Len(content) :
           /\ FinishLine(content).line = SubSeq(content, 1, j)
           /\ \A i \in j + 1 .. Len(content) : content[i] \in Blanks
<1>1. FinishLine(content).line = TrimRight(content, LineEnds)
      BY DEF FinishLine
<1>2. LineEnds \subseteq Blanks
      BY DEF LineEnds, Blanks
<1> QED
  BY <1>1, <1>2, TrimRightIs

\* Taking line ends off does not make a reply clean that was not.
LEMMA FinishedCleanIsClean ==
  ASSUME NEW content \in Seq(Lexemes), FinishLine(content).err = "nil",
         SaysClean(FinishLine(content).line)
  PROVE  SaysClean(content)
<1>1. PICK j \in 0 .. Len(content) :
        /\ FinishLine(content).line = SubSeq(content, 1, j)
        /\ \A i \in j + 1 .. Len(content) : content[i] \in Blanks
      BY FinishLineIs
<1> DEFINE line == SubSeq(content, 1, j)
<1>2. line \in Seq(Lexemes) /\ Len(line) = j
        /\ \A i \in 1 .. j : line[i] = content[i]
      BY <1>1, SubSeqProperties
<1>3. PICK k \in 0 .. Len(line) :
        /\ SubSeq(line, 1, k) \in CleanLines
        /\ \A i \in k + 1 .. Len(line) : line[i] \in Blanks
      BY <1>1 DEF SaysClean
<1>4. SubSeq(line, 1, k) = SubSeq(content, 1, k)
      BY <1>2, <1>3
<1>5. \A i \in k + 1 .. Len(content) : content[i] \in Blanks
      BY <1>1, <1>2, <1>3
<1>6. k \in 0 .. Len(content)
      BY <1>2, <1>3
<1> QED
  BY <1>3, <1>4, <1>5, <1>6 DEF SaysClean

\* resultFromLine returns a clean verdict for a terminated clean line only.
LEMMA ResultCleanIs ==
  ASSUME NEW line, NEW terminated \in BOOLEAN,
         ResultFromLine(line, terminated).verdict = "clean"
  PROVE  terminated /\ ParseScanResponse(line).outcome = OutcomeClean
BY DEF ResultFromLine, Verdict, Failure

\* ReadLine reports terminated for a content that its NUL ended.
LEMMA ReadLineTerminated ==
  ASSUME NEW content, NEW nul \in BOOLEAN, NEW max,
         ReadLine(content, nul, max).err = "nil"
  PROVE  /\ ReadLine(content, nul, max).terminated \in BOOLEAN
         /\ ReadLine(content, nul, max).terminated => nul
         /\ ReadLine(content, nul, max).line = FinishLine(content).line
         /\ FinishLine(content).err = "nil"
BY DEF ReadLine

\* A clean verdict comes from a reply that arrived with its NUL and consists of
\* an allowlisted OK line, whatever its length and whatever the read limit:
\* neither a reply cut short nor one with more text in it is taken for clean
\* (ReadLine, ParseScanResponse and resultFromLine together; ADR-0005, 0007).
THEOREM CleanNeedsCompleteOK ==
  ASSUME NEW content \in Seq(Lexemes), NEW nul \in BOOLEAN, NEW max \in Nat,
         ReadLine(content, nul, max).err = "nil",
         ResultFromLine(ReadLine(content, nul, max).line,
                        ReadLine(content, nul, max).terminated).verdict = "clean"
  PROVE  nul /\ SaysClean(content)
<1>1. /\ ReadLine(content, nul, max).terminated => nul
      /\ ReadLine(content, nul, max).line = FinishLine(content).line
      /\ FinishLine(content).err = "nil"
      BY ReadLineTerminated
<1>2. /\ ReadLine(content, nul, max).terminated
      /\ ParseScanResponse(FinishLine(content).line).outcome = OutcomeClean
      BY <1>1, ReadLineTerminated, ResultCleanIs
<1>3. FinishLine(content).line \in Seq(Lexemes)
      BY <1>1, FinishLineIs, SubSeqProperties
<1> QED
  BY <1>1, <1>2, <1>3, CleanLineIsAllowlisted, FinishedCleanIsClean

=============================================================================
