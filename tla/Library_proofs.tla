--------------------------- MODULE Library_proofs ---------------------------
(***************************************************************************)
(* For input of any length, any sizes and any number of calls: readString  *)
(* stays in its buffer and drops no character of a line; the descriptions  *)
(* of the predefined routines agree.                                       *)
(***************************************************************************)
EXTENDS Library, Types_proofs, FiniteSetTheorems

Typed ==
  /\ pc \in {"idle", "first", "loop", "copy"}
  /\ c \in Characters
  /\ input \in Seq(Characters) /\ taken \in Seq(Characters)
  /\ buf \in Seq(Characters) /\ s \in Seq(Characters)
  /\ tidy \in BOOLEAN /\ size \in Int /\ i \in Int

(* buf has room for size characters and keeps a terminator behind them.    *)
Terminated == size >= 1 /\ Len(buf) = size + 1 /\ buf[size + 1] = Nul

(* What the loop has taken stands in buf, but for the character before it. *)
Kept ==
  /\ Len(taken) >= 1
  /\ \A k \in 1 .. Len(taken) - 1 : buf[k] = taken[k + 1]

Reading ==
  /\ pc # "idle" => Terminated
  /\ pc = "first" => taken = << >> /\ (tidy => input # << >> /\ Head(input) = Newline)
  /\ pc = "loop" => i \in 0 .. size /\ (tidy => Kept /\ Len(taken) = i + 1)
  /\ pc = "copy" => (tidy => Kept /\ Len(taken) <= size + 1)

LibInv == Typed /\ Reading /\ LinesArrive


-----------------------------------------------------------------------------
(* Sequences                                                               *)

LEMMA MinIs ==
  ASSUME NEW T \in SUBSET Nat, T # {}
  PROVE  Min(T) \in T /\ \A y \in T : Min(T) <= y
BY Least DEF Min

LEMMA FiniteInterval ==
  ASSUME NEW m \in Int, NEW n \in Int, NEW T \in SUBSET (m .. n)
  PROVE  Cardinality(T) \in Nat
<1>1. IsFiniteSet(m .. n)
  BY FS_Interval
<1>2. IsFiniteSet(T)
  BY <1>1, FS_Subset
<1>3. QED
  BY <1>2, FS_CardinalityType

LEMMA ToSetIs ==
  ASSUME NEW S, NEW u \in Seq(S), NEW e
  PROVE  e \in ToSet(u) <=> \E k \in 1 .. Len(u) : u[k] = e
<1>1. DOMAIN u = 1 .. Len(u)
  OBVIOUS
<1>2. e \in ToSet(u) <=> \E k \in DOMAIN u : u[k] = e
  BY Zenon DEF ToSet
<1>3. QED
  BY <1>1, <1>2, Zenon

LEMMA ToSetWithin ==
  ASSUME NEW S, NEW u \in Seq(S)
  PROVE  ToSet(u) \subseteq S
<1>1. \A k \in 1 .. Len(u) : u[k] \in S
  OBVIOUS
<1>2. QED
  BY <1>1, ToSetIs, Zenon

(* strcpy stops at the first terminator, and no sooner. *)
LEMMA UpToNulIs ==
  ASSUME NEW S, NEW b \in Seq(S), NEW n \in 1 .. Len(b), b[n] = Nul
  PROVE  /\ UpToNul(b) \in Seq(S)
         /\ Len(UpToNul(b)) \in 0 .. n - 1
         /\ b[Len(UpToNul(b)) + 1] = Nul
<1> DEFINE nuls == { k \in DOMAIN b : b[k] = Nul }
<1>1. Len(b) \in Nat /\ DOMAIN b = 1 .. Len(b) /\ \A k \in 1 .. Len(b) : b[k] \in S
  OBVIOUS
<1>2. n \in nuls /\ nuls \in SUBSET Nat
  BY <1>1
<1>3. Min(nuls) \in nuls /\ Min(nuls) <= n
  BY <1>2, MinIs
<1>4. UpToNul(b) = SubSeq(b, 1, Min(nuls) - 1)
  BY <1>2 DEF UpToNul
<1>5. Min(nuls) \in 1 .. n /\ b[Min(nuls)] = Nul
  BY <1>1, <1>3
<1> HIDE DEF nuls
<1> PICK m : m = Min(nuls)
  OBVIOUS
<1>6. \A k \in 1 .. m - 1 : b[k] \in S
  BY <1>1, <1>5
<1>7. UpToNul(b) \in Seq(S) /\ Len(UpToNul(b)) = m - 1
  BY <1>4, <1>5, <1>6, SubSeqProperties
<1>8. QED
  BY <1>5, <1>7

-----------------------------------------------------------------------------
(* The actions                                                             *)

LEMMA CharactersHold ==
  Newline \in Characters /\ Nul \in Characters /\ Byte255 \in Characters
BY DEF Characters, Newline, Nul, Byte255

(* getchar takes the next character, or Byte255 at the end of the input.   *)
LEMMA GetcharTakes ==
  ASSUME Getchar, input \in Seq(Characters), taken \in Seq(Characters)
  PROVE  /\ c' \in Characters
         /\ input' \in Seq(Characters) /\ taken' \in Seq(Characters)
         /\ \A k \in 1 .. Len(taken) : taken'[k] = taken[k]
         /\ \/ Len(taken') = Len(taken) /\ c' = Byte255
            \/ Len(taken') = Len(taken) + 1 /\ taken'[Len(taken) + 1] = c'
<1>1. CASE input = << >>
  BY <1>1, CharactersHold DEF Getchar
<1>2. CASE input # << >>
  <2>1. Head(input) \in Characters /\ Tail(input) \in Seq(Characters)
    BY <1>2
  <2>2. c' = Head(input) /\ taken' = Append(taken, Head(input)) /\ input' = Tail(input)
    BY <1>2 DEF Getchar
  <2>3. QED
    BY <2>1, <2>2
<1>3. QED
  BY <1>1, <1>2

LEMMA InitHolds == Init => LibInv
<1> SUFFICES ASSUME Init PROVE LibInv
  OBVIOUS
<1>1. input \in Seq(Characters)
  <2>1. PICK n \in 0 .. MaxInput : input \in [1 .. n -> Characters]
    BY DEF Init
  <2>2. n \in Nat
    BY InputAssumption
  <2>3. QED
    BY <2>1, <2>2
<1>2. Typed
  BY <1>1, CharactersHold DEF Init, Typed
<1>3. Reading /\ LinesArrive
  BY DEF Init, Reading, LinesArrive
<1>4. QED
  BY <1>2, <1>3 DEF LibInv

LEMMA CallOtherKeeps ==
  ASSUME LibInv, NEW f \in Routines, CallOther(f)
  PROVE  LibInv'
<1>1. UNCHANGED <<input, pc, size, i, c, buf, s, taken, lost, tidy>>
  BY DEF CallOther
<1>2. QED
  BY <1>1, Zenon DEF LibInv, Typed, Reading, Kept, Terminated, LinesArrive

LEMMA ReadNumberKeeps ==
  ASSUME LibInv, ReadNumber
  PROVE  LibInv'
<1> DEFINE blank == { k \in 1 .. Len(input) : \A m \in 1 .. k : input[m] = Newline }
           first == Cardinality(blank) + 1
           last == Cardinality(blank) + Cardinality(DigitsFrom(first))
<1>1. /\ pc = "idle" /\ UNCHANGED <<pc, size, i, c, buf, s, taken, lost>>
      /\ input' = SubSeq(input, last + 1, Len(input))
      /\ tidy' = (tidy /\ last >= first)
  BY DEF ReadNumber, Idle
<1>2. Len(input) \in Nat /\ \A k \in 1 .. Len(input) : input[k] \in Characters
  BY DEF LibInv, Typed
<1>3. Cardinality(blank) \in Nat
  <2>1. blank \in SUBSET (1 .. Len(input))
    OBVIOUS
  <2>2. 1 \in Int /\ Len(input) \in Int
    BY <1>2
  <2> HIDE DEF blank
  <2>3. QED
    BY <2>1, <2>2, FiniteInterval, Zenon
<1> HIDE DEF blank
<1>4. first \in Nat /\ first >= 1
  BY <1>3
<1> HIDE DEF first
<1>5. Cardinality(DigitsFrom(first)) \in Nat
  <2>1. DigitsFrom(first) \in SUBSET (first .. Len(input))
    BY DEF DigitsFrom
  <2>2. Len(input) \in Int /\ first \in Int
    BY <1>2, <1>4
  <2>3. QED
    BY <2>1, <2>2, FiniteInterval
<1>6. last \in Nat
  BY <1>3, <1>5
<1> HIDE DEF last
<1>7. input' \in Seq(Characters)
  <2>1. \A k \in last + 1 .. Len(input) : input[k] \in Characters
    BY <1>2, <1>6
  <2>2. QED
    BY <1>1, <1>2, <1>6, <2>1, SubSeqProperties
<1>8. Typed'
  BY <1>1, <1>7 DEF LibInv, Typed
<1>9. Reading' /\ LinesArrive'
  BY <1>1 DEF LibInv, Reading, LinesArrive
<1>10. QED
  BY <1>8, <1>9 DEF LibInv

LEMMA ReadCharKeeps ==
  ASSUME LibInv, ReadChar
  PROVE  LibInv'
<1>1. /\ pc = "idle" /\ UNCHANGED <<pc, size, i, c, buf, s, taken, lost>>
      /\ input' = IF input = << >> THEN input ELSE Tail(input)
      /\ tidy' = FALSE
  BY DEF ReadChar, Idle
<1>2. input' \in Seq(Characters)
  BY <1>1 DEF LibInv, Typed
<1>3. Typed'
  BY <1>1, <1>2 DEF LibInv, Typed
<1>4. Reading' /\ LinesArrive'
  BY <1>1 DEF LibInv, Reading, LinesArrive
<1>5. QED
  BY <1>3, <1>4 DEF LibInv


LEMMA ReadStringKeeps ==
  ASSUME LibInv, NEW n \in Sizes, ReadString(n)
  PROVE  LibInv'
<1>1. pc = "idle" /\ UNCHANGED <<input, i, c, s, lost>>
  BY DEF ReadString, Idle
<1>2. n \in Int
  BY SizesAssumption
<1>3. LinesArrive'
  <2>1. tidy' => tidy
    BY DEF ReadString
  <2>2. QED
    BY <1>1, <2>1 DEF LibInv, LinesArrive
<1>4. CASE n <= 1
  <2>1. UNCHANGED <<pc, size, buf, taken, tidy>>
    BY <1>4 DEF ReadString
  <2>2. Typed' /\ Reading'
    BY <1>1, <2>1 DEF LibInv, Typed, Reading
  <2>3. QED
    BY <1>3, <2>2 DEF LibInv
<1>5. CASE ~(n <= 1)
  <2>1. /\ pc' = "first" /\ buf' = Zeroes(n) /\ size' = n - 1 /\ taken' = << >>
        /\ tidy' = (tidy /\ passed[1] = "readInteger" /\ input # << >> /\ Head(input) = Newline)
    BY <1>5 DEF ReadString
  <2>2. n \in Nat /\ n >= 2
    BY <1>2, <1>5
  <2>3. buf' \in Seq(Characters) /\ Len(buf') = n /\ buf'[n] = Nul
    <3>1. Zeroes(n) \in [1 .. n -> Characters]
      BY CharactersHold DEF Zeroes
    <3>2. Zeroes(n) \in Seq(Characters) /\ Len(Zeroes(n)) = n
      BY <2>2, <3>1
    <3>3. Zeroes(n)[n] = Nul
      BY <2>2 DEF Zeroes
    <3>4. QED
      BY <2>1, <3>2, <3>3
  <2>4. Typed'
    BY <1>1, <2>1, <2>2, <2>3 DEF LibInv, Typed
  <2>5. Terminated'
    BY <2>1, <2>2, <2>3 DEF Terminated
  <2>6. Reading'
    BY <1>1, <2>1, <2>5 DEF Reading
  <2>7. QED
    BY <1>3, <2>4, <2>6 DEF LibInv
<1>6. QED
  BY <1>4, <1>5

Stored(b, k, e) == [b EXCEPT ![k] = e]

LEMMA StoredIs ==
  ASSUME NEW b \in Seq(Characters), NEW k \in 1 .. Len(b), NEW e \in Characters
  PROVE  /\ Stored(b, k, e) \in Seq(Characters) /\ Len(Stored(b, k, e)) = Len(b)
         /\ Stored(b, k, e)[k] = e
         /\ \A j \in 1 .. Len(b) : j # k => Stored(b, k, e)[j] = b[j]
BY ExceptSeq DEF Stored

LEMMA ReadFirstKeeps ==
  ASSUME LibInv, ReadFirst
  PROVE  LibInv'
<1>1. /\ pc = "first" /\ pc' = "loop" /\ i' = 0 /\ Getchar
      /\ UNCHANGED <<size, s, calls, tidy, passed>>
      /\ buf' = Stored(buf, 1, c')
      /\ lost' = IF input = << >> THEN lost ELSE lost \cup {Head(input)}
  BY DEF ReadFirst, Stored
<1>2. /\ Typed /\ Terminated /\ taken = << >> /\ LinesArrive
      /\ tidy => input # << >> /\ Head(input) = Newline
  BY <1>1 DEF LibInv, Reading
<1>3. c' \in Characters /\ input' \in Seq(Characters) /\ taken' \in Seq(Characters)
  BY <1>1, <1>2, GetcharTakes DEF Typed
<1>4. Len(buf) = size + 1 /\ size >= 1 /\ size \in Int /\ buf \in Seq(Characters)
  BY <1>2 DEF Typed, Terminated
<1>5. /\ buf' \in Seq(Characters) /\ Len(buf') = Len(buf)
      /\ \A j \in 1 .. Len(buf) : j # 1 => buf'[j] = buf[j]
  <2>1. 1 \in 1 .. Len(buf)
    BY <1>4
  <2>2. QED
    BY <1>1, <1>3, <1>4, <2>1, StoredIs
<1>6. Typed'
  BY <1>1, <1>2, <1>3, <1>5 DEF Typed
<1>7. Terminated'
  BY <1>1, <1>2, <1>4, <1>5 DEF Terminated
<1>8. tidy => Kept' /\ Len(taken') = 1
  <2>1. ASSUME tidy PROVE Len(taken') = 1
    <3>1. taken' = Append(taken, Head(input)) /\ taken \in Seq(Characters) /\ Len(taken) = 0
      BY <1>1, <1>2, <2>1 DEF Getchar, Typed
    <3>2. QED
      BY <3>1
  <2>2. ASSUME tidy PROVE Kept'
    <3>1. Len(taken') = 1
      BY <2>1, <2>2, Zenon
    <3>2. Len(taken') >= 1 /\ \A k \in 1 .. Len(taken') - 1 : buf'[k] = taken'[k + 1]
      BY <3>1
    <3>3. QED
      BY <3>2 DEF Kept
  <2>3. QED
    BY <2>1, <2>2
<1>9. Reading'
  BY <1>1, <1>4, <1>7, <1>8 DEF Reading
<1>10. LinesArrive'
  BY <1>1, <1>2 DEF LinesArrive
<1>11. QED
  BY <1>6, <1>9, <1>10 DEF LibInv

LEMMA ReadNextKeeps ==
  ASSUME LibInv, ReadNext
  PROVE  LibInv'
<1>1. pc = "loop" /\ UNCHANGED <<size, s, calls, lost, tidy, passed>>
  BY DEF ReadNext
<1>2. /\ Typed /\ Terminated /\ LinesArrive /\ i \in 0 .. size
      /\ tidy => Kept /\ Len(taken) = i + 1
  BY <1>1 DEF LibInv, Reading
<1>3. LinesArrive'
  BY <1>1, <1>2 DEF LinesArrive
<1>4. CASE i >= size
  <2>1. pc' = "copy" /\ UNCHANGED <<input, c, taken, buf, i>>
    BY <1>4 DEF ReadNext
  <2>2. Typed' /\ Terminated' /\ (tidy => Kept')
    BY <1>1, <1>2, <2>1 DEF Typed, Terminated, Kept
  <2>3. tidy => Len(taken) <= size + 1
    BY <1>2 DEF Typed
  <2>4. Reading'
    BY <1>1, <2>1, <2>2, <2>3 DEF Reading
  <2>5. QED
    BY <1>3, <2>2, <2>4 DEF LibInv
<1>5. CASE ~(i >= size)
  <2>1. /\ Getchar /\ buf' = Stored(buf, i + 1, c')
        /\ \/ pc' = "copy" /\ UNCHANGED i
           \/ c' # Byte255 /\ i' = i + 1 /\ pc' = "loop"
    BY <1>1, <1>5 DEF ReadNext, Stored
  <2>2. /\ c' \in Characters /\ input' \in Seq(Characters) /\ taken' \in Seq(Characters)
        /\ \A k \in 1 .. Len(taken) : taken'[k] = taken[k]
        /\ \/ Len(taken') = Len(taken) /\ c' = Byte255
           \/ Len(taken') = Len(taken) + 1 /\ taken'[Len(taken) + 1] = c'
    BY <1>2, <2>1, GetcharTakes DEF Typed
  <2>3. /\ Len(buf) = size + 1 /\ size \in Int /\ buf \in Seq(Characters) /\ i \in 0 .. size - 1
        /\ buf[size + 1] = Nul
    BY <1>2, <1>5 DEF Typed, Terminated
  <2>4. /\ buf' \in Seq(Characters) /\ Len(buf') = Len(buf) /\ buf'[i + 1] = c'
        /\ \A j \in 1 .. Len(buf) : j # i + 1 => buf'[j] = buf[j]
    <3>1. i + 1 \in 1 .. Len(buf)
      BY <2>3
    <3>2. QED
      BY <2>1, <2>2, <2>3, <3>1, StoredIs
  <2>5. Typed'
    BY <1>1, <1>2, <2>1, <2>2, <2>3, <2>4 DEF Typed
  <2>6. Terminated'
    BY <1>1, <1>2, <2>3, <2>4 DEF Terminated
  <2>7. ASSUME tidy
        PROVE  Kept' /\ Len(taken') <= size + 1 /\ (pc' = "loop" => Len(taken') = i' + 1)
    <3>1. Len(taken) = i + 1 /\ \A k \in 1 .. i : buf[k] = taken[k + 1]
      BY <1>2, <2>3, <2>7 DEF Kept
    <3>2. Len(taken') \in {i + 1, i + 2} /\ (pc' = "loop" => Len(taken') = i' + 1)
      BY <2>1, <2>2, <2>3, <3>1
    <3>3. ASSUME NEW k \in 1 .. Len(taken') - 1
          PROVE  buf'[k] = taken'[k + 1]
      <4>1. CASE k = i + 1
        BY <2>2, <2>3, <2>4, <3>1, <3>2, <4>1
      <4>2. CASE k # i + 1
        <5>1. k \in 1 .. i /\ k \in 1 .. Len(buf) /\ k + 1 \in 1 .. Len(taken)
          BY <2>3, <3>1, <3>2, <4>2
        <5>2. QED
          BY <2>2, <2>4, <3>1, <4>2, <5>1
      <4>3. QED
        BY <4>1, <4>2
    <3>4. Kept'
      BY <2>3, <3>2, <3>3 DEF Kept
    <3>5. QED
      BY <2>3, <3>2, <3>4
  <2>8. Reading'
    BY <1>1, <2>1, <2>3, <2>6, <2>7 DEF Reading
  <2>9. QED
    BY <1>3, <2>5, <2>8 DEF LibInv
<1>6. QED
  BY <1>4, <1>5

LEMMA CopyKeeps ==
  ASSUME LibInv, Copy
  PROVE  LibInv'
<1>1. /\ pc = "copy" /\ pc' = "idle" /\ s' = UpToNul(buf)
      /\ lost' = lost \cup ToSet(SubSeq(taken, Len(s') + 2, Len(taken)))
      /\ tidy' = (tidy /\ Nul \notin ToSet(taken))
      /\ UNCHANGED <<input, size, i, c, buf, calls, taken, passed>>
  BY DEF Copy
<1>2. /\ Typed /\ Terminated /\ LinesArrive
      /\ tidy => Kept /\ Len(taken) <= size + 1
  BY <1>1 DEF LibInv, Reading
<1>3. /\ buf \in Seq(Characters) /\ size + 1 \in 1 .. Len(buf) /\ buf[size + 1] = Nul
      /\ Len(buf) = size + 1 /\ taken \in Seq(Characters)
  BY <1>2 DEF Typed, Terminated
<1>4. /\ s' \in Seq(Characters) /\ Len(s') \in 0 .. size
      /\ buf[Len(s') + 1] = Nul
  <2>1. /\ UpToNul(buf) \in Seq(Characters)
        /\ Len(UpToNul(buf)) \in 0 .. (size + 1) - 1
        /\ buf[Len(UpToNul(buf)) + 1] = Nul
    BY <1>3, UpToNulIs, Zenon
  <2>2. (size + 1) - 1 = size
    BY <1>2 DEF Typed
  <2>3. QED
    BY <1>1, <2>1, <2>2
<1>5. Typed' /\ Reading'
  BY <1>1, <1>2, <1>4 DEF Typed, Reading
<1>6. ASSUME tidy' PROVE lost' = lost
  <2>1. tidy /\ \A k \in 1 .. Len(taken) : taken[k] # Nul
    BY <1>1, <1>3, <1>6, ToSetIs
  <2>2. Len(taken) <= Len(s') + 1
    <3>1. SUFFICES ASSUME Len(s') + 1 <= Len(taken) - 1 PROVE FALSE
      BY <1>3, <1>4
    <3>2. Len(s') + 1 \in 1 .. Len(taken) - 1 /\ Len(s') + 2 \in 1 .. Len(taken)
      BY <1>3, <1>4, <3>1
    <3>3. buf[Len(s') + 1] = taken[Len(s') + 2]
      BY <1>2, <1>4, <2>1, <3>2 DEF Kept
    <3>4. QED
      BY <1>4, <2>1, <3>2, <3>3
  <2>3. SubSeq(taken, Len(s') + 2, Len(taken)) = << >>
    BY <1>3, <1>4, <2>2, SubSeqEmpty
  <2>4. ToSet(<< >>) = {}
    BY DEF ToSet
  <2>5. QED
    BY <1>1, <2>3, <2>4
<1>7. LinesArrive'
  BY <1>1, <1>2, <1>6 DEF LinesArrive
<1>8. QED
  BY <1>5, <1>7 DEF LibInv

-----------------------------------------------------------------------------
(* The theorems                                                            *)

LEMMA LibInvHolds == Spec => []LibInv
<1>1. LibInv /\ [Next]_vars => LibInv'
  <2> SUFFICES ASSUME LibInv, [Next]_vars PROVE LibInv'
    OBVIOUS
  <2>1. ASSUME NEW f \in Routines, CallOther(f) PROVE LibInv'
    BY <2>1, CallOtherKeeps
  <2>2. CASE ReadNumber
    BY <2>2, ReadNumberKeeps
  <2>3. CASE ReadChar
    BY <2>3, ReadCharKeeps
  <2>4. ASSUME NEW n \in Sizes, ReadString(n) PROVE LibInv'
    BY <2>4, ReadStringKeeps
  <2>5. CASE ReadFirst
    BY <2>5, ReadFirstKeeps
  <2>6. CASE ReadNext
    BY <2>6, ReadNextKeeps
  <2>7. CASE Copy
    BY <2>7, CopyKeeps
  <2>8. CASE UNCHANGED vars
    BY <2>8, Zenon DEF vars, LibInv, Typed, Reading, Kept, Terminated, LinesArrive
  <2>9. QED
    BY <2>1, <2>2, <2>3, <2>4, <2>5, <2>6, <2>7, <2>8 DEF Next
<1>2. QED
  BY InitHolds, <1>1, PTL DEF Spec

(* The local variables and the parameter of readString hold characters,    *)
(* and i stays between 0 and size, however long the input.                 *)
THEOREM LibraryTypeCorrect == Spec => []TypeOK
<1>1. LibInv => TypeOK
  <2>1. ASSUME LibInv
        PROVE  /\ ToSet(buf) \subseteq Characters /\ ToSet(s) \subseteq Characters
               /\ ToSet(input) \subseteq Characters
    BY <2>1, ToSetWithin DEF LibInv, Typed
  <2>2. QED
    BY <2>1 DEF LibInv, Typed, Reading, TypeOK
<1>2. QED
  BY LibInvHolds, <1>1, PTL

(* The loop of readString leaves a terminator among the bytes it was       *)
(* given, for every size and every line: strcpy then stays among them.     *)
THEOREM ReadsStayInBuffer == Spec => []StaysInBuffer
<1>1. LibInv => StaysInBuffer
  <2> SUFFICES ASSUME LibInv, pc = "copy"
               PROVE  Nul \in ToSet(buf) /\ Len(UpToNul(buf)) <= size
    BY DEF StaysInBuffer
  <2>1. buf \in Seq(Characters) /\ size + 1 \in 1 .. Len(buf) /\ buf[size + 1] = Nul /\ size \in Int
    BY DEF LibInv, Typed, Reading, Terminated
  <2>2. Nul \in ToSet(buf)
    BY <2>1, ToSetIs
  <2>3. Len(UpToNul(buf)) \in 0 .. size
    BY <2>1, UpToNulIs
  <2>4. QED
    BY <2>1, <2>2, <2>3
<1>2. QED
  BY LibInvHolds, <1>1, PTL

(* A program that reads a number before every string loses nothing that is *)
(* typed but the newline behind the number: what does not fit is left in   *)
(* the input, and the end of the input loses nothing.                      *)
THEOREM NothingIsLost == Spec => []LinesArrive
<1>1. LibInv => LinesArrive
  BY DEF LibInv
<1>2. QED
  BY LibInvHolds, <1>1, PTL

-----------------------------------------------------------------------------
(* The three descriptions of the routines                                  *)

(* What CallsTyped says of a call of f that passes types. *)
Agrees(f, types) ==
  LET e == LlvmEntry(f)
      h == SemanticHeader(f)
      proto == CPrototype(e.symbol)
  IN  /\ types = e.types
      /\ Len(e.types) = Len(h.parameters) /\ Len(e.types) = Len(proto[2])
      /\ \A k \in DOMAIN e.types :
           /\ SameRegister(e.types[k], proto[2][k])
           /\ e.types[k] = IF h.parameters[k].byValue THEN TypeConvert(h.parameters[k].type)
                           ELSE typePointer(TypeConvert(h.parameters[k].type))
      /\ e.result = h.result
      /\ h.result = typeVoid \/ SameRegister(e.result, proto[1])

Basic == { typeInteger, typeReal, typeBoolean, typeChar }

(* What comes back of type r where C returns a type cr. *)
Returns(r, cr) == r = typeVoid \/ SameRegister(r, cr)

LEMMA NoArgument ==
  ASSUME NEW f, NEW r, NEW symbol, NEW modes, NEW sems, NEW cr,
         SemanticHeader(f) = Routine(<< >>, r),
         LlvmEntry(f) = Entry(symbol, r, << >>, modes, sems),
         CPrototype(symbol) = <<cr, << >>>>, Returns(r, cr)
  PROVE  Agrees(f, Passed(f))
<1>1. /\ SemanticHeader(f).parameters = << >> /\ SemanticHeader(f).result = r
      /\ LlvmEntry(f).types = << >> /\ LlvmEntry(f).symbol = symbol /\ LlvmEntry(f).result = r
      /\ CPrototype(symbol)[1] = cr /\ CPrototype(symbol)[2] = << >>
  BY DEF Routine, Entry
<1>2. Passed(f) = << >>
  BY <1>1 DEF Passed
<1>3. DOMAIN << >> = {}
  OBVIOUS
<1>4. QED
  BY <1>1, <1>2, <1>3 DEF Agrees, Returns

LEMMA OneValue ==
  ASSUME NEW f, NEW r, NEW symbol, NEW t \in Basic, NEW cr, NEW ct,
         SemanticHeader(f) = Routine(<<ByValue(t)>>, r),
         LlvmEntry(f) = Entry(symbol, r, <<t>>, <<V>>, <<t>>),
         CPrototype(symbol) = <<cr, <<ct>>>>, Returns(r, cr), SameRegister(t, ct)
  PROVE  Agrees(f, Passed(f))
<1>1. /\ SemanticHeader(f).parameters = <<ByValue(t)>> /\ SemanticHeader(f).result = r
      /\ LlvmEntry(f).types = <<t>> /\ LlvmEntry(f).symbol = symbol /\ LlvmEntry(f).result = r
      /\ LlvmEntry(f).arguments = <<V>> /\ LlvmEntry(f).sems = <<t>>
      /\ CPrototype(symbol)[1] = cr /\ CPrototype(symbol)[2] = <<ct>>
  BY DEF Routine, Entry
<1>2. TypeConvert(t) = t
  BY BasicTypes DEF Basic
<1>3. V # R /\ <<ByValue(t)>> # << >> /\ ByValue(t).byValue = TRUE /\ ByValue(t).type = t
  BY DEF V, R, ByValue
<1>4. Passed(f) = <<t>>
  <2>1. Passed(f) = [k \in DOMAIN <<V>> |-> IF <<V>>[k] = R THEN typePointer(TypeConvert(<<t>>[k]))
                                            ELSE TypeConvert(<<t>>[k])]
    BY <1>1, <1>3 DEF Passed
  <2>2. DOMAIN <<V>> = {1} /\ DOMAIN <<t>> = {1}
    OBVIOUS
  <2>3. \A k \in {1} : (IF <<V>>[k] = R THEN typePointer(TypeConvert(<<t>>[k])) ELSE TypeConvert(<<t>>[k])) = <<t>>[k]
    BY <1>2, <1>3
  <2>4. QED
    BY <2>1, <2>2, <2>3
<1>5. DOMAIN <<t>> = {1} /\ Len(<<t>>) = 1 /\ Len(<<ct>>) = 1 /\ Len(<<ByValue(t)>>) = 1
  OBVIOUS
<1>6. \A k \in {1} : <<t>>[k] = t /\ <<ct>>[k] = ct /\ <<ByValue(t)>>[k] = ByValue(t)
  OBVIOUS
<1>7. QED
  BY <1>1, <1>2, <1>3, <1>4, <1>5, <1>6 DEF Agrees, Returns

(* A string is passed as its address. *)
LEMMA StringConverts ==
  /\ typePointer(TypeConvert(typeIArray(typeChar))) = typePointer(typeChar)
  /\ SameRegister(typePointer(typeChar), "char*")
<1>1. /\ Constructor("iarray", 0) \in Constructors /\ Constructor("iarray", 0).kind = "iarray"
      /\ typeChar \in Seq(Constructors) /\ TypeConvert(typeChar) = typeChar
  BY BasicTypes DEF Constructor, Constructors, IsType
<1> DEFINE u == typeIArray(typeChar)
<1>2. u \in Seq(Constructors) /\ u # << >> /\ u[1].kind = "iarray" /\ Tail(u) = typeChar
  BY <1>1, Prefixed DEF typeIArray
<1> HIDE DEF u
<1>3. TypeConvert(u) = typeChar
  BY <1>1, <1>2, ConvertUnfolds
<1>4. Kind(typePointer(typeChar)) = "pointer"
  BY <1>1, PointerPrefix
<1>5. QED
  BY <1>3, <1>4 DEF SameRegister, u

LEMMA Registers ==
  /\ SameRegister(typeInteger, "int") /\ SameRegister(typeBoolean, "int")
  /\ SameRegister(typeChar, "int") /\ SameRegister(typeChar, "char")
  /\ SameRegister(typeReal, "double")
BY DEF SameRegister, Kind, typeInteger, typeBoolean, typeChar, typeReal, Constructor

LEMMA WritesString == Agrees("writeString", Passed("writeString"))
<1> DEFINE f == "writeString"
           str == typePointer(typeChar)
           chars == typeIArray(typeChar)
<1>1. SemanticHeader(f) = Routine(<<ByReference(chars)>>, typeVoid)
  BY DEF SemanticHeader, RealFunctions
<1>2. LlvmEntry(f) = Entry(f, typeVoid, <<str>>, <<R>>, <<chars>>)
  BY DEF LlvmEntry, RealFunctions
<1>3. CPrototype(f) = <<"void", <<"char*">>>>
  BY DEF CPrototype, RealFunctions
<1> HIDE DEF f
<1>4. /\ SemanticHeader(f).parameters = <<ByReference(chars)>> /\ SemanticHeader(f).result = typeVoid
      /\ LlvmEntry(f).types = <<str>> /\ LlvmEntry(f).symbol = f /\ LlvmEntry(f).result = typeVoid
      /\ LlvmEntry(f).arguments = <<R>> /\ LlvmEntry(f).sems = <<chars>>
      /\ CPrototype(f)[2] = <<"char*">>
  BY <1>1, <1>2, <1>3 DEF Routine, Entry
<1>5. typePointer(TypeConvert(chars)) = str /\ SameRegister(str, "char*")
  BY StringConverts
<1>6. /\ <<ByReference(chars)>> # << >> /\ ByReference(chars).byValue = FALSE
      /\ ByReference(chars).type = chars
  BY DEF ByReference
<1> HIDE DEF str, chars
<1>7. Passed(f) = <<str>>
  <2>1. Passed(f) = [k \in DOMAIN <<R>> |-> IF <<R>>[k] = R THEN typePointer(TypeConvert(<<chars>>[k]))
                                            ELSE TypeConvert(<<chars>>[k])]
    BY <1>4, <1>6 DEF Passed
  <2>2. DOMAIN <<R>> = {1} /\ DOMAIN <<str>> = {1}
    OBVIOUS
  <2>3. \A k \in {1} : (IF <<R>>[k] = R THEN typePointer(TypeConvert(<<chars>>[k]))
                        ELSE TypeConvert(<<chars>>[k])) = <<str>>[k]
    BY <1>5
  <2>4. QED
    BY <2>1, <2>2, <2>3
<1>8. DOMAIN <<str>> = {1} /\ Len(<<str>>) = 1 /\ Len(<<"char*">>) = 1 /\ Len(<<ByReference(chars)>>) = 1
  OBVIOUS
<1>9. \A k \in {1} : <<str>>[k] = str /\ <<"char*">>[k] = "char*" /\ <<ByReference(chars)>>[k] = ByReference(chars)
  OBVIOUS
<1>10. Agrees(f, Passed(f))
  BY <1>4, <1>5, <1>6, <1>7, <1>8, <1>9 DEF Agrees
<1>11. QED
  BY <1>10 DEF f

LEMMA ReadsString == Agrees("readString", Passed("readString"))
<1> DEFINE f == "readString"
           int == typeInteger
           str == typePointer(typeChar)
           chars == typeIArray(typeChar)
           params == <<ByValue(int), ByReference(chars)>>
           modes == <<V, R>>
           sems == <<int, chars>>
           types == <<int, str>>
           ctypes == <<"int", "char*">>
<1>1. SemanticHeader(f) = Routine(params, typeVoid)
  BY DEF SemanticHeader, RealFunctions
<1>2. LlvmEntry(f) = Entry(f, typeVoid, types, modes, sems)
  BY DEF LlvmEntry, RealFunctions
<1>3. CPrototype(f) = <<"char*", ctypes>>
  BY DEF CPrototype, RealFunctions
<1> HIDE DEF f
<1>4. typePointer(TypeConvert(chars)) = str /\ SameRegister(str, "char*")
  BY StringConverts
<1>5. TypeConvert(int) = int /\ SameRegister(int, "int")
  BY BasicTypes, Registers
<1> HIDE DEF int, str, chars
<1>6. /\ Len(types) = 2 /\ Len(params) = 2 /\ Len(ctypes) = 2
      /\ DOMAIN types = {1, 2} /\ DOMAIN modes = {1, 2} /\ params # << >>
  OBVIOUS
<1>7. /\ modes[1] = V /\ modes[2] = R /\ V # R /\ sems[1] = int /\ sems[2] = chars
      /\ types[1] = int /\ types[2] = str /\ ctypes[1] = "int" /\ ctypes[2] = "char*"
      /\ params[1].byValue = TRUE /\ params[1].type = int
      /\ params[2].byValue = FALSE /\ params[2].type = chars
  BY DEF V, R, ByValue, ByReference
<1>8. types = [k \in DOMAIN types |-> types[k]]
  OBVIOUS
<1> HIDE DEF types, modes, sems, params, ctypes
<1>9. /\ SemanticHeader(f).parameters = params /\ SemanticHeader(f).result = typeVoid
      /\ LlvmEntry(f).types = types /\ LlvmEntry(f).symbol = f /\ LlvmEntry(f).result = typeVoid
      /\ LlvmEntry(f).arguments = modes /\ LlvmEntry(f).sems = sems /\ CPrototype(f)[2] = ctypes
  BY <1>1, <1>2, <1>3 DEF Routine, Entry
<1>10. Passed(f) = types
  <2>1. Passed(f) = [k \in DOMAIN modes |-> IF modes[k] = R THEN typePointer(TypeConvert(sems[k]))
                                            ELSE TypeConvert(sems[k])]
    BY <1>6, <1>9 DEF Passed
  <2>2. \A k \in {1, 2} : (IF modes[k] = R THEN typePointer(TypeConvert(sems[k]))
                           ELSE TypeConvert(sems[k])) = types[k]
    BY <1>4, <1>5, <1>7
  <2>3. QED
    BY <1>6, <1>8, <2>1, <2>2
<1>11. Agrees(f, Passed(f))
  <2>1. \A k \in DOMAIN types :
          /\ SameRegister(types[k], ctypes[k])
          /\ types[k] = IF params[k].byValue THEN TypeConvert(params[k].type)
                        ELSE typePointer(TypeConvert(params[k].type))
    BY <1>4, <1>5, <1>6, <1>7
  <2>2. QED
    BY <1>6, <1>9, <1>10, <2>1 DEF Agrees
<1>12. QED
  BY <1>11 DEF f

LEMMA RealFunctionAgrees ==
  ASSUME NEW f \in RealFunctions
  PROVE  Agrees(f, Passed(f))
<1>1. SemanticHeader(f) = Routine(<<ByValue(typeReal)>>, typeReal)
  BY DEF SemanticHeader, RealFunctions
<1>2. LlvmEntry(f) = Entry(f, typeReal, <<typeReal>>, <<V>>, <<typeReal>>)
  BY DEF LlvmEntry, RealFunctions
<1>3. CPrototype(f) = <<"double", <<"double">>>>
  BY DEF CPrototype, RealFunctions
<1>4. QED
  BY <1>1, <1>2, <1>3, Registers, OneValue DEF Returns, Basic

LEMMA RoutineAgrees ==
  ASSUME NEW f \in Routines
  PROVE  Agrees(f, Passed(f))
<1>1. CASE f = "writeInteger"
  <2>1. SemanticHeader(f) = Routine(<<ByValue(typeInteger)>>, typeVoid)
    BY <1>1 DEF SemanticHeader, RealFunctions
  <2>2. LlvmEntry(f) = Entry("writeInteger", typeVoid, <<typeInteger>>, <<V>>, <<typeInteger>>)
    BY <1>1 DEF LlvmEntry, RealFunctions
  <2>3. CPrototype("writeInteger") = <<"void", <<"int">>>>
    BY DEF CPrototype, RealFunctions
  <2>4. QED
    BY <2>1, <2>2, <2>3, Registers, OneValue DEF Returns, Basic
<1>2. CASE f = "writeChar"
  <2>1. SemanticHeader(f) = Routine(<<ByValue(typeChar)>>, typeVoid)
    BY <1>2 DEF SemanticHeader, RealFunctions
  <2>2. LlvmEntry(f) = Entry("writeChar", typeVoid, <<typeChar>>, <<V>>, <<typeChar>>)
    BY <1>2 DEF LlvmEntry, RealFunctions
  <2>3. CPrototype("writeChar") = <<"void", <<"int">>>>
    BY DEF CPrototype, RealFunctions
  <2>4. QED
    BY <2>1, <2>2, <2>3, Registers, OneValue DEF Returns, Basic
<1>3. CASE f = "writeReal"
  <2>1. SemanticHeader(f) = Routine(<<ByValue(typeReal)>>, typeVoid)
    BY <1>3 DEF SemanticHeader, RealFunctions
  <2>2. LlvmEntry(f) = Entry("writeReal", typeVoid, <<typeReal>>, <<V>>, <<typeReal>>)
    BY <1>3 DEF LlvmEntry, RealFunctions
  <2>3. CPrototype("writeReal") = <<"void", <<"double">>>>
    BY DEF CPrototype, RealFunctions
  <2>4. QED
    BY <2>1, <2>2, <2>3, Registers, OneValue DEF Returns, Basic
<1>4. CASE f = "writeBoolean"
  <2>1. SemanticHeader(f) = Routine(<<ByValue(typeBoolean)>>, typeVoid)
    BY <1>4 DEF SemanticHeader, RealFunctions
  <2>2. LlvmEntry(f) = Entry("writeBoolean", typeVoid, <<typeBoolean>>, <<V>>, <<typeBoolean>>)
    BY <1>4 DEF LlvmEntry, RealFunctions
  <2>3. CPrototype("writeBoolean") = <<"void", <<"int">>>>
    BY DEF CPrototype, RealFunctions
  <2>4. QED
    BY <2>1, <2>2, <2>3, Registers, OneValue DEF Returns, Basic
<1>5. CASE f = "abs"
  <2>1. SemanticHeader(f) = Routine(<<ByValue(typeInteger)>>, typeInteger)
    BY <1>5 DEF SemanticHeader, RealFunctions
  <2>2. LlvmEntry(f) = Entry("abs", typeInteger, <<typeInteger>>, <<V>>, <<typeInteger>>)
    BY <1>5 DEF LlvmEntry, RealFunctions
  <2>3. CPrototype("abs") = <<"int", <<"int">>>>
    BY DEF CPrototype, RealFunctions
  <2>4. QED
    BY <2>1, <2>2, <2>3, Registers, OneValue DEF Returns, Basic
<1>6. CASE f = "ord"
  <2>1. SemanticHeader(f) = Routine(<<ByValue(typeChar)>>, typeInteger)
    BY <1>6 DEF SemanticHeader, RealFunctions
  <2>2. LlvmEntry(f) = Entry("ord", typeInteger, <<typeChar>>, <<V>>, <<typeChar>>)
    BY <1>6 DEF LlvmEntry, RealFunctions
  <2>3. CPrototype("ord") = <<"int", <<"char">>>>
    BY DEF CPrototype, RealFunctions
  <2>4. QED
    BY <2>1, <2>2, <2>3, Registers, OneValue DEF Returns, Basic
<1>7. CASE f = "chr"
  <2>1. SemanticHeader(f) = Routine(<<ByValue(typeInteger)>>, typeChar)
    BY <1>7 DEF SemanticHeader, RealFunctions
  <2>2. LlvmEntry(f) = Entry("chr", typeChar, <<typeInteger>>, <<V>>, <<typeInteger>>)
    BY <1>7 DEF LlvmEntry, RealFunctions
  <2>3. CPrototype("chr") = <<"char", <<"int">>>>
    BY DEF CPrototype, RealFunctions
  <2>4. QED
    BY <2>1, <2>2, <2>3, Registers, OneValue DEF Returns, Basic
<1>8. CASE f = "trunc"
  <2>1. SemanticHeader(f) = Routine(<<ByValue(typeReal)>>, typeInteger)
    BY <1>8 DEF SemanticHeader, RealFunctions
  <2>2. LlvmEntry(f) = Entry("truncFunc", typeInteger, <<typeReal>>, <<V>>, <<typeReal>>)
    BY <1>8 DEF LlvmEntry, RealFunctions
  <2>3. CPrototype("truncFunc") = <<"int", <<"double">>>>
    BY DEF CPrototype, RealFunctions
  <2>4. QED
    BY <2>1, <2>2, <2>3, Registers, OneValue DEF Returns, Basic
<1>9. CASE f = "round"
  <2>1. SemanticHeader(f) = Routine(<<ByValue(typeReal)>>, typeInteger)
    BY <1>9 DEF SemanticHeader, RealFunctions
  <2>2. LlvmEntry(f) = Entry("roundFunc", typeInteger, <<typeReal>>, <<V>>, <<typeReal>>)
    BY <1>9 DEF LlvmEntry, RealFunctions
  <2>3. CPrototype("roundFunc") = <<"int", <<"double">>>>
    BY DEF CPrototype, RealFunctions
  <2>4. QED
    BY <2>1, <2>2, <2>3, Registers, OneValue DEF Returns, Basic
<1>10. CASE f = "readInteger"
  <2>1. SemanticHeader(f) = Routine(<< >>, typeInteger)
    BY <1>10 DEF SemanticHeader, RealFunctions
  <2>2. LlvmEntry(f) = Entry("readInteger", typeInteger, << >>, << >>, << >>)
    BY <1>10 DEF LlvmEntry, RealFunctions
  <2>3. CPrototype("readInteger") = <<"int", << >>>>
    BY DEF CPrototype, RealFunctions
  <2>4. QED
    BY <2>1, <2>2, <2>3, Registers, NoArgument DEF Returns
<1>11. CASE f = "readChar"
  <2>1. SemanticHeader(f) = Routine(<< >>, typeChar)
    BY <1>11 DEF SemanticHeader, RealFunctions
  <2>2. LlvmEntry(f) = Entry("readChar", typeChar, << >>, << >>, << >>)
    BY <1>11 DEF LlvmEntry, RealFunctions
  <2>3. CPrototype("readChar") = <<"char", << >>>>
    BY DEF CPrototype, RealFunctions
  <2>4. QED
    BY <2>1, <2>2, <2>3, Registers, NoArgument DEF Returns
<1>12. CASE f = "readReal"
  <2>1. SemanticHeader(f) = Routine(<< >>, typeReal)
    BY <1>12 DEF SemanticHeader, RealFunctions
  <2>2. LlvmEntry(f) = Entry("readReal", typeReal, << >>, << >>, << >>)
    BY <1>12 DEF LlvmEntry, RealFunctions
  <2>3. CPrototype("readReal") = <<"double", << >>>>
    BY DEF CPrototype, RealFunctions
  <2>4. QED
    BY <2>1, <2>2, <2>3, Registers, NoArgument DEF Returns
<1>13. CASE f = "readBoolean"
  <2>1. SemanticHeader(f) = Routine(<< >>, typeBoolean)
    BY <1>13 DEF SemanticHeader, RealFunctions
  <2>2. LlvmEntry(f) = Entry("readBoolean", typeBoolean, << >>, << >>, << >>)
    BY <1>13 DEF LlvmEntry, RealFunctions
  <2>3. CPrototype("readBoolean") = <<"int", << >>>>
    BY DEF CPrototype, RealFunctions
  <2>4. QED
    BY <2>1, <2>2, <2>3, Registers, NoArgument DEF Returns
<1>14. CASE f = "pi"
  <2>1. SemanticHeader(f) = Routine(<< >>, typeReal)
    BY <1>14 DEF SemanticHeader, RealFunctions
  <2>2. LlvmEntry(f) = Entry("pi", typeReal, << >>, <<V>>, <<typeReal>>)
    BY <1>14 DEF LlvmEntry, RealFunctions
  <2>3. CPrototype("pi") = <<"double", << >>>>
    BY DEF CPrototype, RealFunctions
  <2>4. QED
    BY <2>1, <2>2, <2>3, Registers, NoArgument DEF Returns
<1>15. QED
  BY <1>1, <1>2, <1>3, <1>4, <1>5, <1>6, <1>7, <1>8, <1>9, <1>10, <1>11, <1>12, <1>13, <1>14, WritesString, ReadsString, RealFunctionAgrees DEF Routines

LEMMA CallsTypedIs ==
  CallsTyped <=> (passed[1] # "none" => Agrees(passed[1], passed[2]))
BY DEF CallsTyped, Agrees

(* Every call made passes what its routine says.                           *)
LastCall ==
  \/ passed[1] = "none"
  \/ \E f \in Routines : passed = <<f, Passed(f)>>

(* What the header of a predefined routine has accepted, what create_call  *)
(* passes for its LLVM entry and what libs.c or the C library takes and    *)
(* returns agree, for each of the routines.                                *)
THEOREM TablesAgree == Spec => []CallsTyped
<1>1. Init => LastCall
  BY DEF Init, LastCall
<1>2. LastCall /\ [Next]_vars => LastCall'
  <2> SUFFICES ASSUME LastCall, [Next]_vars PROVE LastCall'
    OBVIOUS
  <2>1. ASSUME NEW f \in Routines, CallOther(f) PROVE LastCall'
    BY <2>1 DEF CallOther, LastCall
  <2>2. CASE ReadNumber
    <3>1. passed' = <<"readInteger", Passed("readInteger")>> /\ "readInteger" \in Routines
      BY <2>2 DEF ReadNumber, Routines
    <3>2. QED
      BY <3>1 DEF LastCall
  <2>3. CASE ReadChar
    <3>1. passed' = <<"readChar", Passed("readChar")>> /\ "readChar" \in Routines
      BY <2>3 DEF ReadChar, Routines
    <3>2. QED
      BY <3>1 DEF LastCall
  <2>4. ASSUME NEW n \in Sizes, ReadString(n) PROVE LastCall'
    <3>1. passed' = <<"readString", Passed("readString")>> /\ "readString" \in Routines
      BY <2>4 DEF ReadString, Routines
    <3>2. QED
      BY <3>1 DEF LastCall
  <2>5. CASE ReadFirst \/ ReadNext \/ Copy \/ UNCHANGED vars
    <3>1. passed' = passed
      BY <2>5 DEF ReadFirst, ReadNext, Copy, vars
    <3>2. QED
      BY <3>1 DEF LastCall
  <2>6. QED
    BY <2>1, <2>2, <2>3, <2>4, <2>5 DEF Next
<1>3. LastCall => CallsTyped
  <2> SUFFICES ASSUME LastCall, passed[1] # "none" PROVE Agrees(passed[1], passed[2])
    BY CallsTypedIs
  <2>1. PICK f \in Routines : passed = <<f, Passed(f)>>
    BY DEF LastCall
  <2>2. passed[1] = f /\ passed[2] = Passed(f)
    BY <2>1
  <2>3. QED
    BY <2>2, RoutineAgrees
<1>4. QED
  BY <1>1, <1>2, <1>3, PTL DEF Spec
=============================================================================
