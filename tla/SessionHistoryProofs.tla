------------------------ MODULE SessionHistoryProofs ------------------------
(***************************************************************************)
(* What SessionHistory's operators return, for every limit and every       *)
(* history: a selection of positions is a history of as many messages,     *)
(* compaction keeps a history within the limit and its newest end, and     *)
(* truncating what was truncated before loses nothing.                     *)
(***************************************************************************)
EXTENDS SessionHistory, FiniteSetTheorems, SequenceTheorems,
        WellFoundedInduction, TLAPS

(***************************************************************************)
(* Every nonempty set of naturals has a least element.  The library states *)
(* it for operators; over sets it is the form this module can use.         *)
(***************************************************************************)
LEMMA LeastNatural ==
    ASSUME NEW T, T \subseteq Nat, T # {}
    PROVE  \E m \in T : \A n \in T : m <= n
<1>1. IsWellFoundedOn(OpToRel(<, Nat), Nat)
  BY NatLessThanWellFounded
<1>2. PICK m \in T : \A n \in T : <<n, m>> \notin OpToRel(<, Nat)
  BY <1>1, WFMin
<1>3. ASSUME NEW n \in T PROVE m <= n
  <2>1. <<n, m>> \notin OpToRel(<, Nat)
    BY <1>2
  <2>2. n \in Nat /\ m \in Nat
    OBVIOUS
  <2>3. ~(n < m)
    BY <2>1, <2>2 DEF OpToRel
  <2>4. QED
    BY <2>2, <2>3
<1>4. QED
  BY <1>3

\* A set of positions of a sequence of length n is finite.
LEMMA PositionsFinite ==
    ASSUME NEW n \in Nat, NEW I \in SUBSET (1 .. n)
    PROVE  IsFiniteSet(I) /\ Cardinality(I) \in Nat
<1>1. IsFiniteSet(1 .. n)
  BY FS_Interval
<1>2. IsFiniteSet(I)
  BY <1>1, FS_Subset
<1>3. QED
  BY <1>2, FS_CardinalityType

\* How many elements of I are at most m.
CountUpTo(I, m) == Cardinality({j \in I : j <= m})

\* Going one position further counts at most one element more.
LEMMA CountUpToStep ==
    ASSUME NEW n \in Nat, NEW I \in SUBSET (1 .. n), NEW m \in Nat \ {0}
    PROVE  /\ CountUpTo(I, m) \in Nat
           /\ CountUpTo(I, m - 1) \in Nat
           /\ CountUpTo(I, m) = IF m \in I THEN CountUpTo(I, m - 1) + 1
                                ELSE CountUpTo(I, m - 1)
<1> DEFINE below == {j \in I : j <= m - 1}
           upTo == {j \in I : j <= m}
<1>1. IsFiniteSet(I)
  BY PositionsFinite
<1>2. IsFiniteSet(below) /\ IsFiniteSet(upTo)
  BY <1>1, FS_Subset
<1>3. Cardinality(below) \in Nat /\ Cardinality(upTo) \in Nat
  BY <1>2, FS_CardinalityType
<1>4. upTo = IF m \in I THEN below \cup {m} ELSE below
  <2>1. \A j \in I : j <= m <=> j <= m - 1 \/ j = m
    OBVIOUS
  <2>2. QED
    BY <2>1
<1>5. m \notin below
  OBVIOUS
<1>6. m \in I => Cardinality(upTo) = Cardinality(below) + 1
  BY <1>2, <1>4, <1>5, FS_AddElement
<1>7. QED
  BY <1>3, <1>4, <1>6 DEF CountUpTo

(***************************************************************************)
(* Nth(I, k) is an element of I, for every k up to the size of I.  It is   *)
(* the least position with k elements of I at or below it.                 *)
(***************************************************************************)
LEMMA NthIsElement ==
    ASSUME NEW n \in Nat, NEW I \in SUBSET (1 .. n), NEW k \in 1 .. Cardinality(I)
    PROVE  Nth(I, k) \in I /\ CountUpTo(I, Nth(I, k)) = k
<1> DEFINE enough == {m \in Nat : CountUpTo(I, m) >= k}
<1>1. IsFiniteSet(I) /\ Cardinality(I) \in Nat
  BY PositionsFinite
<1>2. CountUpTo(I, n) = Cardinality(I)
  <2>1. \A j \in I : j <= n
    OBVIOUS
  <2>2. {j \in I : j <= n} = I
    BY <2>1
  <2>3. QED
    BY <2>2 DEF CountUpTo
<1>3. n \in enough
  BY <1>1, <1>2
<1>4. PICK m \in enough : \A i \in enough : m <= i
  BY <1>3, LeastNatural
<1>5. m # 0
  <2>1. \A j \in I : ~(j <= 0)
    OBVIOUS
  <2>2. {j \in I : j <= 0} = {}
    BY <2>1
  <2>3. CountUpTo(I, 0) = 0
    BY <2>2, FS_EmptySet DEF CountUpTo
  <2>4. CountUpTo(I, m) >= k
    BY <1>4
  <2>5. QED
    BY <2>3, <2>4
<1>6. m \in Nat \ {0}
  BY <1>5
<1>7. CountUpTo(I, m - 1) < k
  BY <1>4, <1>6, <1>1, CountUpToStep
<1>8. m \in I /\ CountUpTo(I, m) = k
  <2>1. CountUpTo(I, m) >= k
    BY <1>4
  <2>2. /\ CountUpTo(I, m - 1) \in Nat
        /\ CountUpTo(I, m) = IF m \in I THEN CountUpTo(I, m - 1) + 1
                             ELSE CountUpTo(I, m - 1)
    BY <1>6, CountUpToStep
  <2>3. QED
    BY <1>1, <1>7, <2>1, <2>2
<1>9. \E i \in I : Cardinality({j \in I : j <= i}) = k
  BY <1>8 DEF CountUpTo
<1>10. /\ Nth(I, k) \in I
       /\ Cardinality({j \in I : j <= Nth(I, k)}) = k
  BY <1>9 DEF Nth
<1>11. QED
  BY <1>10 DEF CountUpTo

(***************************************************************************)
(* A selection of positions of a history is a sequence of that many of its *)
(* messages.                                                               *)
(***************************************************************************)
LEMMA KeepPositionsType ==
    ASSUME NEW S, NEW h \in Seq(S), NEW I \in SUBSET DOMAIN h
    PROVE  /\ KeepPositions(h, I) \in Seq(S)
           /\ Len(KeepPositions(h, I)) = Cardinality(I)
           /\ Cardinality(I) \in Nat
           /\ \A k \in 1 .. Cardinality(I) : KeepPositions(h, I)[k] \in {h[i] : i \in I}
<1>1. DOMAIN h = 1 .. Len(h) /\ Len(h) \in Nat
  BY LenProperties
<1>2. Cardinality(I) \in Nat
  BY <1>1, PositionsFinite
<1>3. \A k \in 1 .. Cardinality(I) : Nth(I, k) \in I
  BY <1>1, NthIsElement
<1>4. \A k \in 1 .. Cardinality(I) : h[Nth(I, k)] \in S
  BY <1>1, <1>3, ElementOfSeq
<1>5. KeepPositions(h, I) \in [1 .. Cardinality(I) -> S]
  BY <1>4 DEF KeepPositions
<1>6. QED
  BY <1>2, <1>3, <1>5 DEF KeepPositions

-----------------------------------------------------------------------------

\* Of a set of positions, those with at most `slots` of the set at or above
\* them are at most `slots` many.
LEMMA NewestFitSlots ==
    ASSUME NEW n \in Nat, NEW I \in SUBSET (1 .. n), NEW slots \in Nat
    PROVE  Cardinality({i \in I : Cardinality({j \in I : j >= i}) <= slots}) <= slots
<1> DEFINE newest == {i \in I : Cardinality({j \in I : j >= i}) <= slots}
<1>0. newest \subseteq I /\ \A i \in newest : Cardinality({j \in I : j >= i}) <= slots
  OBVIOUS
<1> SUFFICES Cardinality(newest) <= slots
  OBVIOUS
<1> HIDE DEF newest
<1>1. CASE newest = {}
  <2>1. Cardinality(newest) = 0
    BY <1>1, FS_EmptySet
  <2>2. QED
    BY <2>1
<1>2. CASE newest # {}
  <2>1. newest \subseteq Nat
    BY <1>0
  <2>2. PICK first \in newest : \A i \in newest : first <= i
    BY <1>2, <2>1, LeastNatural
  <2> DEFINE above == {j \in I : j >= first}
  <2>3. Cardinality(above) <= slots
    BY <1>0, <2>2
  <2>4. newest \subseteq above
    BY <1>0, <2>1, <2>2
  <2>5. IsFiniteSet(above) /\ Cardinality(above) \in Nat
    <3>1. above \in SUBSET (1 .. n)
      OBVIOUS
    <3>2. QED
      BY <3>1, PositionsFinite
  <2>6. Cardinality(newest) <= Cardinality(above) /\ Cardinality(newest) \in Nat
    BY <2>4, <2>5, FS_Subset, FS_CardinalityType
  <2>7. QED
    BY <2>3, <2>5, <2>6
<1>3. QED
  BY <1>1, <1>2

\* A history fits the limit, or is nothing but system messages.
FitsLimit(h) == Len(h) <= MaxMessages \/ Len(h) <= Cardinality(SystemPositions(h))

(***************************************************************************)
(* Hard truncation returns a history that fits.  The second disjunct is    *)
(* the case the comment at session.rs:38 overlooks.                        *)
(***************************************************************************)
THEOREM HardTruncateFits ==
    ASSUME NEW h \in History
    PROVE  HardTruncate(h) \in History /\ FitsLimit(HardTruncate(h))
<1> USE HistoryAssumption
<1>1. CASE Len(h) <= MaxMessages
  BY <1>1 DEF HardTruncate, FitsLimit
<1>2. CASE ~(Len(h) <= MaxMessages)
  <2> DEFINE system == SystemPositions(h)
             rest == DOMAIN h \ system
             slots == SaturatingSub(MaxMessages, Cardinality(system))
             newest == {i \in rest : Cardinality({j \in rest : j >= i}) <= slots}
             front == KeepPositions(h, system)
             back == KeepPositions(h, newest)
             result == front \o back
  <2>1. HardTruncate(h) = result
    BY <1>2 DEF HardTruncate
  <2>2. h \in Seq(Message) /\ DOMAIN h = 1 .. Len(h) /\ Len(h) \in Nat
    BY LenProperties DEF History
  <2>3. /\ system \in SUBSET DOMAIN h
        /\ rest \in SUBSET (1 .. Len(h))
        /\ newest \in SUBSET DOMAIN h
    BY <2>2 DEF SystemPositions
  <2> HIDE DEF system, newest, slots
  <2>4. /\ front \in Seq(Message)
        /\ Len(front) = Cardinality(system)
        /\ Cardinality(system) \in Nat
        /\ \A k \in 1 .. Cardinality(system) : front[k] \in {h[i] : i \in system}
    BY <2>2, <2>3, KeepPositionsType
  <2>5. /\ back \in Seq(Message)
        /\ Len(back) = Cardinality(newest)
        /\ Cardinality(newest) \in Nat
    BY <2>2, <2>3, KeepPositionsType
  <2>6. /\ slots \in Nat
        /\ Cardinality(system) <= MaxMessages => Cardinality(system) + slots = MaxMessages
        /\ Cardinality(system) > MaxMessages => slots = 0
    BY <2>4 DEF SaturatingSub, slots
  <2>7. Cardinality(newest) <= slots
    BY <2>2, <2>3, <2>6, NewestFitSlots DEF newest
  <2>8. /\ result \in Seq(Message)
        /\ Len(result) = Cardinality(system) + Cardinality(newest)
        /\ \A k \in 1 .. Len(front) : result[k] = front[k]
    <3> HIDE DEF front, back
    <3>1. /\ front \o back \in Seq(Message)
          /\ Len(front \o back) = Len(front) + Len(back)
          /\ \A k \in 1 .. Len(front) + Len(back) :
                (front \o back)[k] = IF k <= Len(front) THEN front[k]
                                     ELSE back[k - Len(front)]
      BY <2>4, <2>5, ConcatProperties
    <3>2. QED
      BY <2>4, <2>5, <3>1
  <2>9. CASE Cardinality(system) <= MaxMessages
    <3>1. Len(result) <= MaxMessages
      BY <2>4, <2>5, <2>6, <2>7, <2>8, <2>9
    <3>2. QED
      BY <2>1, <2>8, <3>1 DEF FitsLimit, History
  <2>10. CASE Cardinality(system) > MaxMessages
    <3>1. Len(result) = Len(front)
      BY <2>4, <2>5, <2>6, <2>7, <2>8, <2>10
    <3>2. DOMAIN result = 1 .. Len(result)
      BY <2>8, LenProperties
    <3>3. ASSUME NEW k \in DOMAIN result PROVE IsSystem(result[k])
      <4>1. result[k] \in {h[i] : i \in system}
        BY <2>4, <2>8, <3>1, <3>2
      <4>2. PICK i \in system : result[k] = h[i]
        BY <4>1
      <4>3. QED
        BY <4>2 DEF system, SystemPositions
    <3>4. SystemPositions(result) = 1 .. Len(result)
      BY <3>2, <3>3 DEF SystemPositions
    <3>5. Cardinality(SystemPositions(result)) = Len(result)
      BY <2>4, <3>1, <3>4, FS_Interval
    <3>6. QED
      BY <2>1, <2>4, <2>8, <3>1, <3>5 DEF FitsLimit, History
  <2>11. QED
    BY <2>4, <2>9, <2>10
<1>3. QED
  BY <1>1, <1>2

LEMMA SummarizeOverflowFits ==
    ASSUME NEW h \in History, Len(h) > MaxMessages
    PROVE  SummarizeOverflow(h) \in History /\ FitsLimit(SummarizeOverflow(h))
<1> USE HistoryAssumption
<1> DEFINE recent == SubSeq(h, Len(h) - KeepRecent + 1, Len(h))
<1>1. h \in Seq(Message) /\ Len(h) \in Nat
  BY LenProperties DEF History
<1>2. \A i \in Len(h) - KeepRecent + 1 .. Len(h) : h[i] \in Message
  BY <1>1, ElementOfSeq
<1>3. recent \in Seq(Message) /\ Len(recent) = KeepRecent
  BY <1>1, <1>2, SubSeqProperties
<1>4. <<Summary>> \in Seq(Message) /\ Len(<<Summary>>) = 1
  BY DEF Summary, Message, Role
<1>5. /\ <<Summary>> \o recent \in Seq(Message)
      /\ Len(<<Summary>> \o recent) = 1 + KeepRecent
  BY <1>3, <1>4, ConcatProperties
<1>6. QED
  BY <1>5 DEF SummarizeOverflow, FitsLimit, History

(***************************************************************************)
(* However a history is compacted, for a chat or for an import, the result *)
(* is a history that fits.                                                 *)
(***************************************************************************)
THEOREM CompactionFits ==
    ASSUME NEW h \in History
    PROVE  /\ \A c \in Compactions(h) : c \in History /\ FitsLimit(c)
           /\ ImportCompaction(h) \in History /\ FitsLimit(ImportCompaction(h))
<1>1. MaxMessages \in Nat /\ Len(h) \in Nat
  BY HistoryAssumption, LenProperties DEF History
<1>2. CASE Len(h) <= MaxMessages
  BY <1>2 DEF Compactions, ImportCompaction, FitsLimit
<1>3. CASE Len(h) > MaxMessages
  BY <1>1, <1>3, HardTruncateFits, SummarizeOverflowFits
  DEF Compactions, ImportCompaction
<1>4. QED
  BY <1>1, <1>2, <1>3

-----------------------------------------------------------------------------
(* What compaction keeps of the conversation *)

\* Further positions count more elements, each element at least one more.
LEMMA CountUpToGrows ==
    ASSUME NEW n \in Nat, NEW I \in SUBSET (1 .. n), NEW a \in Nat, NEW b \in I, a < b
    PROVE  CountUpTo(I, a) < CountUpTo(I, b)
<1> DEFINE low == {j \in I : j <= a}
           high == {j \in I : j <= b}
<1>1. IsFiniteSet(high) /\ Cardinality(high) \in Nat
  <2>1. high \in SUBSET (1 .. n)
    OBVIOUS
  <2>2. QED
    BY <2>1, PositionsFinite
<1>2. low \in SUBSET high /\ b \in high /\ b \notin low
  <2>1. b \in Nat /\ \A j \in I : j \in Nat
    OBVIOUS
  <2>2. b <= b /\ ~(b <= a) /\ \A j \in I : j <= a => j <= b
    BY <2>1
  <2>3. QED
    BY <2>2
<1> HIDE DEF low, high
<1>3. /\ Cardinality(low) <= Cardinality(high)
      /\ Cardinality(low) # Cardinality(high)
      /\ Cardinality(low) \in Nat
  BY <1>1, <1>2, FS_Subset, FS_CardinalityType
<1>4. QED
  BY <1>1, <1>3 DEF CountUpTo, low, high

\* Nth counts in order.
LEMMA NthOrdered ==
    ASSUME NEW n \in Nat, NEW I \in SUBSET (1 .. n),
           NEW k \in 1 .. Cardinality(I), NEW l \in 1 .. Cardinality(I), k < l
    PROVE  Nth(I, k) < Nth(I, l)
<1>1. /\ Nth(I, k) \in I /\ CountUpTo(I, Nth(I, k)) = k
      /\ Nth(I, l) \in I /\ CountUpTo(I, Nth(I, l)) = l
  BY NthIsElement
<1>2. SUFFICES ASSUME ~(Nth(I, k) < Nth(I, l)) PROVE FALSE
  OBVIOUS
<1>3. Nth(I, k) \in Nat /\ Nth(I, l) \in Nat
  <2>1. \A j \in I : j \in Nat
    OBVIOUS
  <2>2. QED
    BY <1>1, <2>1
<1>4. Nth(I, l) < Nth(I, k)
  BY <1>1, <1>2, <1>3
<1>5. l < k
  BY <1>1, <1>3, <1>4, CountUpToGrows
<1>6. QED
  BY <1>3, <1>5

\* Every element is the one its own count names.
LEMMA ElementIsNth ==
    ASSUME NEW n \in Nat, NEW I \in SUBSET (1 .. n), NEW i \in I
    PROVE  CountUpTo(I, i) \in 1 .. Cardinality(I) /\ Nth(I, CountUpTo(I, i)) = i
<1> DEFINE k == CountUpTo(I, i)
<1>1. IsFiniteSet(I) /\ Cardinality(I) \in Nat
  BY PositionsFinite
<1>2. k \in Nat /\ k <= Cardinality(I)
  <2>1. {j \in I : j <= i} \in SUBSET I
    OBVIOUS
  <2>2. QED
    BY <1>1, <2>1, FS_Subset, FS_CardinalityType DEF CountUpTo
<1>3. CountUpTo(I, 0) < k /\ CountUpTo(I, 0) = 0
  <2>1. \A j \in I : ~(j <= 0)
    OBVIOUS
  <2>2. CountUpTo(I, 0) = 0
    <3>1. {j \in I : j <= 0} = {}
      BY <2>1
    <3>2. QED
      BY <3>1, FS_EmptySet DEF CountUpTo
  <2>3. 0 \in Nat /\ 0 < i
    OBVIOUS
  <2>4. QED
    BY <2>2, <2>3, CountUpToGrows
<1>4. k \in 1 .. Cardinality(I)
  BY <1>1, <1>2, <1>3
<1> HIDE DEF k
<1>5. Nth(I, k) \in I /\ CountUpTo(I, Nth(I, k)) = k
  BY <1>4, NthIsElement
<1>6. Nth(I, k) \in Nat /\ i \in Nat
  <2>1. \A j \in I : j \in Nat
    OBVIOUS
  <2>2. QED
    BY <1>5, <2>1
<1>7. ~(Nth(I, k) < i)
  <2>1. ASSUME Nth(I, k) < i PROVE k < k
    <3>1. CountUpTo(I, Nth(I, k)) < CountUpTo(I, i)
      BY <1>6, <2>1, CountUpToGrows
    <3>2. QED
      BY <1>5, <3>1 DEF k
  <2>2. QED
    BY <1>2, <2>1
<1>8. ~(i < Nth(I, k))
  <2>1. ASSUME i < Nth(I, k) PROVE k < k
    <3>1. CountUpTo(I, i) < CountUpTo(I, Nth(I, k))
      BY <1>5, <1>6, <2>1, CountUpToGrows
    <3>2. QED
      BY <1>5, <3>1 DEF k
  <2>2. QED
    BY <1>2, <2>1
<1>9. QED
  BY <1>4, <1>6, <1>7, <1>8 DEF k

\* The positions of a history that are not system messages.
Conversation(h) == DOMAIN h \ SystemPositions(h)

(***************************************************************************)
(* The conversation of c is the newest part of the conversation of h: its  *)
(* messages are those of h, in their order and without a gap, up to the    *)
(* newest.                                                                 *)
(***************************************************************************)
KeepsNewest(h, c) ==
    \E from \in [Conversation(c) -> Conversation(h)] :
        /\ \A p \in Conversation(c) : c[p] = h[from[p]]
        /\ \A p, q \in Conversation(c) : p < q => from[p] < from[q]
        /\ \A p \in Conversation(c), r \in Conversation(h) :
              from[p] < r => \E q \in Conversation(c) : from[q] = r

\* A history is the newest part of itself.
LEMMA KeepsItself ==
    ASSUME NEW h \in History
    PROVE  KeepsNewest(h, h)
<1> DEFINE from == [p \in Conversation(h) |-> p]
<1>1. from \in [Conversation(h) -> Conversation(h)]
  OBVIOUS
<1>2. QED
  BY <1>1 DEF KeepsNewest

\* How many elements of I are at least m.
CountFrom(I, m) == Cardinality({j \in I : j >= m})

\* What the slots take of a set of positions is its upper end.
LEMMA NewestIsUpperEnd ==
    ASSUME NEW n \in Nat, NEW I \in SUBSET (1 .. n), NEW slots \in Nat,
           NEW i \in I, CountFrom(I, i) <= slots, NEW r \in I, i < r
    PROVE  CountFrom(I, r) <= slots
<1> DEFINE wide == {j \in I : j >= i}
           narrow == {j \in I : j >= r}
<1>1. wide \in SUBSET (1 .. n) /\ narrow \in SUBSET wide
  <2>1. r \in Nat /\ i \in Nat /\ \A j \in I : j \in Nat
    OBVIOUS
  <2>2. \A j \in I : j >= r => j >= i
    BY <2>1
  <2>3. QED
    BY <2>2
<1> HIDE DEF wide, narrow
<1>2. IsFiniteSet(wide) /\ Cardinality(wide) \in Nat
  BY <1>1, PositionsFinite
<1>3. Cardinality(narrow) <= Cardinality(wide) /\ Cardinality(narrow) \in Nat
  BY <1>1, <1>2, FS_Subset, FS_CardinalityType
<1>4. QED
  BY <1>2, <1>3 DEF CountFrom, wide, narrow

LEMMA HardTruncateKeepsNewest ==
    ASSUME NEW h \in History, Len(h) > MaxMessages
    PROVE  KeepsNewest(h, HardTruncate(h))
<1> USE HistoryAssumption
<1> DEFINE system == SystemPositions(h)
           rest == DOMAIN h \ system
           slots == SaturatingSub(MaxMessages, Cardinality(system))
           newest == {i \in rest : Cardinality({j \in rest : j >= i}) <= slots}
           front == KeepPositions(h, system)
           back == KeepPositions(h, newest)
           result == front \o back
           from == [p \in Conversation(result) |-> Nth(newest, p - Len(front))]
<1>1. h \in Seq(Message) /\ DOMAIN h = 1 .. Len(h) /\ Len(h) \in Nat
  BY LenProperties DEF History
<1>2. HardTruncate(h) = result
  BY <1>1 DEF HardTruncate
<1>3. /\ system \in SUBSET DOMAIN h /\ system \in SUBSET (1 .. Len(h))
      /\ rest \in SUBSET (1 .. Len(h))
      /\ newest \in SUBSET rest /\ newest \in SUBSET DOMAIN h
      /\ newest \in SUBSET (1 .. Len(h))
      /\ rest = Conversation(h)
      /\ \A i \in rest : ~IsSystem(h[i])
  BY <1>1 DEF SystemPositions, Conversation
<1>4. slots \in Nat
  <2>1. Cardinality(system) \in Nat
    BY <1>1, <1>3, PositionsFinite
  <2>2. QED
    BY <2>1 DEF SaturatingSub
<1> HIDE DEF system, rest, slots
<1>5. ASSUME NEW i \in newest, NEW r \in rest, i < r PROVE r \in newest
  <2>1. i \in rest /\ CountFrom(rest, i) <= slots
    BY DEF CountFrom
  <2>2. CountFrom(rest, r) <= slots
    BY <1>1, <1>3, <1>4, <1>5, <2>1, NewestIsUpperEnd
  <2>3. QED
    BY <2>2 DEF CountFrom
<1> HIDE DEF newest
<1>6. /\ front \in Seq(Message) /\ Len(front) \in Nat
      /\ \A k \in 1 .. Len(front) : IsSystem(front[k])
  <2>1. /\ front \in Seq(Message)
        /\ Len(front) = Cardinality(system) /\ Cardinality(system) \in Nat
        /\ \A k \in 1 .. Cardinality(system) : front[k] \in {h[i] : i \in system}
    BY <1>1, <1>3, KeepPositionsType
  <2>2. \A i \in system : IsSystem(h[i])
    BY DEF system, SystemPositions
  <2>3. QED
    BY <2>1, <2>2
<1>7. /\ back \in Seq(Message)
      /\ Len(back) = Cardinality(newest) /\ Cardinality(newest) \in Nat
      /\ \A k \in 1 .. Len(back) : back[k] = h[Nth(newest, k)] /\ Nth(newest, k) \in newest
  <2>1. /\ back \in Seq(Message)
        /\ Len(back) = Cardinality(newest) /\ Cardinality(newest) \in Nat
    BY <1>1, <1>3, KeepPositionsType
  <2>2. \A k \in 1 .. Cardinality(newest) : Nth(newest, k) \in newest
    BY <1>1, <1>3, NthIsElement
  <2>3. \A k \in 1 .. Cardinality(newest) : back[k] = h[Nth(newest, k)]
    BY DEF KeepPositions
  <2>4. QED
    BY <2>1, <2>2, <2>3
<1> HIDE DEF front, back
<1>8. /\ result \in Seq(Message) /\ Len(result) = Len(front) + Len(back)
      /\ \A p \in 1 .. Len(front) + Len(back) :
            result[p] = IF p <= Len(front) THEN front[p] ELSE back[p - Len(front)]
  BY <1>6, <1>7, ConcatProperties
<1>9. DOMAIN result = 1 .. Len(front) + Len(back)
  BY <1>8, LenProperties
<1> HIDE DEF result
<1>10. \A p \in Nat : p \in Conversation(result) <=>
                          p - Len(front) \in 1 .. Len(back)
  <2>1. ASSUME NEW p \in 1 .. Len(front) + Len(back)
        PROVE  p \in Conversation(result) <=> p > Len(front)
    <3>1. CASE p <= Len(front)
      <4>1. IsSystem(result[p])
        BY <1>6, <1>7, <1>8, <3>1
      <4>2. QED
        BY <1>6, <1>9, <3>1, <4>1 DEF Conversation, SystemPositions
    <3>2. CASE p > Len(front)
      <4>1. /\ p - Len(front) \in 1 .. Len(back)
            /\ result[p] = back[p - Len(front)]
        BY <1>6, <1>7, <1>8, <3>2
      <4>2. PICK i \in newest : result[p] = h[i]
        BY <1>7, <4>1
      <4>3. ~IsSystem(result[p])
        BY <1>3, <4>2
      <4>4. QED
        BY <1>9, <3>2, <4>3 DEF Conversation, SystemPositions
    <3>3. QED
      BY <1>6, <3>1, <3>2
  <2>2. \A p \in Conversation(result) : p \in 1 .. Len(front) + Len(back)
    BY <1>9 DEF Conversation
  <2>3. QED
    BY <1>6, <1>7, <2>1, <2>2
<1>11. \A p \in Conversation(result) : /\ p \in Nat
                                       /\ p - Len(front) \in 1 .. Len(back)
                                       /\ result[p] = back[p - Len(front)]
  <2>1. \A p \in Conversation(result) : p \in 1 .. Len(front) + Len(back)
    BY <1>9 DEF Conversation
  <2>2. QED
    BY <1>6, <1>7, <1>8, <1>10, <2>1
<1>12. from \in [Conversation(result) -> Conversation(h)]
  BY <1>3, <1>7, <1>11
<1>13. \A p \in Conversation(result) : result[p] = h[from[p]]
  BY <1>7, <1>11
<1>14. ASSUME NEW p \in Conversation(result), NEW q \in Conversation(result), p < q
       PROVE  from[p] < from[q]
  <2> DEFINE k == p - Len(front)
             l == q - Len(front)
  <2>1. k \in 1 .. Cardinality(newest) /\ l \in 1 .. Cardinality(newest) /\ k < l
    BY <1>6, <1>7, <1>11, <1>14
  <2> HIDE DEF k, l
  <2>2. Nth(newest, k) < Nth(newest, l)
    BY <1>1, <1>3, <2>1, NthOrdered
  <2>3. QED
    BY <2>2 DEF k, l
<1>15. ASSUME NEW p \in Conversation(result), NEW r \in Conversation(h), from[p] < r
       PROVE  \E q \in Conversation(result) : from[q] = r
  <2>1. from[p] \in newest
    BY <1>7, <1>11
  <2>2. r \in newest
    BY <1>3, <1>5, <1>15, <2>1
  <2> DEFINE k == CountUpTo(newest, r)
  <2>3. k \in 1 .. Cardinality(newest) /\ Nth(newest, k) = r
    BY <1>1, <1>3, <2>2, ElementIsNth
  <2> HIDE DEF k
  <2>4. /\ Len(front) + k \in Nat
        /\ (Len(front) + k) - Len(front) = k
        /\ k \in 1 .. Len(back)
    BY <1>6, <1>7, <2>3
  <2>5. Len(front) + k \in Conversation(result)
    BY <1>10, <2>4
  <2>6. from[Len(front) + k] = r
    BY <2>3, <2>4, <2>5
  <2>7. QED
    BY <2>5, <2>6
<1> HIDE DEF from
<1>16. KeepsNewest(h, result)
  BY <1>12, <1>13, <1>14, <1>15 DEF KeepsNewest
<1>17. QED
  BY <1>2, <1>16

LEMMA SummarizeKeepsNewest ==
    ASSUME NEW h \in History, Len(h) > MaxMessages
    PROVE  KeepsNewest(h, SummarizeOverflow(h))
<1> USE HistoryAssumption
<1> DEFINE old == Len(h) - KeepRecent
           recent == SubSeq(h, old + 1, Len(h))
           result == <<Summary>> \o recent
           from == [p \in Conversation(result) |-> p + old - 1]
<1>1. h \in Seq(Message) /\ DOMAIN h = 1 .. Len(h) /\ Len(h) \in Nat /\ old \in Nat
  BY LenProperties DEF History
<1>2. SummarizeOverflow(h) = result
  BY DEF SummarizeOverflow
<1>3. /\ recent \in Seq(Message) /\ Len(recent) = KeepRecent
      /\ \A i \in 1 .. KeepRecent : recent[i] = h[old + i]
  <2>1. \A i \in old + 1 .. Len(h) : h[i] \in Message
    BY <1>1, ElementOfSeq
  <2>2. old + 1 \in Int /\ Len(h) \in Int
    BY <1>1
  <2>3. /\ recent \in Seq(Message)
        /\ Len(recent) = IF old + 1 <= Len(h) THEN Len(h) - (old + 1) + 1 ELSE 0
        /\ \A i \in 1 .. Len(h) - (old + 1) + 1 : recent[i] = h[(old + 1) + i - 1]
    BY <2>1, <2>2, SubSeqProperties
  <2>4. Len(h) - (old + 1) + 1 = KeepRecent /\ \A i \in Int : (old + 1) + i - 1 = old + i
    BY <1>1
  <2>5. QED
    BY <1>1, <2>3, <2>4
<1> HIDE DEF recent
<1>4. <<Summary>> \in Seq(Message) /\ Len(<<Summary>>) = 1 /\ IsSystem(<<Summary>>[1])
  BY DEF Summary, Message, Role, IsSystem
<1>5. /\ result \in Seq(Message) /\ Len(result) = 1 + KeepRecent
      /\ \A p \in 1 .. 1 + KeepRecent :
            result[p] = IF p <= 1 THEN <<Summary>>[p] ELSE recent[p - 1]
  BY <1>3, <1>4, ConcatProperties
<1>6. DOMAIN result = 1 .. 1 + KeepRecent
  BY <1>5, LenProperties
<1>7. IsSystem(result[1])
  BY <1>4, <1>5
<1> HIDE DEF result
<1>8. ASSUME NEW p \in 2 .. 1 + KeepRecent
      PROVE  result[p] = h[p + old - 1] /\ p + old - 1 \in DOMAIN h
  <2>1. p - 1 \in 1 .. KeepRecent /\ ~(p <= 1) /\ p \in 1 .. 1 + KeepRecent
    OBVIOUS
  <2>2. result[p] = h[old + (p - 1)]
    BY <1>3, <1>5, <2>1
  <2>3. old + (p - 1) = p + old - 1 /\ p + old - 1 \in 1 .. Len(h)
    BY <1>1
  <2>4. QED
    BY <1>1, <2>2, <2>3
<1>9. \A p \in Conversation(result) : p \in 2 .. 1 + KeepRecent
  BY <1>6, <1>7 DEF Conversation, SystemPositions
<1>10. \A p \in 2 .. 1 + KeepRecent :
          p \in Conversation(result) <=> p + old - 1 \in Conversation(h)
  BY <1>6, <1>8 DEF Conversation, SystemPositions
<1>11. from \in [Conversation(result) -> Conversation(h)]
  BY <1>9, <1>10
<1>12. \A p \in Conversation(result) : result[p] = h[from[p]]
  BY <1>8, <1>9
<1>13. \A p, q \in Conversation(result) : p < q => from[p] < from[q]
  BY <1>1, <1>9
<1>14. ASSUME NEW p \in Conversation(result), NEW r \in Conversation(h), from[p] < r
       PROVE  \E q \in Conversation(result) : from[q] = r
  <2>1. r \in 1 .. Len(h) /\ p + old - 1 < r /\ p \in 2 .. 1 + KeepRecent
    BY <1>1, <1>9, <1>14 DEF Conversation
  <2>2. r - old + 1 \in 2 .. 1 + KeepRecent /\ (r - old + 1) + old - 1 = r
    BY <1>1, <2>1
  <2>3. r - old + 1 \in Conversation(result)
    BY <1>10, <2>2
  <2>4. QED
    BY <2>2, <2>3
<1> HIDE DEF from
<1>15. QED
  BY <1>2, <1>11, <1>12, <1>13, <1>14 DEF KeepsNewest

(***************************************************************************)
(* However a history is compacted, what is left of its conversation is its *)
(* newest part: truncating and summarising only forget the old end, change *)
(* no message, swap none and leave none out.                               *)
(***************************************************************************)
THEOREM CompactionKeepsNewest ==
    ASSUME NEW h \in History
    PROVE  /\ \A c \in Compactions(h) : KeepsNewest(h, c)
           /\ KeepsNewest(h, ImportCompaction(h))
<1>1. MaxMessages \in Nat /\ Len(h) \in Nat
  BY HistoryAssumption, LenProperties DEF History
<1>2. CASE Len(h) <= MaxMessages
  BY <1>2, KeepsItself DEF Compactions, ImportCompaction
<1>3. CASE Len(h) > MaxMessages
  BY <1>1, <1>3, HardTruncateKeepsNewest, SummarizeKeepsNewest
  DEF Compactions, ImportCompaction
<1>4. QED
  BY <1>1, <1>2, <1>3

-----------------------------------------------------------------------------
(* Selections of positions *)

\* How many numbers an interval has.
LEMMA IntervalCount ==
    ASSUME NEW a \in Int, NEW b \in Int, a <= b + 1
    PROVE  Cardinality(a .. b) = b - a + 1
<1>1. Cardinality(a .. b) = IF a > b THEN 0 ELSE b - a + 1
  BY FS_Interval
<1>2. QED
  BY <1>1

\* An increasing function has as many values as arguments.
LEMMA IncreasingCount ==
    ASSUME NEW n \in Nat, NEW m \in Nat, NEW f \in [1 .. m -> 1 .. n],
           \A k, l \in 1 .. m : k < l => f[k] < f[l]
    PROVE  Cardinality({f[l] : l \in 1 .. m}) = m
<1> DEFINE S == {f[l] : l \in 1 .. m}
           b == [l \in 1 .. m |-> f[l]]
<1>1. b \in [1 .. m -> S] /\ \A t \in S : \E s \in 1 .. m : b[s] = t
  OBVIOUS
<1>2. \A k, l \in 1 .. m : f[k] = f[l] => k = l
  <2> SUFFICES ASSUME NEW k \in 1 .. m, NEW l \in 1 .. m, f[k] = f[l] PROVE k = l
    OBVIOUS
  <2>1. f[k] \in Int /\ ~(k < l) /\ ~(l < k)
    OBVIOUS
  <2>2. QED
    BY <2>1
<1>3. IsInjective(b)
  BY <1>2 DEF IsInjective
<1> HIDE DEF S, b
<1>4. ExistsBijection(1 .. m, S)
  BY <1>1, <1>3 DEF ExistsBijection, Bijection, Injection, Surjection
<1>5. Cardinality(S) = m
  BY <1>4, FS_CountingElements
<1>6. QED
  BY <1>5 DEF S

\* The one increasing function onto a set of positions counts it.
LEMMA SelectionIs ==
    ASSUME NEW n \in Nat, NEW I \in SUBSET (1 .. n), NEW m \in Nat, NEW f \in [1 .. m -> I],
           \A k, l \in 1 .. m : k < l => f[k] < f[l],
           \A i \in I : \E k \in 1 .. m : f[k] = i
    PROVE  m = Cardinality(I) /\ \A k \in 1 .. m : Nth(I, k) = f[k]
<1>1. f \in [1 .. m -> 1 .. n]
  OBVIOUS
<1>2. {f[l] : l \in 1 .. m} = I
  OBVIOUS
<1>3. m = Cardinality(I)
  BY <1>1, <1>2, IncreasingCount
<1>4. ASSUME NEW k \in 1 .. m PROVE Nth(I, k) = f[k]
  <2> DEFINE g == [l \in 1 .. k |-> f[l]]
  <2>1. k \in Nat /\ g \in [1 .. k -> 1 .. n] /\ \A p, q \in 1 .. k : p < q => g[p] < g[q]
    BY <1>1
  <2>2. Cardinality({g[l] : l \in 1 .. k}) = k
    <3> HIDE DEF g
    <3> SUFFICES ASSUME NEW u \in Nat, u = k, g \in [1 .. u -> 1 .. n],
                        \A p, q \in 1 .. u : p < q => g[p] < g[q]
                 PROVE  Cardinality({g[l] : l \in 1 .. u}) = u
      BY <2>1
    <3>1. QED
      BY ONLY n \in Nat, u \in Nat, g \in [1 .. u -> 1 .. n],
              \A p, q \in 1 .. u : p < q => g[p] < g[q], IncreasingCount
  <2>3. \A l \in 1 .. m : f[l] <= f[k] <=> l <= k
    <3> SUFFICES ASSUME NEW l \in 1 .. m PROVE f[l] <= f[k] <=> l <= k
      OBVIOUS
    <3>1. f[l] \in Int /\ f[k] \in Int /\ (l < k => f[l] < f[k]) /\ (k < l => f[k] < f[l])
      BY <1>1
    <3>2. QED
      BY <3>1
  <2>4. {j \in I : j <= f[k]} = {g[l] : l \in 1 .. k}
    <3>1. \A j \in I : j <= f[k] => \E l \in 1 .. k : g[l] = j
      <4> SUFFICES ASSUME NEW j \in I, j <= f[k] PROVE \E l \in 1 .. k : g[l] = j
        OBVIOUS
      <4>1. PICK l \in 1 .. m : f[l] = j
        OBVIOUS
      <4>2. l \in 1 .. k /\ g[l] = j
        BY <2>3, <4>1
      <4>3. QED
        BY <4>2
    <3>2. \A l \in 1 .. k : g[l] \in I /\ g[l] <= f[k]
      BY <2>3
    <3> HIDE DEF g
    <3>3. QED
      BY <3>1, <3>2
  <2>5. CountUpTo(I, f[k]) = k
    BY <2>2, <2>4 DEF CountUpTo
  <2>6. f[k] \in I
    OBVIOUS
  <2>7. QED
    BY <2>5, <2>6, ElementIsNth
<1>5. QED
  BY <1>3, <1>4

\* All positions select all, none nothing.
LEMMA KeepAllOrNone ==
    ASSUME NEW S, NEW h \in Seq(S)
    PROVE  KeepPositions(h, 1 .. Len(h)) = h /\ KeepPositions(h, {}) = <<>>
<1>1. Len(h) \in Nat /\ h = [k \in 1 .. Len(h) |-> h[k]]
  BY LenProperties
<1> DEFINE f == [k \in 1 .. Len(h) |-> k]
<1>2. /\ f \in [1 .. Len(h) -> 1 .. Len(h)] /\ \A k, l \in 1 .. Len(h) : k < l => f[k] < f[l]
      /\ \A i \in 1 .. Len(h) : \E k \in 1 .. Len(h) : f[k] = i
  OBVIOUS
<1>3. Len(h) = Cardinality(1 .. Len(h)) /\ \A k \in 1 .. Len(h) : Nth(1 .. Len(h), k) = f[k]
  <2> DEFINE n == Len(h)
             I == 1 .. n
  <2>1. n \in Nat /\ I \in SUBSET (1 .. n) /\ f \in [1 .. n -> I]
    BY <1>1
  <2>2. (\A k, l \in 1 .. n : k < l => f[k] < f[l]) /\ \A i \in I : \E k \in 1 .. n : f[k] = i
    BY <1>2
  <2> HIDE DEF f, n, I
  <2>3. n = Cardinality(I) /\ \A k \in 1 .. n : Nth(I, k) = f[k]
    BY <2>1, <2>2, SelectionIs
  <2>4. QED
    BY <2>3 DEF n, I
<1>4. KeepPositions(h, 1 .. Len(h)) = [k \in 1 .. Len(h) |-> h[k]]
  BY <1>3 DEF KeepPositions
<1>5. 1 .. Cardinality({}) = {}
  BY FS_EmptySet
<1>6. KeepPositions(h, {}) = <<>>
  BY <1>5 DEF KeepPositions
<1>7. QED
  BY <1>1, <1>4, <1>6

\* The positions I of a sequence of two parts, n and m long, are I1 of the first and I2 of the second.
Splits(I, I1, I2, n, m) ==
    /\ I \in SUBSET (1 .. n + m) /\ I1 \in SUBSET (1 .. n) /\ I2 \in SUBSET (1 .. m)
    /\ \A i \in 1 .. n : i \in I1 <=> i \in I
    /\ \A j \in 1 .. m : j \in I2 <=> n + j \in I

\* A selection of a sequence of two parts is one of each part.
LEMMA KeepConcat ==
    ASSUME NEW S, NEW e \in Seq(S), NEW l \in Seq(S), NEW I, NEW I1, NEW I2, Splits(I, I1, I2, Len(e), Len(l))
    PROVE  /\ KeepPositions(e \o l, I) = KeepPositions(e, I1) \o KeepPositions(l, I2)
           /\ Cardinality(I) = Cardinality(I1) + Cardinality(I2)
<1> DEFINE n == Len(e)
           c1 == Cardinality(I1)
           c2 == Cardinality(I2)
           f == [k \in 1 .. c1 + c2 |-> IF k <= c1 THEN Nth(I1, k) ELSE n + Nth(I2, k - c1)]
           K1 == KeepPositions(e, I1)
           K2 == KeepPositions(l, I2)
<1>1. n \in Nat /\ Len(l) \in Nat /\ DOMAIN e = 1 .. n /\ DOMAIN l = 1 .. Len(l)
  BY LenProperties
<1>2. /\ I \in SUBSET (1 .. n + Len(l)) /\ I1 \in SUBSET (1 .. n) /\ I2 \in SUBSET (1 .. Len(l))
      /\ \A i \in 1 .. n : i \in I1 <=> i \in I
      /\ \A j \in 1 .. Len(l) : j \in I2 <=> n + j \in I
  BY DEF Splits
<1>3. c1 \in Nat /\ c2 \in Nat
  BY <1>1, <1>2, PositionsFinite
<1>4. \A k \in 1 .. c1 : Nth(I1, k) \in I1
  BY <1>1, <1>2, NthIsElement
<1>5. \A k \in 1 .. c2 : Nth(I2, k) \in I2
  BY <1>1, <1>2, NthIsElement
<1>6. \A k, m \in 1 .. c1 : k < m => Nth(I1, k) < Nth(I1, m)
  BY <1>1, <1>2, NthOrdered
<1>7. \A k, m \in 1 .. c2 : k < m => Nth(I2, k) < Nth(I2, m)
  BY <1>1, <1>2, NthOrdered
<1>8. K1 \in Seq(S) /\ Len(K1) = c1 /\ K2 \in Seq(S) /\ Len(K2) = c2
  BY <1>1, <1>2, KeepPositionsType
<1>9. (\A k \in 1 .. c1 : K1[k] = e[Nth(I1, k)]) /\ (\A k \in 1 .. c2 : K2[k] = l[Nth(I2, k)])
  BY DEF KeepPositions
<1> HIDE DEF c1, c2, K1, K2, n
<1>10. f \in [1 .. c1 + c2 -> I]
  <2> SUFFICES ASSUME NEW k \in 1 .. c1 + c2 PROVE f[k] \in I
    OBVIOUS
  <2>1. CASE k <= c1
    <3>1. k \in 1 .. c1
      BY <1>3, <2>1
    <3>2. Nth(I1, k) \in I
      BY <1>2, <1>4, <3>1
    <3>3. QED
      BY <2>1, <3>2
  <2>2. CASE ~(k <= c1)
    <3>1. k - c1 \in 1 .. c2
      BY <1>3, <2>2
    <3>2. n + Nth(I2, k - c1) \in I
      BY <1>2, <1>5, <3>1
    <3>3. QED
      BY <2>2, <3>2
  <2>3. QED
    BY <2>1, <2>2
<1>11. ASSUME NEW k \in 1 .. c1 + c2, NEW m \in 1 .. c1 + c2, k < m PROVE f[k] < f[m]
  <2>1. CASE m <= c1
    BY <1>3, <1>6, <1>11, <2>1
  <2>2. CASE k <= c1 /\ ~(m <= c1)
    <3>1. k \in 1 .. c1 /\ m - c1 \in 1 .. c2
      BY <1>3, <2>2
    <3>2. Nth(I1, k) \in 1 .. n /\ Nth(I2, m - c1) \in 1 .. Len(l)
      BY <1>2, <1>4, <1>5, <3>1
    <3>3. f[k] = Nth(I1, k) /\ f[m] = n + Nth(I2, m - c1)
      BY <2>2
    <3> HIDE DEF f
    <3>4. QED
      BY <1>1, <3>2, <3>3
  <2>3. CASE ~(k <= c1) /\ ~(m <= c1)
    <3>1. k - c1 \in 1 .. c2 /\ m - c1 \in 1 .. c2 /\ k - c1 < m - c1
      BY <1>3, <1>11, <2>3
    <3>2. Nth(I2, k - c1) < Nth(I2, m - c1) /\ Nth(I2, k - c1) \in Int /\ Nth(I2, m - c1) \in Int
      <4>1. Nth(I2, k - c1) \in 1 .. Len(l) /\ Nth(I2, m - c1) \in 1 .. Len(l)
        BY <1>2, <1>5, <3>1
      <4>2. QED
        BY <1>7, <3>1, <4>1
    <3>3. f[k] = n + Nth(I2, k - c1) /\ f[m] = n + Nth(I2, m - c1)
      BY <2>3
    <3> HIDE DEF f
    <3>4. QED
      BY <1>1, <3>2, <3>3
  <2>4. QED
    BY <1>3, <1>11, <2>1, <2>2, <2>3
<1>12. ASSUME NEW i \in I PROVE \E k \in 1 .. c1 + c2 : f[k] = i
  <2>1. CASE i <= n
    <3>1. i \in I1
      BY <1>1, <1>2, <2>1
    <3> DEFINE k == CountUpTo(I1, i)
    <3>2. k \in 1 .. c1 /\ Nth(I1, k) = i
      BY <1>1, <1>2, <3>1, ElementIsNth DEF c1
    <3> HIDE DEF k
    <3>3. k \in 1 .. c1 + c2 /\ f[k] = i
      BY <1>3, <3>2
    <3>4. QED
      BY <3>3
  <2>2. CASE ~(i <= n)
    <3>1. i - n \in I2 /\ n + (i - n) = i
      BY <1>1, <1>2, <2>2
    <3> DEFINE k == CountUpTo(I2, i - n)
    <3>2. k \in 1 .. c2 /\ Nth(I2, k) = i - n
      BY <1>1, <1>2, <3>1, ElementIsNth DEF c2
    <3> HIDE DEF k
    <3>3. c1 + k \in 1 .. c1 + c2 /\ ~(c1 + k <= c1) /\ c1 + k - c1 = k
      BY <1>3, <3>2
    <3>4. PICK q \in 1 .. c1 + c2 : ~(q <= c1) /\ q - c1 = k
      BY <1>3, <3>2, <3>3
    <3>5. f[q] = n + Nth(I2, q - c1)
      BY <3>4
    <3> HIDE DEF f
    <3>6. f[q] = i
      BY <3>1, <3>2, <3>4, <3>5
    <3>7. QED
      BY <3>6
  <2>3. QED
    BY <2>1, <2>2
<1>13. c1 + c2 = Cardinality(I) /\ \A k \in 1 .. c1 + c2 : Nth(I, k) = f[k]
  <2>1. n + Len(l) \in Nat /\ I \in SUBSET (1 .. n + Len(l)) /\ c1 + c2 \in Nat
    BY <1>1, <1>2, <1>3
  <2> HIDE DEF f
  <2>2. QED
    BY <1>10, <1>11, <1>12, <2>1, SelectionIs, ZenonT(60)
<1>14. K1 \o K2 \in Seq(S) /\ Len(K1 \o K2) = c1 + c2
       /\ \A k \in 1 .. c1 + c2 : (K1 \o K2)[k] = IF k <= c1 THEN K1[k] ELSE K2[k - c1]
  BY <1>8, ConcatProperties
<1>15. \A i \in 1 .. n + Len(l) : (e \o l)[i] = IF i <= n THEN e[i] ELSE l[i - n]
  BY ConcatProperties DEF n
<1>16. ASSUME NEW k \in 1 .. c1 + c2 PROVE (K1 \o K2)[k] = (e \o l)[f[k]]
  <2>1. CASE k <= c1
    <3>1. k \in 1 .. c1 /\ Nth(I1, k) \in 1 .. n
      <4>1. k \in 1 .. c1
        BY <1>3, <2>1
      <4>2. QED
        BY <1>2, <1>4, <4>1
    <3>2. (e \o l)[Nth(I1, k)] = e[Nth(I1, k)]
      BY <1>1, <1>15, <3>1
    <3>3. QED
      BY <1>9, <1>14, <2>1, <3>1, <3>2
  <2>2. CASE ~(k <= c1)
    <3>1. k - c1 \in 1 .. c2 /\ Nth(I2, k - c1) \in 1 .. Len(l)
      <4>1. k - c1 \in 1 .. c2
        BY <1>3, <2>2
      <4>2. QED
        BY <1>2, <1>5, <4>1
    <3>2. (e \o l)[n + Nth(I2, k - c1)] = l[Nth(I2, k - c1)]
      BY <1>1, <1>15, <3>1
    <3>3. QED
      BY <1>9, <1>14, <2>2, <3>1, <3>2
  <2>3. QED
    BY <2>1, <2>2
<1>17. K1 \o K2 = [k \in 1 .. c1 + c2 |-> (K1 \o K2)[k]]
  BY <1>14, LenProperties
<1>18. KeepPositions(e \o l, I) = [k \in 1 .. c1 + c2 |-> (e \o l)[f[k]]]
  <2> HIDE DEF f
  <2>1. QED
    BY <1>13 DEF KeepPositions
<1>19. KeepPositions(e \o l, I) = K1 \o K2
  <2> HIDE DEF f
  <2>1. QED
    BY <1>16, <1>17, <1>18
<1>20. QED
  BY <1>13, <1>19 DEF K1, K2, c1, c2

\* A selection of a selection is a selection.
LEMMA KeepKeep ==
    ASSUME NEW S, NEW h \in Seq(S), NEW I \in SUBSET (1 .. Len(h)), NEW J \in SUBSET (1 .. Cardinality(I))
    PROVE  KeepPositions(KeepPositions(h, I), J) = KeepPositions(h, {Nth(I, k) : k \in J})
<1> DEFINE c == Cardinality(I)
           m == Cardinality(J)
           N == {Nth(I, k) : k \in J}
           f == [q \in 1 .. m |-> Nth(I, Nth(J, q))]
<1>1. Len(h) \in Nat /\ DOMAIN h = 1 .. Len(h)
  BY LenProperties
<1>2. c \in Nat
  BY <1>1, PositionsFinite
<1> HIDE DEF c
<1>3. m \in Nat /\ J \in SUBSET (1 .. c)
  BY <1>2, PositionsFinite DEF c
<1>4. \A q \in 1 .. m : Nth(J, q) \in J
  BY <1>2, <1>3, NthIsElement
<1>5. \A k \in 1 .. c : Nth(I, k) \in I
  BY <1>1, NthIsElement DEF c
<1>6. N \in SUBSET (1 .. Len(h))
  BY <1>3, <1>5
<1>7. f \in [1 .. m -> N]
  BY <1>4
<1>8. \A q, r \in 1 .. m : q < r => Nth(J, q) < Nth(J, r)
  BY <1>2, <1>3, NthOrdered
<1>9. \A k, l \in 1 .. c : k < l => Nth(I, k) < Nth(I, l)
  BY <1>1, NthOrdered DEF c
<1>10. \A q, r \in 1 .. m : q < r => f[q] < f[r]
  <2> SUFFICES ASSUME NEW q \in 1 .. m, NEW r \in 1 .. m, q < r PROVE f[q] < f[r]
    OBVIOUS
  <2>1. Nth(J, q) \in 1 .. c /\ Nth(J, r) \in 1 .. c /\ Nth(J, q) < Nth(J, r)
    BY <1>3, <1>4, <1>8
  <2>2. QED
    BY <1>9, <2>1
<1>11. \A i \in N : \E q \in 1 .. m : f[q] = i
  <2> SUFFICES ASSUME NEW k \in J PROVE \E q \in 1 .. m : f[q] = Nth(I, k)
    OBVIOUS
  <2> DEFINE q == CountUpTo(J, k)
  <2>1. q \in 1 .. m /\ Nth(J, q) = k
    BY <1>2, <1>3, ElementIsNth
  <2> HIDE DEF q
  <2>2. f[q] = Nth(I, k)
    BY <2>1
  <2>3. QED
    BY <2>1, <2>2
<1> HIDE DEF N
<1>12. m = Cardinality(N) /\ \A q \in 1 .. m : Nth(N, q) = f[q]
  <2> DEFINE len == Len(h)
  <2>1. len \in Nat /\ m \in Nat /\ N \in SUBSET (1 .. len)
    BY <1>1, <1>3, <1>6
  <2> HIDE DEF f, m, len
  <2>2. QED
    BY <1>7, <1>10, <1>11, <2>1, SelectionIs, ZenonT(60)
<1>13. KeepPositions(h, N) = [q \in 1 .. m |-> h[Nth(I, Nth(J, q))]]
  BY <1>12 DEF KeepPositions
<1>14. \A q \in 1 .. m : KeepPositions(h, I)[Nth(J, q)] = h[Nth(I, Nth(J, q))]
  BY <1>3, <1>4 DEF KeepPositions, c
<1>15. KeepPositions(KeepPositions(h, I), J) = [q \in 1 .. m |-> KeepPositions(h, I)[Nth(J, q)]]
  BY DEF KeepPositions
<1>16. QED
  BY <1>13, <1>14, <1>15 DEF N

-----------------------------------------------------------------------------
(* Truncating again *)

\* The system messages of a history.
SystemPart(h) == KeepPositions(h, SystemPositions(h))

\* The newest of a conversation, as many as there are slots.
NewestAt(h, slots) == {i \in Conversation(h) : CountFrom(Conversation(h), i) <= slots}

NewestPart(h, slots) == KeepPositions(h, NewestAt(h, slots))

\* What system messages leave of the limit.
Room(systems) == SaturatingSub(MaxMessages, systems)

\* What a history is made of.
LEMMA PositionsType ==
    ASSUME NEW h \in History
    PROVE  /\ h \in Seq(Message) /\ Len(h) \in Nat /\ DOMAIN h = 1 .. Len(h)
           /\ SystemPositions(h) \in SUBSET (1 .. Len(h)) /\ Cardinality(SystemPositions(h)) \in Nat
           /\ Conversation(h) \in SUBSET (1 .. Len(h)) /\ Cardinality(Conversation(h)) \in Nat
           /\ Cardinality(SystemPositions(h)) + Cardinality(Conversation(h)) = Len(h)
           /\ \A i \in 1 .. Len(h) : h[i] \in Message
<1>1. h \in Seq(Message) /\ Len(h) \in Nat /\ DOMAIN h = 1 .. Len(h)
  BY LenProperties DEF History
<1> DEFINE n == Len(h)
           sys == SystemPositions(h)
           conv == Conversation(h)
<1>2. sys \in SUBSET (1 .. n) /\ conv = (1 .. n) \ sys
  BY <1>1 DEF SystemPositions, Conversation
<1> HIDE DEF sys, conv, n
<1>3. n \in Nat /\ IsFiniteSet(1 .. n) /\ Cardinality(1 .. n) = n
  <2>1. n \in Nat
    BY <1>1 DEF n
  <2>2. 1 \in Int /\ n \in Int /\ 1 <= n + 1 /\ n - 1 + 1 = n
    BY <2>1
  <2>3. QED
    BY <2>1, <2>2, IntervalCount, FS_Interval
<1>4. IsFiniteSet(sys) /\ Cardinality(sys) \in Nat /\ conv \in SUBSET (1 .. n) /\ Cardinality(conv) \in Nat
  <2>1. conv \in SUBSET (1 .. n)
    BY <1>2
  <2>2. QED
    BY <1>2, <1>3, <2>1, PositionsFinite
<1>5. Cardinality(conv) = n - Cardinality(sys)
  <2>1. (1 .. n) \cap sys = sys
    BY <1>2
  <2>2. Cardinality((1 .. n) \ sys) = Cardinality(1 .. n) - Cardinality((1 .. n) \cap sys)
    BY <1>3, FS_Difference
  <2>3. QED
    BY <1>2, <1>3, <2>1, <2>2
<1>6. \A i \in 1 .. Len(h) : h[i] \in Message
  BY <1>1, ElementOfSeq
<1>7. Cardinality(sys) + Cardinality(conv) = n
  BY <1>3, <1>4, <1>5
<1>8. QED
  BY <1>1, <1>2, <1>4, <1>6, <1>7 DEF sys, conv, n

\* Truncation, by its two parts.
LEMMA TruncationParts ==
    ASSUME NEW h \in History, Len(h) > MaxMessages
    PROVE  HardTruncate(h) = SystemPart(h) \o NewestPart(h, Room(Cardinality(SystemPositions(h))))
<1>1. ~(Len(h) <= MaxMessages)
  BY HistoryAssumption, PositionsType
<1>2. QED
  BY <1>1 DEF HardTruncate, SystemPart, NewestPart, NewestAt, Conversation, CountFrom, Room

\* The parts of a history are histories.
LEMMA PartsType ==
    ASSUME NEW h \in History, NEW slots \in Int
    PROVE  /\ SystemPart(h) \in History /\ Len(SystemPart(h)) = Cardinality(SystemPositions(h))
           /\ NewestAt(h, slots) \in SUBSET (1 .. Len(h)) /\ Cardinality(NewestAt(h, slots)) \in Nat
           /\ NewestPart(h, slots) \in History /\ Len(NewestPart(h, slots)) = Cardinality(NewestAt(h, slots))
<1>1. h \in Seq(Message) /\ SystemPositions(h) \in SUBSET DOMAIN h /\ NewestAt(h, slots) \in SUBSET DOMAIN h
      /\ DOMAIN h = 1 .. Len(h)
  BY PositionsType DEF NewestAt
<1>2. QED
  BY <1>1, KeepPositionsType DEF SystemPart, NewestPart, History

\* An element is counted by both counts, every other by one of them.
LEMMA CountBoth ==
    ASSUME NEW n \in Nat, NEW I \in SUBSET (1 .. n), NEW i \in I
    PROVE  CountFrom(I, i) = Cardinality(I) - CountUpTo(I, i) + 1
<1> DEFINE low == {j \in I : j <= i}
           high == {j \in I : j >= i}
<1>1. low \cup high = I /\ low \cap high = {i} /\ low \in SUBSET (1 .. n) /\ high \in SUBSET (1 .. n)
  <2>1. i \in Int /\ \A j \in I : j \in Int
    OBVIOUS
  <2>2. low \in SUBSET (1 .. n) /\ high \in SUBSET (1 .. n)
    OBVIOUS
  <2>3. \A j \in I : (j <= i \/ j >= i) /\ (j <= i /\ j >= i <=> j = i)
    BY <2>1
  <2>4. low \cup high = I
    BY <2>3
  <2>5. low \cap high = {i}
    BY <2>3
  <2>6. QED
    BY <2>2, <2>4, <2>5
<1> HIDE DEF low, high
<1>2. IsFiniteSet(low) /\ IsFiniteSet(high) /\ Cardinality(low) \in Nat /\ Cardinality(high) \in Nat
  BY <1>1, PositionsFinite
<1>3. Cardinality(I) = Cardinality(low) + Cardinality(high) - Cardinality({i})
  BY <1>1, <1>2, FS_Union
<1>4. Cardinality({i}) = 1
  BY FS_Singleton
<1>5. Cardinality(high) = Cardinality(I) - Cardinality(low) + 1
  BY <1>2, <1>3, <1>4
<1>6. QED
  BY <1>5 DEF CountFrom, CountUpTo, low, high

\* How many there are from the k-th on.
LEMMA CountFromNth ==
    ASSUME NEW n \in Nat, NEW I \in SUBSET (1 .. n), NEW k \in 1 .. Cardinality(I)
    PROVE  CountFrom(I, Nth(I, k)) = Cardinality(I) - k + 1
BY NthIsElement, CountBoth

\* The parts of two histories in a row.
LEMMA PartsOfConcat ==
    ASSUME NEW e \in History, NEW l \in History, NEW slots \in Int
    PROVE  /\ SystemPart(e \o l) = SystemPart(e) \o SystemPart(l)
           /\ Cardinality(SystemPositions(e \o l)) = Cardinality(SystemPositions(e)) + Cardinality(SystemPositions(l))
           /\ NewestPart(e \o l, slots)
                = NewestPart(e, slots - Cardinality(Conversation(l))) \o NewestPart(l, slots)
<1> DEFINE n == Len(e)
           m == Len(l)
           C == Conversation(e \o l)
           C1 == Conversation(e)
           C2 == Conversation(l)
           S == SystemPositions(e \o l)
<1>1. /\ e \in Seq(Message) /\ l \in Seq(Message) /\ e \o l \in Seq(Message) /\ Len(e \o l) = n + m
      /\ n \in Nat /\ m \in Nat /\ DOMAIN (e \o l) = 1 .. n + m /\ DOMAIN e = 1 .. n /\ DOMAIN l = 1 .. m
      /\ \A i \in 1 .. n + m : (e \o l)[i] = IF i <= n THEN e[i] ELSE l[i - n]
  <2>1. e \in Seq(Message) /\ l \in Seq(Message)
    BY DEF History
  <2>2. QED
    BY <2>1, ConcatProperties, LenProperties
<1>2. /\ \A i \in 1 .. n : i \in 1 .. n + m /\ (e \o l)[i] = e[i]
      /\ \A j \in 1 .. m : n + j \in 1 .. n + m /\ (e \o l)[n + j] = l[j]
  BY <1>1
<1> HIDE DEF n, m
<1>3. S \in SUBSET (1 .. n + m) /\ C \in SUBSET (1 .. n + m) /\ C1 \in SUBSET (1 .. n) /\ C2 \in SUBSET (1 .. m)
  BY <1>1 DEF SystemPositions, Conversation
<1>4. /\ SystemPositions(e) \in SUBSET (1 .. n) /\ SystemPositions(l) \in SUBSET (1 .. m)
      /\ \A i \in 1 .. n : (i \in SystemPositions(e) <=> i \in S) /\ (i \in C1 <=> i \in C)
      /\ \A j \in 1 .. m : (j \in SystemPositions(l) <=> n + j \in S) /\ (j \in C2 <=> n + j \in C)
  <2>1. \A i \in 1 .. n : (i \in S <=> i \in SystemPositions(e)) /\ (i \in C <=> i \in C1)
    BY <1>1, <1>2 DEF SystemPositions, Conversation
  <2>2. \A j \in 1 .. m : (n + j \in S <=> j \in SystemPositions(l)) /\ (n + j \in C <=> j \in C2)
    BY <1>1, <1>2 DEF SystemPositions, Conversation
  <2>3. SystemPositions(e) \subseteq 1 .. n /\ SystemPositions(l) \subseteq 1 .. m
    BY <1>1 DEF SystemPositions
  <2> HIDE DEF S, C, C1, C2
  <2>4. QED
    BY <1>3, <2>1, <2>2, <2>3
<1> HIDE DEF S, C, C1, C2
<1>5. /\ SystemPart(e \o l) = SystemPart(e) \o SystemPart(l)
      /\ Cardinality(S) = Cardinality(SystemPositions(e)) + Cardinality(SystemPositions(l))
  <2>2. Splits(S, SystemPositions(e), SystemPositions(l), n, m)
    BY <1>3, <1>4 DEF Splits
  <2>1. /\ KeepPositions(e \o l, S) = KeepPositions(e, SystemPositions(e)) \o KeepPositions(l, SystemPositions(l))
        /\ Cardinality(S) = Cardinality(SystemPositions(e)) + Cardinality(SystemPositions(l))
    <3>1. e \in Seq(Message) /\ l \in Seq(Message)
      BY <1>1
    <3>2. QED
      BY <2>2, <3>1, KeepConcat DEF n, m
  <2>3. QED
    BY <2>1 DEF SystemPart, S
<1> DEFINE c2 == Cardinality(C2)
<1>6. c2 \in Nat
  BY <1>1, <1>3, PositionsFinite
<1>7. ASSUME NEW i \in C1 PROVE CountFrom(C, i) = CountFrom(C1, i) + c2 /\ CountFrom(C1, i) \in Nat
  <2> DEFINE I == {j \in C : j >= i}
             I1 == {j \in C1 : j >= i}
  <2>1. I \in SUBSET (1 .. n + m)
    BY <1>3
  <2>2. I1 \in SUBSET (1 .. n) /\ \A j \in 1 .. n : j \in I1 <=> j \in I
    BY <1>3, <1>4
  <2>3. \A j \in 1 .. m : n + j >= i
    BY <1>1, <1>3
  <2>4. \A j \in 1 .. m : j \in C2 <=> n + j \in I
    BY <1>4, <2>3
  <2>5. Cardinality(I1) \in Nat
    <3>1. I1 \in SUBSET (1 .. n)
      BY <1>3
    <3>2. QED
      BY <1>1, <3>1, PositionsFinite
  <2> HIDE DEF I, I1
  <2>6. Cardinality(I) = Cardinality(I1) + c2
    <3>1. e \in Seq(Message) /\ l \in Seq(Message)
      BY <1>1
    <3>2. Splits(I, I1, C2, n, m)
      BY <1>3, <2>1, <2>2, <2>4 DEF Splits
    <3>3. QED
      BY <3>1, <3>2, KeepConcat DEF n, m, c2
  <2>7. QED
    BY <2>5, <2>6 DEF CountFrom, I, I1
<1>8. ASSUME NEW k \in C2 PROVE CountFrom(C, n + k) = CountFrom(C2, k)
  <2> DEFINE I == {j \in C : j >= n + k}
             I2 == {j \in C2 : j >= k}
  <2>1. I \in SUBSET (1 .. n + m) /\ k \in 1 .. m
    BY <1>3
  <2>2. {} \in SUBSET (1 .. n) /\ \A j \in 1 .. n : j \in {} <=> j \in I
    BY <1>1, <2>1
  <2>3. \A j \in 1 .. m : n + j >= n + k <=> j >= k
    BY <1>1, <2>1
  <2>4. I2 \in SUBSET (1 .. m) /\ \A j \in 1 .. m : j \in I2 <=> n + j \in I
    BY <1>3, <1>4, <2>3
  <2>5. Cardinality(I2) \in Nat
    <3>1. I2 \in SUBSET (1 .. m)
      BY <1>3
    <3>2. QED
      BY <1>1, <3>1, PositionsFinite
  <2> HIDE DEF I, I2
  <2>6. Cardinality(I) = Cardinality({}) + Cardinality(I2)
    <3>1. e \in Seq(Message) /\ l \in Seq(Message)
      BY <1>1
    <3>2. Splits(I, {}, I2, n, m)
      BY <2>1, <2>2, <2>4 DEF Splits
    <3>3. QED
      BY <3>1, <3>2, KeepConcat DEF n, m
  <2>7. Cardinality(I) = Cardinality(I2)
    BY <2>5, <2>6, FS_EmptySet
  <2>8. QED
    BY <2>7 DEF CountFrom, I, I2
<1> HIDE DEF c2
<1> DEFINE N == NewestAt(e \o l, slots)
           N1 == NewestAt(e, slots - c2)
           N2 == NewestAt(l, slots)
<1>9. /\ N = {i \in C : CountFrom(C, i) <= slots} /\ N1 = {i \in C1 : CountFrom(C1, i) <= slots - c2}
      /\ N2 = {i \in C2 : CountFrom(C2, i) <= slots}
  BY DEF NewestAt, C, C1, C2
<1> HIDE DEF N, N1, N2
<1>10. N1 \in SUBSET (1 .. n) /\ \A i \in 1 .. n : i \in N1 <=> i \in N
  <2>1. \A i \in 1 .. n : i \in N1 <=> i \in N
    <3> SUFFICES ASSUME NEW i \in C1 PROVE i \in N1 <=> i \in N
      BY <1>4, <1>9
    <3>1. i \in C
      BY <1>3, <1>4
    <3>2. CountFrom(C, i) <= slots <=> CountFrom(C1, i) <= slots - c2
      BY <1>6, <1>7
    <3>3. QED
      BY <1>9, <3>1, <3>2
  <2>2. N1 \subseteq 1 .. n
    BY <1>3, <1>9
  <2>3. QED
    BY <2>1, <2>2
<1>11. N2 \in SUBSET (1 .. m) /\ \A j \in 1 .. m : j \in N2 <=> n + j \in N
  <2>1. \A j \in 1 .. m : j \in N2 <=> n + j \in N
    <3> SUFFICES ASSUME NEW j \in C2 PROVE j \in N2 <=> n + j \in N
      BY <1>4, <1>9
    <3>1. n + j \in C
      BY <1>3, <1>4
    <3>2. QED
      BY <1>8, <1>9, <3>1
  <2>2. N2 \subseteq 1 .. m
    BY <1>3, <1>9
  <2>3. QED
    BY <2>1, <2>2
<1>12. N \in SUBSET (1 .. n + m)
  BY <1>3, <1>9
<1>13. KeepPositions(e \o l, N) = KeepPositions(e, N1) \o KeepPositions(l, N2)
  <2>1. e \in Seq(Message) /\ l \in Seq(Message)
    BY <1>1
  <2>2. Splits(N, N1, N2, n, m)
    BY <1>10, <1>11, <1>12 DEF Splits
  <2>3. QED
    BY <2>1, <2>2, KeepConcat DEF n, m
<1>14. NewestPart(e \o l, slots) = NewestPart(e, slots - c2) \o NewestPart(l, slots)
  BY <1>13 DEF NewestPart, N, N1, N2
<1>15. QED
  BY <1>5, <1>14 DEF c2, C2, S

\* A history without a conversation, and one that is nothing else.
LEMMA PartsAlone ==
    ASSUME NEW h \in History, NEW slots \in Int
    PROVE  /\ Conversation(h) = {} => SystemPart(h) = h /\ NewestPart(h, slots) = <<>>
           /\ SystemPositions(h) = {} => SystemPart(h) = <<>> /\ Conversation(h) = 1 .. Len(h)
<1>1. h \in Seq(Message) /\ DOMAIN h = 1 .. Len(h)
  BY PositionsType
<1>2. KeepPositions(h, 1 .. Len(h)) = h /\ KeepPositions(h, {}) = <<>>
  BY <1>1, KeepAllOrNone
<1>3. ASSUME Conversation(h) = {} PROVE SystemPart(h) = h /\ NewestPart(h, slots) = <<>>
  <2>1. SystemPositions(h) = 1 .. Len(h)
    BY <1>1, <1>3 DEF Conversation, SystemPositions
  <2>2. NewestAt(h, slots) = {}
    BY <1>3 DEF NewestAt
  <2>3. QED
    BY <1>2, <2>1, <2>2 DEF SystemPart, NewestPart
<1>4. ASSUME SystemPositions(h) = {} PROVE SystemPart(h) = <<>> /\ Conversation(h) = 1 .. Len(h)
  BY <1>1, <1>2, <1>4 DEF SystemPart, Conversation
<1>5. QED
  BY <1>3, <1>4

\* The parts of a history have one kind of messages each.
LEMMA PartsAreOfAKind ==
    ASSUME NEW h \in History, NEW slots \in Int
    PROVE  Conversation(SystemPart(h)) = {} /\ SystemPositions(NewestPart(h, slots)) = {}
<1>1. h \in Seq(Message) /\ DOMAIN h = 1 .. Len(h)
  BY PositionsType
<1>2. SystemPositions(h) \in SUBSET DOMAIN h /\ NewestAt(h, slots) \in SUBSET DOMAIN h
  BY <1>1, PartsType DEF SystemPositions
<1>3. \A i \in SystemPositions(h) : IsSystem(h[i])
  BY DEF SystemPositions
<1>4. \A i \in NewestAt(h, slots) : ~IsSystem(h[i])
  BY DEF SystemPositions, NewestAt, Conversation
<1>5. Conversation(SystemPart(h)) = {}
  <2>1. /\ SystemPart(h) \in Seq(Message) /\ Len(SystemPart(h)) = Cardinality(SystemPositions(h))
        /\ \A k \in 1 .. Cardinality(SystemPositions(h)) : SystemPart(h)[k] \in {h[i] : i \in SystemPositions(h)}
    BY <1>1, <1>2, KeepPositionsType DEF SystemPart
  <2>2. \A k \in 1 .. Len(SystemPart(h)) : IsSystem(SystemPart(h)[k])
    BY <1>3, <2>1
  <2>3. DOMAIN SystemPart(h) = 1 .. Len(SystemPart(h))
    BY <2>1, LenProperties
  <2>4. QED
    BY <2>2, <2>3 DEF Conversation, SystemPositions
<1>6. SystemPositions(NewestPart(h, slots)) = {}
  <2> DEFINE B == NewestPart(h, slots)
             N == NewestAt(h, slots)
  <2>1. B \in Seq(Message) /\ Len(B) = Cardinality(N) /\ \A k \in 1 .. Cardinality(N) : B[k] \in {h[i] : i \in N}
    BY <1>1, <1>2, KeepPositionsType DEF NewestPart
  <2>2. \A k \in 1 .. Len(B) : ~IsSystem(B[k])
    BY <1>4, <2>1
  <2>3. DOMAIN B = 1 .. Len(B)
    BY <2>1, LenProperties
  <2>4. QED
    BY <2>2, <2>3 DEF SystemPositions
<1>7. QED
  BY <1>5, <1>6

\* An upper end of a set of positions is counted from above like the set.
LEMMA UpperEndCounts ==
    ASSUME NEW n \in Nat, NEW I \in SUBSET (1 .. n), NEW slots \in Nat,
           NEW N \in SUBSET I, \A i \in I : i \in N <=> CountFrom(I, i) <= slots, NEW i \in N
    PROVE  CountFrom(N, i) = CountFrom(I, i)
<1>1. \A r \in I : i < r => r \in N
  <2>1. CountFrom(I, i) <= slots /\ i \in I
    OBVIOUS
  <2>2. QED
    BY <2>1, NewestIsUpperEnd
<1>2. \A r \in I : r >= i => r \in N
  <2> SUFFICES ASSUME NEW r \in I, r >= i PROVE r \in N
    OBVIOUS
  <2>1. i \in Int /\ r \in Int
    OBVIOUS
  <2>2. i < r \/ r = i
    BY <2>1
  <2>3. QED
    BY <1>1, <2>2
<1>3. {r \in N : r >= i} = {r \in I : r >= i}
  BY <1>2
<1>4. QED
  BY <1>3 DEF CountFrom

\* What is newest of the newest is newest.
LEMMA NewestOfNewest ==
    ASSUME NEW h \in History, NEW slots \in Nat, NEW fewer \in Int, fewer <= slots,
           NEW c, c = SystemPart(h) \o NewestPart(h, slots)
    PROVE  /\ c \in History
           /\ SystemPart(c) = SystemPart(h) /\ NewestPart(c, fewer) = NewestPart(h, fewer)
           /\ Cardinality(SystemPositions(c)) = Cardinality(SystemPositions(h))
<1> DEFINE A == SystemPart(h)
           I == Conversation(h)
           N == NewestAt(h, slots)
           B == NewestPart(h, slots)
           n == Len(h)
           b == Cardinality(N)
<1>1. n \in Nat /\ h \in Seq(Message) /\ I \in SUBSET (1 .. n)
  BY PositionsType
<1>2. A \in History /\ B \in History /\ Len(A) = Cardinality(SystemPositions(h)) /\ Len(B) = b
      /\ N \in SUBSET (1 .. n) /\ b \in Nat
  BY PartsType
<1>3. Conversation(A) = {} /\ SystemPositions(B) = {}
  BY PartsAreOfAKind
<1>4. SystemPart(A) = A /\ (\A k \in Int : NewestPart(A, k) = <<>>) /\ SystemPart(B) = <<>> /\ Conversation(B) = 1 .. b
  BY <1>2, <1>3, PartsAlone
<1>5. B = KeepPositions(h, N) /\ N = {i \in I : CountFrom(I, i) <= slots}
  BY DEF NewestPart, NewestAt
<1> HIDE DEF A, I, N, B, n, b
<1>6. A \in Seq(Message) /\ B \in Seq(Message) /\ c = A \o B
  BY <1>2 DEF History, A, B
<1>7. c \in History
  BY <1>6, ConcatProperties DEF History
<1> DEFINE p == Cardinality(Conversation(B))
<1>8. /\ SystemPart(c) = SystemPart(A) \o SystemPart(B)
      /\ Cardinality(SystemPositions(c)) = Cardinality(SystemPositions(A)) + Cardinality(SystemPositions(B))
      /\ NewestPart(c, fewer) = NewestPart(A, fewer - p) \o NewestPart(B, fewer)
  <2> HIDE DEF p
  <2>1. A \in History /\ B \in History /\ fewer \in Int
    BY <1>2
  <2>2. /\ SystemPart(A \o B) = SystemPart(A) \o SystemPart(B)
        /\ Cardinality(SystemPositions(A \o B)) = Cardinality(SystemPositions(A)) + Cardinality(SystemPositions(B))
        /\ NewestPart(A \o B, fewer) = NewestPart(A, fewer - Cardinality(Conversation(B))) \o NewestPart(B, fewer)
    BY ONLY <2>1, PartsOfConcat
  <2>3. c = A \o B
    BY <1>6
  <2>4. QED
    BY ONLY <2>2, <2>3 DEF p
<1>9. SystemPart(c) = A
  BY <1>4, <1>6, <1>8, ConcatEmptySeq
<1>10. Cardinality(SystemPositions(c)) = Cardinality(SystemPositions(h))
  <2>1. Cardinality(SystemPositions(A)) = Len(A) /\ Len(A) \in Nat
    <3>1. Cardinality(SystemPositions(A)) + Cardinality(Conversation(A)) = Len(A)
          /\ Cardinality(SystemPositions(A)) \in Nat
      BY <1>2, PositionsType
    <3>2. Cardinality(Conversation(A)) = 0
      BY <1>3, FS_EmptySet
    <3>3. QED
      BY <3>1, <3>2
  <2>2. Cardinality(SystemPositions(B)) = 0
    BY <1>3, FS_EmptySet
  <2>3. QED
    BY <1>2, <1>8, <2>1, <2>2, SMTT(30)
<1>11. NewestPart(c, fewer) = NewestPart(B, fewer)
  <2>1. p \in Int /\ fewer - p \in Int
    BY <1>2, PositionsType
  <2>2. NewestPart(A, fewer - p) = <<>>
    BY <1>4, <2>1
  <2>3. NewestPart(B, fewer) \in Seq(Message)
    BY <1>2, PartsType DEF History
  <2>4. QED
    BY <1>8, <2>2, <2>3, ConcatEmptySeq
<1> DEFINE J == NewestAt(B, fewer)
           chosen == {Nth(N, k) : k \in J}
<1>12. J = {k \in 1 .. b : b - k + 1 <= fewer}
  <2>1. ASSUME NEW k \in 1 .. b PROVE CountFrom(1 .. b, k) = b - k + 1
    <3>1. {j \in 1 .. b : j >= k} = k .. b
      BY <1>2
    <3>2. k \in Int /\ b \in Int /\ k <= b + 1
      BY <1>2
    <3>3. Cardinality(k .. b) = b - k + 1
      BY <3>2, IntervalCount
    <3>4. QED
      BY <3>1, <3>3 DEF CountFrom
  <2>2. QED
    BY <1>4, <2>1 DEF NewestAt
<1> HIDE DEF J
<1>13. \A k \in 1 .. b : Nth(N, k) \in N /\ CountFrom(N, Nth(N, k)) = b - k + 1
  BY <1>1, <1>2, NthIsElement, CountFromNth DEF b
<1>14. \A i \in N : CountFrom(N, i) = CountFrom(I, i)
  <2>1. N \in SUBSET I /\ \A i \in I : i \in N <=> CountFrom(I, i) <= slots
    BY <1>5
  <2>2. QED
    BY <1>1, <2>1, UpperEndCounts
<1>15. \A k \in 1 .. b : k \in J <=> CountFrom(I, Nth(N, k)) <= fewer
  BY <1>12, <1>13, <1>14
<1>16. chosen = NewestAt(h, fewer)
  <2>1. ASSUME NEW k \in J PROVE Nth(N, k) \in NewestAt(h, fewer)
    <3>1. k \in 1 .. b
      BY <1>12
    <3>2. Nth(N, k) \in I /\ CountFrom(I, Nth(N, k)) <= fewer
      BY <1>5, <1>13, <1>15, <3>1
    <3>3. QED
      BY <3>2 DEF NewestAt, I
  <2>2. ASSUME NEW i \in NewestAt(h, fewer) PROVE i \in chosen
    <3>1. i \in I /\ CountFrom(I, i) <= fewer
      BY DEF NewestAt, I
    <3>2. CountFrom(I, i) \in Int
      <4> DEFINE above == {j \in I : j >= i}
      <4>1. above \in SUBSET (1 .. n)
        BY <1>1
      <4> HIDE DEF above
      <4>2. Cardinality(above) \in Nat
        BY <1>1, <4>1, PositionsFinite
      <4>3. QED
        BY <4>2 DEF CountFrom, above
    <3>3. CountFrom(I, i) <= slots
      BY <3>1, <3>2
    <3>4. i \in N
      BY <1>5, <3>1, <3>3
    <3> DEFINE k == CountUpTo(N, i)
    <3>5. k \in 1 .. b /\ Nth(N, k) = i
      BY <1>1, <1>2, <3>4, ElementIsNth DEF b
    <3> HIDE DEF k
    <3>6. k \in J
      BY <1>15, <3>1, <3>5
    <3>7. QED
      BY <3>5, <3>6
  <2>3. QED
    BY <2>1, <2>2
<1>17. J \in SUBSET (1 .. b)
  BY <1>12
<1>18. KeepPositions(B, J) = KeepPositions(h, chosen)
  <2>1. h \in Seq(Message) /\ N \in SUBSET (1 .. Len(h)) /\ J \in SUBSET (1 .. Cardinality(N))
    BY <1>1, <1>2, <1>17 DEF b, n
  <2> HIDE DEF chosen
  <2>2. KeepPositions(KeepPositions(h, N), J) = KeepPositions(h, {Nth(N, k) : k \in J})
    BY <2>1, KeepKeep
  <2>3. QED
    BY <1>5, <2>2 DEF chosen
<1>19. NewestPart(B, fewer) = NewestPart(h, fewer)
  BY <1>16, <1>18 DEF NewestPart, J
<1>20. QED
  BY <1>7, <1>9, <1>10, <1>11, <1>19 DEF A

\* No slot is left empty that the conversation could fill.
LEMMA NewestFill ==
    ASSUME NEW h \in History, NEW slots \in Nat, slots <= Cardinality(Conversation(h))
    PROVE  Cardinality(NewestAt(h, slots)) >= slots
<1> DEFINE I == Conversation(h)
           N == NewestAt(h, slots)
           n == Len(h)
           c == Cardinality(I)
           f == [q \in 1 .. slots |-> Nth(I, c - slots + q)]
           S == {f[q] : q \in 1 .. slots}
<1>1. n \in Nat /\ I \in SUBSET (1 .. n) /\ c \in Nat /\ slots <= c
  BY PositionsType
<1>2. N = {i \in I : CountFrom(I, i) <= slots}
  BY DEF NewestAt
<1>3. N \in SUBSET (1 .. n)
  BY PartsType
<1> HIDE DEF I, N, n
<1>4. \A k \in 1 .. c : Nth(I, k) \in I /\ CountFrom(I, Nth(I, k)) = c - k + 1
  BY <1>1, NthIsElement, CountFromNth
<1>5. \A k, l \in 1 .. c : k < l => Nth(I, k) < Nth(I, l)
  BY <1>1, NthOrdered
<1> HIDE DEF c
<1>6. \A q \in 1 .. slots : c - slots + q \in 1 .. c
  BY <1>1
<1>7. \A q \in 1 .. slots : f[q] \in N
  <2> SUFFICES ASSUME NEW q \in 1 .. slots PROVE Nth(I, c - slots + q) \in N
    OBVIOUS
  <2>1. c - slots + q \in 1 .. c /\ c - (c - slots + q) + 1 <= slots
    BY <1>1
  <2>2. QED
    BY <1>2, <1>4, <2>1
<1>8. f \in [1 .. slots -> 1 .. n]
  <2>1. f \in [1 .. slots -> N]
    BY <1>7
  <2> HIDE DEF f
  <2>2. QED
    BY <1>3, <2>1
<1>9. \A q, r \in 1 .. slots : q < r => f[q] < f[r]
  <2> SUFFICES ASSUME NEW q \in 1 .. slots, NEW r \in 1 .. slots, q < r PROVE f[q] < f[r]
    OBVIOUS
  <2>1. c - slots + q < c - slots + r
    BY <1>1
  <2>2. Nth(I, c - slots + q) < Nth(I, c - slots + r)
    BY <1>5, <1>6, <2>1
  <2>3. QED
    BY <2>2
<1>10. S \in SUBSET N
  BY <1>7
<1>11. Cardinality(S) = slots
  <2> HIDE DEF f
  <2>1. QED
    BY <1>1, <1>8, <1>9, IncreasingCount
<1>12. IsFiniteSet(N) /\ Cardinality(N) \in Nat
  BY <1>1, <1>3, PositionsFinite
<1> HIDE DEF S
<1>13. Cardinality(S) <= Cardinality(N)
  BY <1>10, <1>12, FS_Subset
<1>14. QED
  BY <1>11, <1>12, <1>13 DEF N

\* A truncated history is not shorter than the limit.
LEMMA TruncatedIsFull ==
    ASSUME NEW h \in History, Len(h) > MaxMessages
    PROVE  Len(HardTruncate(h)) >= MaxMessages
<1> DEFINE s == Cardinality(SystemPositions(h))
           v == Cardinality(Conversation(h))
           k == Cardinality(NewestAt(h, Room(s)))
<1>1. MaxMessages \in Nat /\ s \in Nat /\ v \in Nat /\ s + v = Len(h) /\ Len(h) \in Nat
  BY HistoryAssumption, PositionsType
<1> HIDE DEF s, v
<1>2. Room(s) \in Nat
  BY <1>1 DEF Room, SaturatingSub
<1>3. SystemPart(h) \in Seq(Message) /\ NewestPart(h, Room(s)) \in Seq(Message) /\ k \in Nat
      /\ Len(SystemPart(h)) = s /\ Len(NewestPart(h, Room(s))) = k
  <2>1. Room(s) \in Int
    BY <1>2
  <2>2. QED
    BY <2>1, PartsType DEF History, s
<1>4. Len(HardTruncate(h)) = s + k
  BY <1>3, TruncationParts, ConcatProperties DEF s
<1>5. CASE s >= MaxMessages
  BY <1>1, <1>3, <1>4, <1>5
<1>6. CASE s < MaxMessages
  <2>1. Room(s) = MaxMessages - s
    BY <1>1, <1>6 DEF Room, SaturatingSub
  <2>2. Room(s) <= v
    BY <1>1, <2>1
  <2>3. k >= Room(s)
    BY <1>2, <2>2, NewestFill DEF v
  <2> HIDE DEF k
  <2>4. QED
    BY <1>1, <1>3, <1>4, <2>1, <2>3
<1>7. QED
  BY <1>1, <1>5, <1>6

(***************************************************************************)
(* hard_truncate_session_messages: a session that is truncated at every    *)
(* request remembers what truncating the whole conversation once would     *)
(* keep, for every limit and every conversation.                           *)
(***************************************************************************)
THEOREM TruncatingAgainLosesNothing ==
    ASSUME NEW e \in History, NEW l \in History
    PROVE  HardTruncate(HardTruncate(e) \o l) = HardTruncate(e \o l)
<1> DEFINE c == HardTruncate(e)
           s == Cardinality(SystemPositions(e))
           t == Cardinality(SystemPositions(l))
           v == Cardinality(Conversation(l))
<1>1. MaxMessages \in Nat
  BY HistoryAssumption
<1>2. CASE Len(e) <= MaxMessages
  BY <1>2 DEF HardTruncate
<1>3. CASE Len(e) > MaxMessages
  <2>1. s \in Nat /\ t \in Nat /\ v \in Nat /\ t + v = Len(l) /\ Len(e) \in Nat
    BY PositionsType
  <2>2. c = SystemPart(e) \o NewestPart(e, Room(s))
    BY <1>3, TruncationParts
  <2> HIDE DEF c, s, t, v
  <2>3. Room(s) \in Nat /\ Room(s + t) \in Nat /\ Room(s + t) - v \in Int /\ Room(s + t) - v <= Room(s)
    BY <1>1, <2>1 DEF Room, SaturatingSub
  <2>4. /\ c \in History /\ SystemPart(c) = SystemPart(e) /\ Cardinality(SystemPositions(c)) = s
        /\ NewestPart(c, Room(s + t) - v) = NewestPart(e, Room(s + t) - v)
    <3> DEFINE slots == Room(s)
               fewer == Room(s + t) - v
    <3>1. slots \in Nat /\ fewer \in Int /\ fewer <= slots /\ c = SystemPart(e) \o NewestPart(e, slots)
      BY <2>2, <2>3
    <3> HIDE DEF slots, fewer
    <3>2. /\ c \in History
          /\ SystemPart(c) = SystemPart(e) /\ NewestPart(c, fewer) = NewestPart(e, fewer)
          /\ Cardinality(SystemPositions(c)) = Cardinality(SystemPositions(e))
      BY <3>1, NewestOfNewest
    <3>3. QED
      BY <3>2 DEF s, fewer
  <2>5. e \in Seq(Message) /\ l \in Seq(Message) /\ c \in Seq(Message)
    BY <2>4 DEF History
  <2>6. /\ e \o l \in History /\ c \o l \in History
        /\ Len(e \o l) = Len(e) + Len(l) /\ Len(c \o l) = Len(c) + Len(l)
    BY <2>5, ConcatProperties DEF History
  <2>7. Len(c) >= MaxMessages /\ Len(c) \in Nat
    BY <1>3, <2>5, TruncatedIsFull, LenProperties DEF c
  <2>8. Cardinality(SystemPositions(e \o l)) = s + t /\ Cardinality(SystemPositions(c \o l)) = s + t
    <3>1. 0 \in Int
      OBVIOUS
    <3>2. QED
      BY <2>4, <3>1, PartsOfConcat DEF s, t
  <2>9. Len(e \o l) > MaxMessages
    BY <1>1, <1>3, <2>1, <2>6
  <2>10. HardTruncate(e \o l)
           = (SystemPart(e) \o SystemPart(l)) \o (NewestPart(e, Room(s + t) - v) \o NewestPart(l, Room(s + t)))
    <3>1. HardTruncate(e \o l) = SystemPart(e \o l) \o NewestPart(e \o l, Room(s + t))
      BY <2>6, <2>8, <2>9, TruncationParts
    <3>2. Room(s + t) \in Int
      BY <2>3
    <3>3. SystemPart(e \o l) = SystemPart(e) \o SystemPart(l)
          /\ NewestPart(e \o l, Room(s + t)) = NewestPart(e, Room(s + t) - v) \o NewestPart(l, Room(s + t))
      BY <3>2, PartsOfConcat DEF v
    <3>4. QED
      BY <3>1, <3>3
  <2>11. CASE Len(c \o l) > MaxMessages
    <3>1. HardTruncate(c \o l) = SystemPart(c \o l) \o NewestPart(c \o l, Room(s + t))
      BY <2>6, <2>8, <2>11, TruncationParts
    <3>2. Room(s + t) \in Int
      BY <2>3
    <3>3. SystemPart(c \o l) = SystemPart(c) \o SystemPart(l)
          /\ NewestPart(c \o l, Room(s + t)) = NewestPart(c, Room(s + t) - v) \o NewestPart(l, Room(s + t))
      BY <2>4, <3>2, PartsOfConcat DEF v
    <3>4. HardTruncate(c \o l) = HardTruncate(e \o l)
      BY <2>4, <2>10, <3>1, <3>3
    <3>5. QED
      BY <3>4 DEF c
  <2>12. CASE ~(Len(c \o l) > MaxMessages)
    <3>1. Len(l) = 0
      BY <1>1, <2>1, <2>6, <2>7, <2>12
    <3>2. l = <<>>
      BY <2>5, <3>1, EmptySeq
    <3>3. c \o l = c /\ e \o l = e
      BY <2>5, <3>2, ConcatEmptySeq
    <3>4. HardTruncate(c \o l) = c \o l
      <4>1. Len(c \o l) <= MaxMessages
        BY <1>1, <2>1, <2>6, <2>7, <2>12
      <4>2. QED
        BY <4>1 DEF HardTruncate
    <3>5. HardTruncate(c \o l) = HardTruncate(e \o l)
      BY <3>3, <3>4 DEF c
    <3>6. QED
      BY <3>5 DEF c
  <2>13. QED
    BY <2>11, <2>12
<1>4. QED
  <2>1. Len(e) \in Nat
    BY PositionsType
  <2>2. QED
    BY <1>1, <1>2, <1>3, <2>1
=============================================================================
