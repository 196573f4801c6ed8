--------------------------- MODULE ContentProofs ----------------------------
(***************************************************************************)
(* What the program keeps of what it is given: the prompt shows the files  *)
(* there are, an export comes back, an init can be repeated, and an answer *)
(* reaches whoever asked and stays in the conversation; for all contents,  *)
(* of every length.  The theorems of MCAlgorithms' invariants follow.      *)
(***************************************************************************)
EXTENDS AlgorithmsProofs

-----------------------------------------------------------------------------
(* What is written and what the prompt shows *)

LEMMA PrefixByElements ==
    ASSUME NEW T, NEW s \in Seq(T), NEW t \in Seq(T), Len(s) <= Len(t), \A i \in 1 .. Len(s) : s[i] = t[i]
    PROVE  IsPrefix(s, t)
<1>1. Len(s) \in Nat /\ Len(t) \in Nat /\ Len(s) \in 0 .. Len(s) /\ Len(s) \in 0 .. Len(t)
  BY LenProperties
<1>2. \A i \in 1 .. Len(s) : s[i] \in T /\ t[i] \in T
  BY ElementOfSeq
<1>3. SubSeq(s, 1, Len(s)) = s
  BY SubSeqFull
<1>4. SubSeq(t, 1, Len(s)) \in Seq(T) /\ Len(SubSeq(t, 1, Len(s))) = Len(s)
  BY <1>1, CutIs
<1>5. \A i \in 1 .. Len(s) : SubSeq(t, 1, Len(s))[i] = t[i]
  <2>1. \A i \in 1 .. Len(s) - 1 + 1 : SubSeq(t, 1, Len(s))[i] = t[1 + i - 1]
    BY <1>1, <1>2, SubSeqProperties
  <2>2. Len(s) - 1 + 1 = Len(s) /\ \A i \in 1 .. Len(s) : 1 + i - 1 = i
    BY <1>1
  <2>3. QED
    BY <2>1, <2>2
<1>6. SubSeq(t, 1, Len(s)) = s
  BY <1>4, <1>5, SeqEqual
<1>7. QED
  BY <1>3, <1>6 DEF IsPrefix

LEMMA ReverseIs ==
    ASSUME NEW T, NEW s \in Seq(T)
    PROVE  Reverse(s) \in Seq(T) /\ Len(Reverse(s)) = Len(s) /\ \A i \in 1 .. Len(s) : Reverse(s)[i] = s[(Len(s) - i) + 1]
<1>1. Len(s) \in Nat
  BY LenProperties
<1>2. \A i \in 1 .. Len(s) : s[(Len(s) - i) + 1] \in T
  <2>1. \A i \in 1 .. Len(s) : (Len(s) - i) + 1 \in 1 .. Len(s)
    BY <1>1
  <2>2. QED
    BY <2>1, ElementOfSeq
<1>3. Reverse(s) \in [1 .. Len(s) -> T]
  BY <1>2 DEF Reverse
<1>4. Reverse(s) \in Seq(T)
  BY <1>1, <1>3, SeqDef
<1>5. DOMAIN Reverse(s) = 1 .. Len(s) /\ DOMAIN Reverse(s) = 1 .. Len(Reverse(s)) /\ Len(Reverse(s)) \in Nat
  BY <1>3, <1>4, LenProperties
<1>6. Len(Reverse(s)) = Len(s)
  BY <1>1, <1>5
<1>7. QED
  BY <1>4, <1>6 DEF Reverse

\* What follows another sequence is a suffix, and what is followed is a prefix.
LEMMA ConcatHasBoth ==
    ASSUME NEW T, NEW s \in Seq(T), NEW t \in Seq(T)
    PROVE  IsPrefix(s, s \o t) /\ IsSuffix(t, s \o t)
<1> DEFINE all == s \o t
<1>1. Len(s) \in Nat /\ Len(t) \in Nat
  BY LenProperties
<1>2. /\ all \in Seq(T) /\ Len(all) = Len(s) + Len(t)
      /\ \A i \in 1 .. Len(s) + Len(t) : all[i] = IF i <= Len(s) THEN s[i] ELSE t[i - Len(s)]
  BY ConcatProperties
<1> HIDE DEF all
<1>3. IsPrefix(s, all)
  <2>1. Len(s) <= Len(all) /\ \A i \in 1 .. Len(s) : s[i] = all[i]
    BY <1>1, <1>2
  <2>2. QED
    BY <1>2, <2>1, PrefixByElements
<1>4. IsSuffix(t, all)
  <2> DEFINE r == Reverse(t)
             a == Reverse(all)
  <2>1. /\ r \in Seq(T) /\ Len(r) = Len(t) /\ \A i \in 1 .. Len(t) : r[i] = t[(Len(t) - i) + 1]
        /\ a \in Seq(T) /\ Len(a) = Len(all) /\ \A i \in 1 .. Len(all) : a[i] = all[(Len(all) - i) + 1]
    BY <1>2, ReverseIs
  <2> HIDE DEF r, a
  <2>2. Len(r) <= Len(a)
    BY <1>1, <1>2, <2>1
  <2>3. \A i \in 1 .. Len(r) : r[i] = a[i]
    <3> SUFFICES ASSUME NEW i \in 1 .. Len(r) PROVE r[i] = a[i]
      OBVIOUS
    <3>1. /\ i \in 1 .. Len(t) /\ i \in 1 .. Len(all) /\ (Len(all) - i) + 1 \in 1 .. Len(s) + Len(t)
          /\ ~((Len(all) - i) + 1 <= Len(s)) /\ (Len(all) - i) + 1 - Len(s) = (Len(t) - i) + 1
      BY <1>1, <1>2, <2>1
    <3>2. a[i] = all[(Len(all) - i) + 1] /\ r[i] = t[(Len(t) - i) + 1]
      BY <2>1, <3>1
    <3>3. all[(Len(all) - i) + 1] = t[(Len(all) - i) + 1 - Len(s)]
      <4> DEFINE j == (Len(all) - i) + 1
      <4>1. j \in 1 .. Len(s) + Len(t) /\ ~(j <= Len(s))
        BY <3>1
      <4> HIDE DEF j
      <4>2. all[j] = t[j - Len(s)]
        BY <1>2, <4>1
      <4>3. QED
        BY <4>2 DEF j
    <3>4. QED
      BY <3>1, <3>2, <3>3
  <2>4. IsPrefix(r, a)
    BY <2>1, <2>2, <2>3, PrefixByElements
  <2>5. QED
    BY <2>4 DEF IsSuffix, r, a
<1>5. QED
  BY <1>3, <1>4 DEF all

LEMMA SequencesEndThemselves ==
    ASSUME NEW T, NEW s \in Seq(T)
    PROVE  IsSuffix(s, s)
<1>1. <<>> \in Seq(T) /\ <<>> \o s = s
  BY EmptySeq, ConcatEmptySeq
<1>2. QED
  BY <1>1, ConcatHasBoth

LEMMA PrefixesCompose ==
    ASSUME NEW T, NEW t \in Seq(T), NEW u \in Seq(T), NEW size \in 0 .. Len(t)
    PROVE  IsPrefix(SubSeq(t, 1, size), t \o u)
<1>1. Len(t) \in Nat /\ Len(u) \in Nat /\ size \in Nat
  BY LenProperties
<1>2. SubSeq(t, 1, size) \in Seq(T) /\ Len(SubSeq(t, 1, size)) = size
  BY CutIs
<1>3. /\ t \o u \in Seq(T) /\ Len(t \o u) = Len(t) + Len(u)
      /\ \A i \in 1 .. Len(t) + Len(u) : (t \o u)[i] = IF i <= Len(t) THEN t[i] ELSE u[i - Len(t)]
  BY ConcatProperties
<1>4. \A i \in 1 .. size : SubSeq(t, 1, size)[i] = t[i]
  <2>1. \A i \in 1 .. size : t[i] \in T
    BY <1>1, ElementOfSeq
  <2>2. \A i \in 1 .. size - 1 + 1 : SubSeq(t, 1, size)[i] = t[1 + i - 1]
    BY <1>1, <2>1, SubSeqProperties
  <2>3. size - 1 + 1 = size /\ \A i \in 1 .. size : 1 + i - 1 = i
    BY <1>1
  <2>4. QED
    BY <2>2, <2>3
<1> DEFINE cut == SubSeq(t, 1, size)
           all == t \o u
<1> HIDE DEF cut, all
<1>5. Len(cut) <= Len(all) /\ \A i \in 1 .. Len(cut) : cut[i] = all[i]
  BY <1>1, <1>2, <1>3, <1>4 DEF cut, all
<1>6. IsPrefix(cut, all)
  BY <1>2, <1>3, <1>5, PrefixByElements DEF cut, all
<1>7. QED
  BY <1>6 DEF cut, all

\* What join_memory_append makes of a text and what is added to it.
JoinKeeps(existing, addition, joined) ==
    /\ existing # <<>> => /\ IsSuffix(<<"newline">> \o addition, joined)
                          /\ \A size \in 0 .. Len(existing) : IsPrefix(SubSeq(existing, 1, size), joined)
    /\ IsSuffix(addition, joined)
    /\ IsBlankText(joined) => IsBlankText(addition)

LEMMA JoinIs ==
    ASSUME NEW T, "newline" \in T, NEW existing \in Seq(T), NEW addition \in Seq(T)
    PROVE  JoinAppend(existing, addition) \in Seq(T) /\ JoinKeeps(existing, addition, JoinAppend(existing, addition))
<1> DEFINE line == <<"newline">>
           gap == IF Last(existing) = "newline" THEN <<>> ELSE line
<1>1. line \in Seq(T) /\ <<>> \in Seq(T)
  BY ShortSeqs, EmptySeq, Zenon
<1>2. gap \in Seq(T)
  BY <1>1
<1>3. CASE existing = <<>>
  <2>1. JoinAppend(existing, addition) = addition
    BY <1>3 DEF JoinAppend
  <2>2. QED
    BY <1>3, <2>1, SequencesEndThemselves DEF JoinKeeps
<1>4. CASE existing # <<>>
  <2> DEFINE joined == ((existing \o gap) \o line) \o addition
             rest == (gap \o line) \o addition
  <2>1. JoinAppend(existing, addition) = joined
    BY <1>4 DEF JoinAppend
  <2> HIDE DEF line, gap
  <2>2. existing \o gap \in Seq(T) /\ (existing \o gap) \o line \in Seq(T) /\ gap \o line \in Seq(T) /\ line \o addition \in Seq(T)
    BY <1>1, <1>2, ConcatProperties
  <2>3. joined \in Seq(T) /\ rest \in Seq(T)
    BY <2>2, ConcatProperties
  <2>4. joined = (existing \o gap) \o (line \o addition)
    BY <1>1, <2>2, ConcatAssociative, SMTT(40)
  <2>5. joined = existing \o rest
    <3>1. (existing \o gap) \o line = existing \o (gap \o line)
      BY <1>1, <1>2, ConcatAssociative
    <3> DEFINE middle == gap \o line
    <3>2. middle \in Seq(T)
      BY <2>2
    <3> HIDE DEF middle
    <3>3. (existing \o middle) \o addition = existing \o (middle \o addition)
      BY <3>2, ConcatAssociative
    <3>4. QED
      BY <3>1, <3>3 DEF middle
  <2>6. IsSuffix(line \o addition, joined)
    BY <2>2, <2>4, ConcatHasBoth
  <2>7. IsSuffix(addition, joined)
    BY <2>2, ConcatHasBoth
  <2>8. \A size \in 0 .. Len(existing) : IsPrefix(SubSeq(existing, 1, size), joined)
    BY <2>3, <2>5, PrefixesCompose
  <2>9. ASSUME IsBlankText(joined) PROVE IsBlankText(addition)
    <3> DEFINE before == (existing \o gap) \o line
    <3>1. before \in Seq(T) /\ Len(before) \in Nat /\ Len(addition) \in Nat /\ DOMAIN addition = 1 .. Len(addition)
      BY <2>2, LenProperties
    <3> HIDE DEF before
    <3>2. Len(before \o addition) = Len(before) + Len(addition) /\ before \o addition \in Seq(T)
          /\ \A i \in 1 .. Len(before) + Len(addition) :
                (before \o addition)[i] = IF i <= Len(before) THEN before[i] ELSE addition[i - Len(before)]
      BY <3>1, ConcatProperties
    <3>3. DOMAIN (before \o addition) = 1 .. Len(before) + Len(addition)
      BY <3>2, LenProperties
    <3>4. \A i \in 1 .. Len(addition) : /\ Len(before) + i \in 1 .. Len(before) + Len(addition)
                                        /\ ~(Len(before) + i <= Len(before)) /\ Len(before) + i - Len(before) = i
      BY <3>1
    <3>5. \A i \in 1 .. Len(addition) : (before \o addition)[Len(before) + i] = addition[i]
      BY <3>2, <3>4
    <3>6. IsBlankText(before \o addition)
      BY <2>9 DEF before
    <3>7. QED
      BY <3>1, <3>3, <3>4, <3>5, <3>6 DEF IsBlankText
  <2> HIDE DEF joined
  <2>10. JoinKeeps(existing, addition, joined)
    BY <2>6, <2>7, <2>8, <2>9 DEF JoinKeeps, line
  <2>11. QED
    BY <2>1, <2>3, <2>10
<1>5. QED
  BY <1>3, <1>4

\* What is read of an entry.
CanBeRead(entry) == Resolves(entry) /\ entry.kind \notin {"garbled", "closed"}

LEMMA LoadIs ==
    ASSUME NEW entry
    PROVE  /\ LoadPromptFile(entry).failed <=> ~CanBeRead(entry)
           /\ LoadPromptFile(entry).value =
                 IF CanBeRead(entry) /\ entry.kind = "file" /\ ~IsBlankText(entry.text)
                 THEN {Truncated(entry.text, PromptMax)} ELSE {}
           /\ LoadHeartbeatMessage(entry).value # {} => Resolves(entry) /\ entry.kind = "file"
<1> DEFINE shows == entry.kind = "file" /\ ~IsBlankText(entry.text)
           whole == WholeText(entry)
<1>1. {text \in {entry.text} : entry.kind = "file" /\ ~IsBlankText(text)} = IF shows THEN {entry.text} ELSE {}
  OBVIOUS
<1>2. whole = IF ~CanBeRead(entry) THEN [failed |-> TRUE, value |-> {}]
              ELSE [failed |-> FALSE, value |-> IF shows THEN {entry.text} ELSE {}]
  BY <1>1 DEF WholeText, CanBeRead, Failure, Result
<1>3. LoadPromptFile(entry) = [whole EXCEPT !.value = {Truncated(text, PromptMax) : text \in @}]
  BY DEF LoadPromptFile
<1> HIDE DEF shows
<1>4. CASE ~CanBeRead(entry)
  <2>1. whole = [failed |-> TRUE, value |-> {}]
    BY <1>2, <1>4
  <2> HIDE DEF whole
  <2>2. LoadPromptFile(entry) = [failed |-> TRUE, value |-> {}]
    BY <1>3, <2>1
  <2>3. QED
    BY <1>4, <2>1, <2>2 DEF LoadHeartbeatMessage, whole
<1>5. CASE CanBeRead(entry)
  <2>1. whole = [failed |-> FALSE, value |-> IF shows THEN {entry.text} ELSE {}]
    BY <1>2, <1>5
  <2> HIDE DEF whole
  <2>2. LoadPromptFile(entry) = [failed |-> FALSE, value |-> IF shows THEN {Truncated(entry.text, PromptMax)} ELSE {}]
    <3>1. CASE shows
      <4>1. whole = [failed |-> FALSE, value |-> {entry.text}]
        BY <2>1, <3>1
      <4>2. {Truncated(text, PromptMax) : text \in {entry.text}} = {Truncated(entry.text, PromptMax)}
        OBVIOUS
      <4>3. QED
        BY <1>3, <3>1, <4>1, <4>2
    <3>2. CASE ~shows
      <4>1. whole = [failed |-> FALSE, value |-> {}]
        BY <2>1, <3>2
      <4>2. {Truncated(text, PromptMax) : text \in {}} = {}
        OBVIOUS
      <4>3. QED
        BY <1>3, <3>2, <4>1, <4>2
    <3>3. QED
      BY <3>1, <3>2
  <2>3. LoadPromptFile(entry).failed = FALSE /\ LoadPromptFile(entry).value = IF shows THEN {Truncated(entry.text, PromptMax)} ELSE {}
    BY <2>2
  <2>4. LoadHeartbeatMessage(entry).value # {} => shows
    BY <2>1 DEF LoadHeartbeatMessage, whole
  <2>5. QED
    BY <1>5, <2>3, <2>4 DEF shows, CanBeRead
<1>6. QED
  BY <1>4, <1>5

LEMMA BytesAreNat ==
    ASSUME NEW T, NEW text \in Seq(T)
    PROVE  BytesOf(text) \in Nat
<1>1. Len(text) \in 0 .. Len(text)
  BY LenProperties
<1>2. QED
  BY <1>1, BytesAre DEF BytesOf

LEMMA PrefixOfItself ==
    ASSUME NEW T, NEW text \in Seq(T), NEW size \in 0 .. Len(text)
    PROVE  IsPrefix(SubSeq(text, 1, size), text)
<1>1. <<>> \in Seq(T) /\ text \o <<>> = text
  BY EmptySeq, ConcatEmptySeq
<1>2. IsPrefix(SubSeq(text, 1, size), text \o <<>>)
  BY <1>1, PrefixesCompose
<1>3. QED
  BY <1>1, <1>2

\* What a write leaves, if it is not refused.
LEMMA WrittenIs ==
    ASSUME NEW entry, NEW content, NEW replace, NEW limits, NEW new \in WriteFile(entry, content, replace, limits).value
    PROVE  /\ new = Entry("file", NewContents(entry, content, replace))
           /\ \A limit \in limits : ~(BytesOf(NewContents(entry, content, replace)) > limit)
<1> DEFINE refused == \/ WriteRefused(entry, replace)
                      \/ \E limit \in limits : BytesOf(NewContents(entry, content, replace)) > limit
           written == Entry("file", NewContents(entry, content, replace))
<1>1. WriteFile(entry, content, replace, limits) = IF refused THEN Failure ELSE Result({written})
  BY DEF WriteFile
<1> HIDE DEF refused, written
<1>2. ~refused
  BY <1>1 DEF Failure
<1>3. new \in {written}
  BY <1>1, <1>2 DEF Result
<1>4. QED
  BY <1>2, <1>3 DEF refused, written

LEMMA NewContentsAre ==
    ASSUME NEW K, NEW T, "newline" \in T, NEW entry \in EntriesOf(K, T), NEW content \in Seq(T), NEW replace \in BOOLEAN
    PROVE  /\ NewContents(entry, content, replace) \in Seq(T)
           /\ IsSuffix(content, NewContents(entry, content, replace))
           /\ IsBlankText(NewContents(entry, content, replace)) => IsBlankText(content)
<1>1. entry.text \in Seq(T)
  BY DEF EntriesOf
<1>2. CASE replace \/ entry.kind = "missing"
  <2>1. NewContents(entry, content, replace) = content
    BY <1>2 DEF NewContents
  <2>2. QED
    BY <2>1, SequencesEndThemselves
<1>3. CASE ~(replace \/ entry.kind = "missing")
  <2>1. NewContents(entry, content, replace) = JoinAppend(entry.text, content)
    BY <1>3 DEF NewContents
  <2>2. JoinAppend(entry.text, content) \in Seq(T) /\ JoinKeeps(entry.text, content, JoinAppend(entry.text, content))
    BY <1>1, JoinIs
  <2>3. QED
    BY <2>1, <2>2 DEF JoinKeeps
<1>4. QED
  BY <1>2, <1>3

(***************************************************************************)
(* For every limit, file and text: what memory_write has accepted is in    *)
(* the next prompt as a whole, after all that the prompt showed of the     *)
(* file before and apart from it by an empty line (MemoryWriteTool and     *)
(* load_prompt_file, memory.rs).                                           *)
(***************************************************************************)
THEOREM AcceptedAlwaysReachesPrompt ==
    ASSUME NEW K, NEW T, "newline" \in T, NEW entry \in EntriesOf(K, T), NEW content \in Seq(T),
           NEW mode \in {"append", "overwrite"}
    PROVE  AcceptedReachesPrompt(entry, content, mode)
<1> DEFINE replace == mode = "overwrite"
           new == NewContents(entry, content, replace)
           file == Entry("file", new)
           shown == LoadPromptFile(file)
<1>1. PromptMax \in Nat /\ entry.text \in Seq(T)
  BY PromptAssumption DEF EntriesOf
<1>2. /\ new \in Seq(T) /\ IsSuffix(content, new) /\ (IsBlankText(new) => IsBlankText(content))
  BY NewContentsAre
<1>3. file.kind = "file" /\ file.text = new /\ CanBeRead(file)
  BY DEF Entry, CanBeRead, Resolves
<1>4. \A written \in MemoryWrite(entry, content, mode).value : written = file /\ ~(BytesOf(new) > PromptMax)
  BY WrittenIs DEF MemoryWrite
<1>5. ASSUME NEW written \in MemoryWrite(entry, content, mode).value PROVE Truncated(new, PromptMax) = new
  <2>1. ~(BytesOf(new) > PromptMax)
    BY <1>4
  <2> HIDE DEF new
  <2>2. BytesOf(new) <= PromptMax
    BY <1>1, <1>2, <2>1, BytesAreNat
  <2>3. PICK size \in Nat : IsTruncation(new, PromptMax, size)
    BY <1>1, <1>2, TruncatedIs
  <2>4. QED
    BY <1>1, <1>2, <2>2, <2>3, TruncationsAre
<1>6. ~shown.failed /\ shown.value = IF ~IsBlankText(new) THEN {Truncated(new, PromptMax)} ELSE {}
  BY <1>3, LoadIs
<1>7. ASSUME mode = "append", NEW before \in LoadPromptFile(entry).value
      PROVE  IsPrefix(before, new) /\ IsSuffix(<<"newline">> \o content, new)
  <2>1. entry.kind = "file" /\ ~IsBlankText(entry.text) /\ before = Truncated(entry.text, PromptMax)
    BY <1>7, LoadIs
  <2>2. new = JoinAppend(entry.text, content)
    BY <1>7, <2>1 DEF NewContents
  <2>3. entry.text # <<>>
    BY <2>1 DEF IsBlankText
  <2>4. JoinKeeps(entry.text, content, new)
    BY <1>1, <2>2, JoinIs
  <2>5. \E size \in 0 .. Len(entry.text) : before = SubSeq(entry.text, 1, size)
    <3> DEFINE text == entry.text
    <3>1. text \in Seq(T) /\ before = Truncated(text, PromptMax)
      BY <1>1, <2>1
    <3> HIDE DEF text
    <3>2. PICK size \in Nat : IsTruncation(text, PromptMax, size)
      BY <1>1, <3>1, TruncatedIs
    <3>3. QED
      BY <3>1, <3>2 DEF IsTruncation, text
  <2>6. QED
    BY <2>3, <2>4, <2>5 DEF JoinKeeps
<1> HIDE DEF new, file, shown
<1>8. ASSUME NEW written \in MemoryWrite(entry, content, mode).value
      PROVE  /\ ~LoadPromptFile(written).failed
             /\ ~IsBlankText(content) => \E text \in LoadPromptFile(written).value : IsSuffix(content, text)
             /\ mode = "append" => \A before \in LoadPromptFile(entry).value, text \in LoadPromptFile(written).value :
                    IsPrefix(before, text) /\ IsSuffix(<<"newline">> \o content, text)
  <2>1. LoadPromptFile(written) = shown
    BY <1>4 DEF shown
  <2>2. shown.value = IF ~IsBlankText(new) THEN {new} ELSE {}
    BY <1>5, <1>6
  <2>3. ~IsBlankText(content) => \E text \in shown.value : IsSuffix(content, text)
    BY <1>2, <2>2
  <2>4. \A text \in shown.value : text = new
    BY <2>2
  <2>5. QED
    BY <1>6, <1>7, <2>1, <2>3, <2>4
<1>9. QED
  BY <1>8 DEF AcceptedReachesPrompt

(***************************************************************************)
(* A file that grew beyond the limit is cut by less than a character too   *)
(* much, whatever is appended to it (MemoryAppendTool, truncate_utf8).     *)
(***************************************************************************)
THEOREM AppendedIsAlwaysCutLate ==
    ASSUME NEW K, NEW T, "newline" \in T, NEW entry \in EntriesOf(K, T), NEW content \in Seq(T), NEW replace \in BOOLEAN
    PROVE  AppendedIsCutLate(entry, content, replace)
<1> DEFINE contents == NewContents(entry, content, replace)
           file == Entry("file", contents)
<1>1. PromptMax \in Nat /\ contents \in Seq(T)
  BY PromptAssumption, NewContentsAre
<1>2. file.kind = "file" /\ file.text = contents /\ IsFile(file) /\ Resolves(file)
  BY DEF Entry, IsFile, Resolves
<1>3. ASSUME NEW new \in MemoryAppend(entry, content, replace).value PROVE new = file
  BY <1>3, WrittenIs DEF MemoryAppend
<1>4. \A text \in LoadPromptFile(file).value : text = Truncated(contents, PromptMax)
  BY <1>2, LoadIs
<1>5. Inspect(file).value = {BytesOf(contents)}
  <2>1. {BytesOf(e.text) : e \in {x \in {file} : IsFile(x)}} = {BytesOf(contents)}
    BY <1>2
  <2>2. QED
    BY <1>2, <2>1 DEF Inspect, Result
<1> HIDE DEF contents, file
<1>6. PICK size \in Nat : IsTruncation(contents, PromptMax, size)
  BY <1>1, TruncatedIs
<1> DEFINE cut == Truncated(contents, PromptMax)
<1>7. BytesOf(cut) <= PromptMax /\ (cut # contents => BytesOf(cut) + 2 >= PromptMax)
  BY <1>1, <1>6, TruncationsAre
<1>8. IsPrefix(cut, contents)
  BY <1>1, <1>6, PrefixOfItself DEF IsTruncation
<1> HIDE DEF cut
<1>9. QED
  BY <1>2, <1>3, <1>4, <1>5, <1>7, <1>8 DEF AppendedIsCutLate, cut

\* The command line shows what the prompt shows (memory_show_command, main.rs).
LEMMA ShowAlwaysAgrees ==
    ASSUME NEW entry
    PROVE  ShowAgreesWithPrompt(entry)
<1> DEFINE loaded == LoadPromptFile(entry)
           beat == LoadHeartbeatMessage(entry)
<1>1. /\ loaded.failed <=> ~CanBeRead(entry)
      /\ loaded.value # {} <=> CanBeRead(entry) /\ entry.kind = "file" /\ ~IsBlankText(entry.text)
      /\ beat.value # {} => Resolves(entry) /\ entry.kind = "file"
  BY LoadIs
<1> HIDE DEF loaded, beat
<1>2. (Show(entry) = "error" <=> loaded.failed)
  BY <1>1 DEF Show, CanBeRead
<1>3. (Show(entry) = "shown" <=> loaded.value # {})
  BY <1>1 DEF Show, CanBeRead, IsFile
<1>4. ASSUME beat.value # {} PROVE Inspect(entry).value # {}
  <2>1. Resolves(entry) /\ IsFile(entry)
    BY <1>1, <1>4 DEF IsFile
  <2>2. {BytesOf(e.text) : e \in {x \in {entry} : IsFile(x)}} = {BytesOf(entry.text)}
    BY <2>1
  <2>3. QED
    BY <2>1, <2>2 DEF Inspect, Result
<1>5. QED
  BY <1>2, <1>3, <1>4 DEF ShowAgreesWithPrompt, loaded, beat

-----------------------------------------------------------------------------
(* The sections of the prompt *)

PromptSections == {"soul", "user", "memory"}
ShownOf(files, section) == LoadPromptFile(files[section]).value

\* A section of the prompt, which shows a file's text.
SectionsShown(files) == [section : PromptSections, text : UNION {ShownOf(files, section) : section \in PromptSections}]

\* What the prompt has of the first n sections.
PromptHolds(files, n, prompt) ==
    /\ \A m \in 1 .. n : \A text \in ShownOf(files, SectionOrder[m]) :
          [section |-> SectionOrder[m], text |-> text] \in ToSet(prompt)
    /\ \A i \in 1 .. Len(prompt) : /\ prompt[i].text \in ShownOf(files, prompt[i].section)
                                   /\ \E m \in 1 .. n : prompt[i].section = SectionOrder[m]
    /\ \A i, j \in 1 .. Len(prompt) : i < j =>
          \E m, k \in 1 .. n : m < k /\ prompt[i].section = SectionOrder[m] /\ prompt[j].section = SectionOrder[k]

LEMMA SectionOrderIs ==
    /\ SectionOrder \in Seq(PromptSections) /\ Len(SectionOrder) \in Nat
    /\ ToSet(SectionOrder) = {SectionOrder[m] : m \in 1 .. Len(SectionOrder)}
    /\ DOMAIN SectionOrder = 1 .. Len(SectionOrder)
<1>1. "soul" \in PromptSections /\ "user" \in PromptSections /\ "memory" \in PromptSections
  BY DEF PromptSections
<1>2. \A T : \A a, b, c \in T : <<a, b, c>> \in Seq(T)
  OBVIOUS
<1>3. SectionOrder \in Seq(PromptSections)
  BY <1>1, <1>2, Zenon DEF SectionOrder
<1>4. Len(SectionOrder) \in Nat /\ DOMAIN SectionOrder = 1 .. Len(SectionOrder)
  BY <1>3, LenProperties
<1>5. QED
  BY <1>3, <1>4 DEF ToSet

\* A file shows at most one text.
LEMMA ShowsOne ==
    ASSUME NEW files, NEW section, ShownOf(files, section) # {}
    PROVE  ShownOf(files, section) = {CHOOSE text \in ShownOf(files, section) : TRUE}
<1> DEFINE entry == files[section]
           value == ShownOf(files, section)
<1>1. value = IF CanBeRead(entry) /\ entry.kind = "file" /\ ~IsBlankText(entry.text)
              THEN {Truncated(entry.text, PromptMax)} ELSE {}
  BY LoadIs DEF ShownOf
<1>2. PICK text : value = {text}
  BY <1>1
<1> HIDE DEF value
<1>3. (CHOOSE t \in value : TRUE) = text
  BY <1>2
<1>4. QED
  BY <1>2, <1>3 DEF value

\* What a section adds to the prompt.
LEMMA InjectKeeps ==
    ASSUME NEW files, NEW n \in 1 .. Len(SectionOrder), NEW prompt \in Seq(SectionsShown(files)), PromptHolds(files, n - 1, prompt)
    PROVE  LET next == Inject(prompt, SectionOrder[n], LoadPromptFile(files[SectionOrder[n]]))
           IN  next \in Seq(SectionsShown(files)) /\ PromptHolds(files, n, next)
<1> DEFINE section == SectionOrder[n]
           value == ShownOf(files, section)
           next == Inject(prompt, section, LoadPromptFile(files[section]))
           shown == [section |-> section, text |-> CHOOSE text \in value : TRUE]
<1>1. n \in Nat /\ n - 1 \in Nat /\ Len(prompt) \in Nat /\ DOMAIN prompt = 1 .. Len(prompt)
  BY SectionOrderIs, LenProperties
<1>2. section \in PromptSections
  BY SectionOrderIs, ElementOfSeq
<1>3. next = IF value = {} THEN prompt ELSE Append(prompt, shown)
  BY DEF Inject, ShownOf
<1>4. \A i \in 1 .. Len(prompt) : /\ prompt[i].text \in ShownOf(files, prompt[i].section)
                                 /\ \E m \in 1 .. n - 1 : prompt[i].section = SectionOrder[m]
  BY Zenon DEF PromptHolds
<1>5. \A i, j \in 1 .. Len(prompt) : i < j =>
         \E m, k \in 1 .. n - 1 : m < k /\ prompt[i].section = SectionOrder[m] /\ prompt[j].section = SectionOrder[k]
  BY Zenon DEF PromptHolds
<1>6. CASE value = {}
  <2>1. next = prompt
    BY <1>3, <1>6
  <2>2. \A m \in 1 .. n : \A text \in ShownOf(files, SectionOrder[m]) : m \in 1 .. n - 1
    <3>1. \A m \in 1 .. n : m = n \/ m \in 1 .. n - 1
      BY <1>1
    <3>2. QED
      BY <1>6, <3>1
  <2>3. \A m \in 1 .. n - 1 : m \in 1 .. n
    BY <1>1
  <2>4. PromptHolds(files, n, prompt)
    <3>1. \A m \in 1 .. n : \A text \in ShownOf(files, SectionOrder[m]) :
             [section |-> SectionOrder[m], text |-> text] \in ToSet(prompt)
      BY <2>2 DEF PromptHolds
    <3>2. \A i \in 1 .. Len(prompt) : /\ prompt[i].text \in ShownOf(files, prompt[i].section)
                                      /\ \E m \in 1 .. n : prompt[i].section = SectionOrder[m]
      BY <1>4, <2>3, Zenon
    <3>3. \A i, j \in 1 .. Len(prompt) : i < j =>
             \E m, k \in 1 .. n : m < k /\ prompt[i].section = SectionOrder[m] /\ prompt[j].section = SectionOrder[k]
      <4> SUFFICES ASSUME NEW i \in 1 .. Len(prompt), NEW j \in 1 .. Len(prompt), i < j
                   PROVE  \E m, k \in 1 .. n : m < k /\ prompt[i].section = SectionOrder[m] /\ prompt[j].section = SectionOrder[k]
        OBVIOUS
      <4>1. PICK m \in 1 .. n - 1, k \in 1 .. n - 1 :
               m < k /\ prompt[i].section = SectionOrder[m] /\ prompt[j].section = SectionOrder[k]
        BY <1>5
      <4>2. m \in 1 .. n /\ k \in 1 .. n
        BY <2>3
      <4>3. QED
        BY <4>1, <4>2
    <3>4. QED
      BY <3>1, <3>2, <3>3, Zenon DEF PromptHolds
  <2>5. QED
    BY <2>1, <2>4
<1>7. CASE value # {}
  <2> DEFINE all == Append(prompt, shown)
  <2>1. value = {shown.text} /\ shown.section = section
    BY <1>7, ShowsOne
  <2>2. shown \in SectionsShown(files)
    BY <1>2, <2>1 DEF SectionsShown
  <2>3. next = all
    BY <1>3, <1>7
  <2> HIDE DEF shown, next, value
  <2>4. /\ all \in Seq(SectionsShown(files)) /\ Len(all) = Len(prompt) + 1 /\ all[Len(prompt) + 1] = shown
        /\ \A i \in 1 .. Len(prompt) : all[i] = prompt[i]
    BY <2>2, AppendProperties
  <2> HIDE DEF all
  <2>5. DOMAIN all = 1 .. Len(prompt) + 1
    BY <2>4, LenProperties
  <2>6. ToSet(prompt) \subseteq ToSet(all) /\ shown \in ToSet(all)
    <3>1. 1 .. Len(prompt) \subseteq 1 .. Len(prompt) + 1 /\ Len(prompt) + 1 \in 1 .. Len(prompt) + 1
      BY <1>1
    <3>2. QED
      BY <1>1, <2>4, <2>5, <3>1 DEF ToSet
  <2>7. \A m \in 1 .. n : \A text \in ShownOf(files, SectionOrder[m]) :
           [section |-> SectionOrder[m], text |-> text] \in ToSet(all)
    <3> SUFFICES ASSUME NEW m \in 1 .. n, NEW text \in ShownOf(files, SectionOrder[m])
                 PROVE  [section |-> SectionOrder[m], text |-> text] \in ToSet(all)
      OBVIOUS
    <3>1. CASE m = n
      <4>1. text = shown.text
        BY <2>1, <3>1 DEF value
      <4>2. [section |-> SectionOrder[m], text |-> text] = shown
        BY <2>1, <3>1, <4>1 DEF shown
      <4>3. QED
        BY <2>6, <4>2
    <3>2. CASE m # n
      <4>1. m \in 1 .. n - 1
        BY <1>1, <3>2
      <4>2. [section |-> SectionOrder[m], text |-> text] \in ToSet(prompt)
        BY <4>1 DEF PromptHolds
      <4>3. QED
        BY <2>6, <4>2
    <3>3. QED
      BY <3>1, <3>2
  <2>8. \A i \in 1 .. Len(all) : i \in 1 .. Len(prompt) \/ i = Len(prompt) + 1
    BY <1>1, <2>4
  <2>9. 1 .. n - 1 \subseteq 1 .. n /\ n \in 1 .. n /\ \A m \in 1 .. n - 1 : m < n
    BY <1>1
  <2>10. \A i \in 1 .. Len(all) : /\ all[i].text \in ShownOf(files, all[i].section)
                                  /\ \E m \in 1 .. n : all[i].section = SectionOrder[m]
    <3> SUFFICES ASSUME NEW i \in 1 .. Len(all)
                 PROVE  /\ all[i].text \in ShownOf(files, all[i].section)
                        /\ \E m \in 1 .. n : all[i].section = SectionOrder[m]
      OBVIOUS
    <3>1. CASE i \in 1 .. Len(prompt)
      <4>1. all[i] = prompt[i]
        BY <2>4, <3>1
      <4>2. \A m \in 1 .. n - 1 : m \in 1 .. n
        BY <2>9
      <4>3. QED
        BY <1>4, <3>1, <4>1, <4>2, Zenon
    <3>2. CASE i = Len(prompt) + 1
      BY <2>1, <2>4, <2>9, <3>2 DEF value
    <3>3. QED
      BY <2>8, <3>1, <3>2
  <2>11. \A i, j \in 1 .. Len(all) : i < j =>
            \E m, k \in 1 .. n : m < k /\ all[i].section = SectionOrder[m] /\ all[j].section = SectionOrder[k]
    <3> SUFFICES ASSUME NEW i \in 1 .. Len(all), NEW j \in 1 .. Len(all), i < j
                 PROVE  \E m, k \in 1 .. n : m < k /\ all[i].section = SectionOrder[m] /\ all[j].section = SectionOrder[k]
      OBVIOUS
    <3>1. i \in 1 .. Len(prompt) /\ all[i] = prompt[i]
      BY <1>1, <2>4, <2>8
    <3>2. CASE j \in 1 .. Len(prompt)
      <4>1. all[j] = prompt[j]
        BY <2>4, <3>2
      <4>2. \A m \in 1 .. n - 1 : m \in 1 .. n
        BY <2>9
      <4>3. PICK m \in 1 .. n - 1, k \in 1 .. n - 1 :
               m < k /\ prompt[i].section = SectionOrder[m] /\ prompt[j].section = SectionOrder[k]
        BY <1>5, <3>1, <3>2
      <4>4. m \in 1 .. n /\ k \in 1 .. n
        BY <4>2
      <4>5. QED
        BY <3>1, <4>1, <4>3, <4>4
    <3>3. CASE j = Len(prompt) + 1
      <4>1. PICK m \in 1 .. n - 1 : prompt[i].section = SectionOrder[m]
        BY <3>1 DEF PromptHolds
      <4>2. all[j].section = SectionOrder[n]
        BY <2>1, <2>4, <3>3
      <4>3. QED
        BY <2>9, <3>1, <4>1, <4>2
    <3>4. QED
      BY <2>8, <3>2, <3>3
  <2>12. PromptHolds(files, n, all)
    BY <2>7, <2>10, <2>11 DEF PromptHolds
  <2>13. QED
    BY <2>3, <2>4, <2>12 DEF next
<1>8. QED
  BY <1>6, <1>7 DEF next

LEMMA NoPrompt == \A files : PromptHolds(files, 0, <<>>)
<1>1. 1 .. 0 = {} /\ Len(<<>>) = 0
  BY EmptySeq
<1>2. QED
  BY <1>1 DEF PromptHolds

\* The prompt after each section.
LEMMA PromptIs ==
    ASSUME NEW files
    PROVE  /\ PromptUpTo(files)[0] = <<>>
           /\ \A n \in 1 .. Len(SectionOrder) : PromptUpTo(files)[n] = Inject(PromptUpTo(files)[n - 1], SectionOrder[n], LoadPromptFile(files[SectionOrder[n]]))
           /\ \A n \in 0 .. Len(SectionOrder) : PromptUpTo(files)[n] \in {prompt \in Seq(SectionsShown(files)) : PromptHolds(files, n, prompt)}
<1> DEFINE N == Len(SectionOrder)
           S == Seq(SectionsShown(files))
           Solves(f) == f = [n \in 0 .. N |-> IF n = 0 THEN <<>> ELSE Inject(f[n - 1], SectionOrder[n], LoadPromptFile(files[SectionOrder[n]]))]
           step == [p \in (1 .. N) \X S |-> Inject(p[2], SectionOrder[p[1]], LoadPromptFile(files[SectionOrder[p[1]]]))]
           inv == [n \in 0 .. N |-> {prompt \in Seq(SectionsShown(files)) : PromptHolds(files, n, prompt)}]
<1>1. N \in Nat
  BY SectionOrderIs
<1>2. 0 \in 0 .. N /\ \A n \in 1 .. N : n \in 0 .. N /\ n - 1 \in 0 .. N /\ n # 0
  BY <1>1
<1>3. \A n \in 0 .. N : inv[n] \subseteq S
  OBVIOUS
<1>4. <<>> \in inv[0]
  BY <1>2, EmptySeq, NoPrompt
<1>5. \A n \in 1 .. N : \A so \in inv[n - 1] : Inject(so, SectionOrder[n], LoadPromptFile(files[SectionOrder[n]])) \in inv[n]
  BY <1>2, InjectKeeps
<1>6. ASSUME NEW n \in 1 .. N, NEW so \in inv[n - 1] PROVE step[<<n, so>>] = Inject(so, SectionOrder[n], LoadPromptFile(files[SectionOrder[n]]))
  <2> HIDE DEF inv, S
  <2>1. so \in S
    BY <1>2, <1>3
  <2>2. <<n, so>> \in (1 .. N) \X S
    BY <2>1
  <2>3. QED
    BY <2>2
<1> HIDE DEF inv, step, S
<1>7. PICK f \in RunsOf(N, S) : Recurs(f, N, <<>>, step) /\ \A n \in 0 .. N : f[n] \in inv[n]
  <2> HIDE DEF N
  <2>1. ASSUME NEW n \in 1 .. N, NEW so \in inv[n - 1] PROVE step[<<n, so>>] \in inv[n]
    BY <1>5, <1>6
  <2>2. QED
    BY <1>1, <1>3, <1>4, <2>1, KeptRecursion
<1>8. Solves(f)
  <2>1. \A n \in 1 .. N : f[n] = Inject(f[n - 1], SectionOrder[n], LoadPromptFile(files[SectionOrder[n]]))
    BY <1>2, <1>6, <1>7 DEF Recurs
  <2>2. f = [n \in 0 .. N |-> f[n]]
    BY <1>7 DEF RunsOf
  <2>3. \A n \in 0 .. N : n # 0 => n \in 1 .. N
    BY <1>1
  <2>4. f[0] = <<>>
    BY <1>7 DEF Recurs
  <2>5. QED
    BY <2>1, <2>2, <2>3, <2>4
<1> DEFINE run == PromptUpTo(files)
<1>9. run = CHOOSE g : Solves(g)
  BY DEF PromptUpTo
<1> HIDE DEF Solves
<1>10. Solves(run)
  BY <1>8, <1>9
<1> HIDE DEF run
<1>11. \A n \in 0 .. N : run[n] = IF n = 0 THEN <<>> ELSE Inject(run[n - 1], SectionOrder[n], LoadPromptFile(files[SectionOrder[n]]))
  BY <1>10 DEF Solves
<1>12. run[0] = <<>> /\ \A n \in 1 .. N : run[n] = Inject(run[n - 1], SectionOrder[n], LoadPromptFile(files[SectionOrder[n]]))
  BY <1>2, <1>11
<1> DEFINE good == {n \in 0 .. N : run[n] \in inv[n]}
<1>13. 0 \in good
  BY <1>2, <1>4, <1>12
<1>14. \A n \in 0 .. N - 1 : n \in good => n + 1 \in good
  <2> SUFFICES ASSUME NEW n \in 0 .. N - 1, n \in good PROVE n + 1 \in good
    OBVIOUS
  <2>1. n + 1 \in 1 .. N /\ n + 1 \in 0 .. N /\ n + 1 - 1 = n
    BY <1>1
  <2>2. run[n + 1] = Inject(run[n], SectionOrder[n + 1], LoadPromptFile(files[SectionOrder[n + 1]]))
    BY <1>12, <2>1
  <2>3. QED
    BY <1>5, <2>1, <2>2
<1>15. 0 .. N \subseteq good
  <2> HIDE DEF good, N
  <2>1. QED
    BY <1>1, <1>13, <1>14, Reaches
<1>16. \A n \in 0 .. N : run[n] \in {prompt \in Seq(SectionsShown(files)) : PromptHolds(files, n, prompt)}
  BY <1>15 DEF inv
<1>17. QED
  BY <1>12, <1>16 DEF run, N

(***************************************************************************)
(* Whatever the configured paths lead to, no file of the prompt hides      *)
(* another, nothing is in it that no file shows, and the sections are in   *)
(* their order (build_system_prompt_with_skills, lib.rs).                  *)
(***************************************************************************)
THEOREM FilesAlwaysReachPrompt ==
    ASSUME NEW files
    PROVE  FilesReachPrompt(files)
<1> DEFINE prompt == PromptOf(files)
           N == Len(SectionOrder)
<1>1. N \in Nat /\ N \in 0 .. N
  BY SectionOrderIs
<1>2. prompt \in Seq(SectionsShown(files)) /\ PromptHolds(files, N, prompt)
  BY <1>1, PromptIs DEF PromptOf
<1> HIDE DEF prompt
<1>3. DOMAIN prompt = 1 .. Len(prompt)
  BY <1>2, LenProperties
<1>4. \A section \in ToSet(SectionOrder) : \A text \in ShownOf(files, section) :
         [section |-> section, text |-> text] \in ToSet(prompt)
  BY <1>2, SectionOrderIs DEF PromptHolds
<1>5. \A i \in DOMAIN prompt : prompt[i].text \in ShownOf(files, prompt[i].section)
  BY <1>2, <1>3 DEF PromptHolds
<1>6. \A i, j \in DOMAIN prompt : i < j =>
         \E m, n \in DOMAIN SectionOrder : m < n /\ prompt[i].section = SectionOrder[m] /\ prompt[j].section = SectionOrder[n]
  <2>1. DOMAIN SectionOrder = 1 .. N
    BY SectionOrderIs
  <2> HIDE DEF N
  <2>2. \A i, j \in 1 .. Len(prompt) : i < j =>
           \E m, n \in 1 .. N : m < n /\ prompt[i].section = SectionOrder[m] /\ prompt[j].section = SectionOrder[n]
    BY <1>2, Zenon DEF PromptHolds
  <2>3. ASSUME NEW i \in DOMAIN prompt, NEW j \in DOMAIN prompt, i < j
        PROVE  \E m, n \in DOMAIN SectionOrder :
                  m < n /\ prompt[i].section = SectionOrder[m] /\ prompt[j].section = SectionOrder[n]
    <3>1. i \in 1 .. Len(prompt) /\ j \in 1 .. Len(prompt)
      BY <1>3
    <3>2. PICK m \in 1 .. N, n \in 1 .. N :
             m < n /\ prompt[i].section = SectionOrder[m] /\ prompt[j].section = SectionOrder[n]
      BY <2>2, <2>3, <3>1
    <3>3. m \in DOMAIN SectionOrder /\ n \in DOMAIN SectionOrder
      BY <2>1
    <3>4. QED
      BY <3>2, <3>3
  <2>4. QED
    BY <2>3
<1>7. QED
  BY <1>4, <1>5, <1>6, Zenon DEF FilesReachPrompt, ShownOf, prompt

-----------------------------------------------------------------------------
(* The files of the runs *)

WriteCallIsTyped ==
    Asks("write") => call.entry \in EntriesOf(TextKinds, TextCharacters) /\ call.content \in Seq(TextCharacters)

LEMMA TextsAreTyped ==
    ASSUME NEW L \in SUBSET Nat
    PROVE  Texts(L) \subseteq Seq(TextCharacters) /\ SeqsOf({"a", "wide"}, L) \subseteq Seq(TextCharacters)
<1>1. {"a", "wide"} \subseteq TextCharacters
  BY DEF TextCharacters
<1>2. SeqsOf(TextCharacters, L) \subseteq Seq(TextCharacters) /\ SeqsOf({"a", "wide"}, L) \subseteq Seq(TextCharacters)
  BY <1>1, SeqsAreSeqs
<1>3. QED
  BY <1>2 DEF Texts, TextCharacters

LEMMA WriteCallsAreTyped == Spec => []WriteCallIsTyped
<1>1. Init => WriteCallIsTyped
  BY DEF Init, WriteCallIsTyped, Asks
<1>2. 0 .. 3 \in SUBSET Nat /\ {4} \in SUBSET Nat /\ 0 .. 2 \in SUBSET Nat
  OBVIOUS
<1>3. Texts(0 .. 2) \subseteq Seq(TextCharacters)
  BY <1>2, TextsAreTyped
<1>4. Written \subseteq EntriesOf(TextKinds, TextCharacters)
  <2>1. Texts(0 .. 3) \subseteq Seq(TextCharacters) /\ SeqsOf({"a", "wide"}, {4}) \subseteq Seq(TextCharacters)
    BY <1>2, TextsAreTyped
  <2>2. "file" \in TextKinds
    BY DEF TextKinds
  <2>3. \A text \in Texts(0 .. 3) \cup SeqsOf({"a", "wide"}, {4}) : Entry("file", text) \in EntriesOf(TextKinds, TextCharacters)
    BY <2>1, <2>2, TextInputs
  <2>4. QED
    BY <2>3, TextInputs DEF Written
<1>5. WriteCallIsTyped /\ [Next]_call => WriteCallIsTyped'
  <2> SUFFICES ASSUME WriteCallIsTyped, [Next]_call PROVE WriteCallIsTyped'
    OBVIOUS
  <2>1. CASE FileCalls
    <3>1. CASE \E entry \in Written, content \in Texts(0 .. 2) :
                  call' = [kind |-> "write", entry |-> entry, content |-> content]
      BY <1>3, <1>4, <3>1 DEF WriteCallIsTyped, Asks
    <3>2. CASE \E files \in [{"soul", "user", "memory"} -> Loaded] : call' = [kind |-> "prompt", files |-> files]
      BY <3>2 DEF WriteCallIsTyped, Asks
    <3>3. CASE \E ws \in Workspaces, force \in BOOLEAN, failing \in 1 .. NoFailing, torn \in BOOLEAN :
                  (failing = NoFailing => ~torn) /\
                  call' = [kind |-> "init", ws |-> ws, force |-> force, failing |-> failing, torn |-> torn]
      <4>1. PICK ws \in Workspaces, force \in BOOLEAN, failing \in 1 .. NoFailing, torn \in BOOLEAN :
              call' = [kind |-> "init", ws |-> ws, force |-> force, failing |-> failing, torn |-> torn]
        BY <3>3, Zenon
      <4>2. QED
        BY <4>1 DEF WriteCallIsTyped, Asks
    <3>4. QED
      BY <2>1, <3>1, <3>2, <3>3, Zenon DEF FileCalls
  <2>2. CASE Next /\ ~FileCalls
    BY <2>2, KindsAreOf DEF KindsOf, Next, WriteCallIsTyped, Asks
  <2>3. CASE call' = call
    BY <2>3 DEF WriteCallIsTyped, Asks
  <2>4. QED
    BY <2>1, <2>2, <2>3
<1>6. QED
  BY <1>1, <1>5, PTL DEF Spec

(***************************************************************************)
(* What MCAlgorithms checks of the files of the prompt with small limits   *)
(* holds with every limit, as AcceptedAlwaysReachesPrompt and its          *)
(* neighbours hold of every file and text.                                 *)
(***************************************************************************)
THEOREM MemoryReachesPromptInCalls == Spec => []MemoryReachesPrompt
<1>1. WriteCallIsTyped => MemoryReachesPrompt
  <2> SUFFICES ASSUME WriteCallIsTyped PROVE MemoryReachesPrompt
    OBVIOUS
  <2>1. ASSUME Asks("write")
        PROVE  /\ \A mode \in {"append", "overwrite"} : AcceptedReachesPrompt(call.entry, call.content, mode)
               /\ ShowAgreesWithPrompt(call.entry)
               /\ \A replace \in BOOLEAN : AppendedIsCutLate(call.entry, call.content, replace)
    <3>1. call.entry \in EntriesOf(TextKinds, TextCharacters) /\ call.content \in Seq(TextCharacters)
      BY <2>1 DEF WriteCallIsTyped
    <3>2. "newline" \in TextCharacters
      BY DEF TextCharacters
    <3>3. QED
      BY <3>1, <3>2, AcceptedAlwaysReachesPrompt, AppendedIsAlwaysCutLate, ShowAlwaysAgrees
  <2>2. QED
    BY <2>1, FilesAlwaysReachPrompt DEF MemoryReachesPrompt
<1>2. QED
  BY <1>1, WriteCallsAreTyped, PTL

-----------------------------------------------------------------------------
(* Export and import *)

\* The lines of a body that are each a message of M, or blank or bad.
LinesIn(M) == {Line("message", <<m>>) : m \in M} \cup {Line("blank", <<>>), Line("bad", <<>>)}

\* The lines that are messages, and what the first n of them say.
MessageLines(lines) == {i \in 1 .. Len(lines) : lines[i].kind = "message"}
MessagesInv(M, lines, n) == {said \in Seq(M) : Len(said) = CountUpTo(MessageLines(lines), n)}

LEMMA LinesAreMessages ==
    ASSUME NEW M, NEW lines \in Seq(LinesIn(M)), NEW i \in 1 .. Len(lines)
    PROVE  IF i \in MessageLines(lines) THEN \E m \in M : lines[i].messages = <<m>> ELSE lines[i].messages = <<>>
<1>1. lines[i] \in LinesIn(M)
  BY ElementOfSeq
<1>2. ("blank" = "message") = FALSE /\ ("bad" = "message") = FALSE
  OBVIOUS
<1>3. \/ \E m \in M : lines[i] = Line("message", <<m>>)
      \/ lines[i] = Line("blank", <<>>) \/ lines[i] = Line("bad", <<>>)
  BY <1>1 DEF LinesIn
<1>4. CASE \E m \in M : lines[i] = Line("message", <<m>>)
  BY <1>4 DEF Line, MessageLines
<1>5. CASE lines[i] = Line("blank", <<>>) \/ lines[i] = Line("bad", <<>>)
  BY <1>2, <1>5 DEF Line, MessageLines
<1>6. QED
  BY <1>3, <1>4, <1>5

LEMMA MessagesAdd ==
    ASSUME NEW M, NEW lines \in Seq(LinesIn(M)), NEW n \in 1 .. Len(lines), NEW said \in MessagesInv(M, lines, n - 1)
    PROVE  AddLine(said, lines[n]) \in MessagesInv(M, lines, n)
<1> DEFINE I == MessageLines(lines)
           next == AddLine(said, lines[n])
<1>1. Len(lines) \in Nat /\ I \in SUBSET (1 .. Len(lines)) /\ n \in Nat \ {0}
  BY LenProperties DEF MessageLines
<1>2. /\ CountUpTo(I, n - 1) \in Nat
      /\ CountUpTo(I, n) = IF n \in I THEN CountUpTo(I, n - 1) + 1 ELSE CountUpTo(I, n - 1)
  BY <1>1, CountUpToStep
<1>3. said \in Seq(M) /\ Len(said) = CountUpTo(I, n - 1)
  BY DEF MessagesInv
<1>4. CASE n \in I
  <2>1. PICK m \in M : lines[n].messages = <<m>>
    BY <1>4, LinesAreMessages
  <2>2. <<m>> \in Seq(M) /\ Len(<<m>>) = 1
    OBVIOUS
  <2>3. next \in Seq(M) /\ Len(next) = Len(said) + 1
    BY <1>3, <2>1, <2>2, ConcatProperties DEF AddLine
  <2> HIDE DEF next, I
  <2>4. QED
    BY <1>2, <1>3, <1>4, <2>3 DEF MessagesInv, I, next
<1>5. CASE n \notin I
  <2>1. lines[n].messages = <<>>
    BY <1>5, LinesAreMessages
  <2>2. next = said
    BY <1>3, <2>1 DEF AddLine
  <2> HIDE DEF next, I
  <2>3. QED
    BY <1>2, <1>3, <1>5, <2>2 DEF MessagesInv, I, next
<1>6. QED
  BY <1>4, <1>5

LEMMA MessagesBegin == \A M, lines : <<>> \in MessagesInv(M, lines, 0)
<1> SUFFICES ASSUME NEW M, NEW lines PROVE <<>> \in MessagesInv(M, lines, 0)
  OBVIOUS
<1>1. {j \in MessageLines(lines) : j <= 0} = {}
  BY DEF MessageLines
<1>2. CountUpTo(MessageLines(lines), 0) = 0
  BY <1>1, FS_EmptySet DEF CountUpTo
<1>3. QED
  BY <1>2 DEF MessagesInv

\* What the first lines of a body say.
LEMMA MessagesSoFarAre ==
    ASSUME NEW M, NEW lines \in Seq(LinesIn(M))
    PROVE  /\ MessagesUpTo(lines)[0] = <<>>
           /\ \A n \in 1 .. Len(lines) : MessagesUpTo(lines)[n] = AddLine(MessagesUpTo(lines)[n - 1], lines[n])
           /\ \A n \in 0 .. Len(lines) : MessagesUpTo(lines)[n] \in MessagesInv(M, lines, n)
<1> DEFINE N == Len(lines)
           S == Seq(M)
           Solves(f) == f = [n \in 0 .. N |-> IF n = 0 THEN <<>> ELSE AddLine(f[n - 1], lines[n])]
           step == [p \in (1 .. N) \X S |-> AddLine(p[2], lines[p[1]])]
           inv == [n \in 0 .. N |-> MessagesInv(M, lines, n)]
<1>1. N \in Nat
  BY LenProperties
<1>2. 0 \in 0 .. N /\ \A n \in 1 .. N : n \in 0 .. N /\ n - 1 \in 0 .. N /\ n # 0
  BY <1>1
<1>3. \A n \in 0 .. N : inv[n] \subseteq S
  BY DEF MessagesInv
<1>4. <<>> \in inv[0]
  BY <1>2, MessagesBegin
<1>5. \A n \in 1 .. N : \A so \in inv[n - 1] : AddLine(so, lines[n]) \in inv[n]
  BY <1>2, MessagesAdd
<1>6. ASSUME NEW n \in 1 .. N, NEW so \in inv[n - 1] PROVE step[<<n, so>>] = AddLine(so, lines[n])
  <2> HIDE DEF inv, S
  <2>1. so \in S
    BY <1>2, <1>3
  <2>2. <<n, so>> \in (1 .. N) \X S
    BY <2>1
  <2>3. QED
    BY <2>2
<1> HIDE DEF inv, step, S
<1>7. PICK f \in RunsOf(N, S) : Recurs(f, N, <<>>, step) /\ \A n \in 0 .. N : f[n] \in inv[n]
  <2> HIDE DEF N
  <2>1. ASSUME NEW n \in 1 .. N, NEW so \in inv[n - 1] PROVE step[<<n, so>>] \in inv[n]
    BY <1>5, <1>6
  <2>2. QED
    BY <1>1, <1>3, <1>4, <2>1, KeptRecursion
<1>8. Solves(f)
  <2>1. \A n \in 1 .. N : f[n] = AddLine(f[n - 1], lines[n])
    BY <1>2, <1>6, <1>7 DEF Recurs
  <2>2. f = [n \in 0 .. N |-> f[n]]
    BY <1>7 DEF RunsOf
  <2>3. \A n \in 0 .. N : n # 0 => n \in 1 .. N
    BY <1>1
  <2>4. f[0] = <<>>
    BY <1>7 DEF Recurs
  <2>5. QED
    BY <2>1, <2>2, <2>3, <2>4
<1> DEFINE run == MessagesUpTo(lines)
<1>9. run = CHOOSE g : Solves(g)
  BY DEF MessagesUpTo
<1> HIDE DEF Solves
<1>10. Solves(run)
  BY <1>8, <1>9
<1> HIDE DEF run
<1>11. \A n \in 0 .. N : run[n] = IF n = 0 THEN <<>> ELSE AddLine(run[n - 1], lines[n])
  BY <1>10 DEF Solves
<1>12. run[0] = <<>> /\ \A n \in 1 .. N : run[n] = AddLine(run[n - 1], lines[n])
  BY <1>2, <1>11
<1> DEFINE good == {n \in 0 .. N : run[n] \in inv[n]}
<1>13. 0 \in good
  BY <1>2, <1>4, <1>12
<1>14. \A n \in 0 .. N - 1 : n \in good => n + 1 \in good
  <2> SUFFICES ASSUME NEW n \in 0 .. N - 1, n \in good PROVE n + 1 \in good
    OBVIOUS
  <2>1. n + 1 \in 1 .. N /\ n + 1 \in 0 .. N /\ n + 1 - 1 = n
    BY <1>1
  <2>2. run[n + 1] = AddLine(run[n], lines[n + 1])
    BY <1>12, <2>1
  <2>3. QED
    BY <1>5, <2>1, <2>2
<1>15. 0 .. N \subseteq good
  <2> HIDE DEF good, N
  <2>1. QED
    BY <1>1, <1>13, <1>14, Reaches
<1>16. \A n \in 0 .. N : run[n] \in MessagesInv(M, lines, n)
  BY <1>15 DEF inv
<1>17. QED
  BY <1>12, <1>16 DEF run, N

\* A body without a bad line says as many messages as it has lines that are not blank.
LEMMA EveryLineIsTaken ==
    ASSUME NEW M, NEW lines \in Seq(LinesIn(M)), \A i \in DOMAIN lines : lines[i].kind # "bad"
    PROVE  Len(MessagesOf(lines)) = Cardinality({i \in DOMAIN lines : lines[i].kind # "blank"})
<1> DEFINE N == Len(lines)
           I == MessageLines(lines)
<1>1. N \in Nat /\ DOMAIN lines = 1 .. N
  BY LenProperties
<1>2. MessagesOf(lines) \in MessagesInv(M, lines, N)
  <2>1. \A n \in 0 .. N : MessagesUpTo(lines)[n] \in MessagesInv(M, lines, n)
    BY MessagesSoFarAre
  <2> HIDE DEF N
  <2>2. MessagesUpTo(lines)[N] \in MessagesInv(M, lines, N)
    BY <1>1, <2>1
  <2>3. QED
    BY <2>2 DEF MessagesOf, N
<1>3. {j \in I : j <= N} = {i \in DOMAIN lines : lines[i].kind # "blank"}
  <2>1. ASSUME NEW i \in 1 .. N PROVE lines[i].kind = "message" <=> lines[i].kind # "blank"
    <3>1. lines[i] \in LinesIn(M)
      BY <2>1, ElementOfSeq
    <3>2. lines[i].kind \in {"message", "blank", "bad"}
      BY <3>1 DEF LinesIn, Line
    <3>3. lines[i].kind # "bad"
      BY <1>1, <2>1
    <3>4. QED
      BY <3>2, <3>3
  <2>2. I = {i \in 1 .. N : lines[i].kind # "blank"}
    BY <2>1 DEF MessageLines
  <2>3. QED
    BY <1>1, <2>2
<1>4. QED
  BY <1>2, <1>3 DEF MessagesInv, CountUpTo

\* The lines of an export say the history they are written from.
LEMMA EncodedSaysHistory ==
    ASSUME NEW M, NEW h \in Seq(M)
    PROVE  /\ \A i \in DOMAIN EncodeJsonl(h).lines : EncodeJsonl(h).lines[i].kind # "bad"
           /\ MessagesOf(EncodeJsonl(h).lines) = h
<1> DEFINE N == Len(h)
           lines == [i \in 1 .. N |-> Line("message", <<h[i]>>)]
           so == MessagesUpTo(lines)
           good == {n \in 0 .. N : so[n] = SubSeq(h, 1, n)}
<1>1. N \in Nat /\ DOMAIN h = 1 .. N /\ \A i \in 1 .. N : h[i] \in M
  BY LenProperties, ElementOfSeq
<1>2. EncodeJsonl(h).lines = lines
  BY <1>1 DEF EncodeJsonl, JsonLines, Body
<1>3. \A i \in 1 .. N : Line("message", <<h[i]>>) \in LinesIn(M)
  BY <1>1 DEF LinesIn
<1>4. lines \in Seq(LinesIn(M)) /\ Len(lines) = N
  <2> DEFINE E(i) == Line("message", <<h[i]>>)
  <2> HIDE DEF N, E
  <2>1. \A S : (\A i \in 1 .. N : E(i) \in S) => [i \in 1 .. N |-> E(i)] \in Seq(S) /\ Len([i \in 1 .. N |-> E(i)]) = N
    BY <1>1
  <2>2. QED
    BY <1>3, <2>1 DEF E
<1>5. \A i \in 1 .. N : lines[i].kind = "message" /\ lines[i].messages = <<h[i]>>
  BY DEF Line
<1> HIDE DEF lines
<1>6. so[0] = <<>> /\ \A n \in 1 .. N : so[n] = AddLine(so[n - 1], lines[n])
  BY <1>4, MessagesSoFarAre
<1> HIDE DEF so
<1>7. 0 \in good
  <2>1. SubSeq(h, 1, 0) = <<>> /\ so[0] = <<>>
    BY <1>6
  <2> HIDE DEF N
  <2>2. 0 \in 0 .. N
    BY <1>1
  <2>3. QED
    BY <2>1, <2>2
<1>8. \A n \in 0 .. N - 1 : n \in good => n + 1 \in good
  <2> SUFFICES ASSUME NEW n \in 0 .. N - 1, n \in good PROVE n + 1 \in good
    OBVIOUS
  <2>1. n + 1 \in 1 .. N /\ n + 1 \in 0 .. N /\ n + 1 - 1 = n
    BY <1>1
  <2>2. so[n + 1] = SubSeq(h, 1, n) \o <<h[n + 1]>>
    <3>1. so[n + 1] = AddLine(so[n], lines[n + 1]) /\ lines[n + 1].messages = <<h[n + 1]>>
      BY <1>5, <1>6, <2>1
    <3>2. so[n] = SubSeq(h, 1, n)
      OBVIOUS
    <3>3. QED
      BY <3>1, <3>2 DEF AddLine
  <2>3. SubSeq(h, 1, n) \o <<h[n + 1]>> = SubSeq(h, 1, n + 1)
    BY <1>1, <2>1
  <2>4. QED
    BY <2>1, <2>2, <2>3
<1>9. 0 .. N \subseteq good
  <2> HIDE DEF good, N
  <2>1. QED
    BY <1>1, <1>7, <1>8, Reaches
<1>10. so[N] = h
  BY <1>1, <1>9
<1>11. MessagesOf(lines) = h
  BY <1>4, <1>10 DEF MessagesOf, so
<1>12. \A i \in DOMAIN lines : lines[i].kind # "bad"
  BY <1>1, <1>4, <1>5, LenProperties
<1>13. QED
  BY <1>2, <1>11, <1>12

-----------------------------------------------------------------------------
(* What an import does *)

LEMMA InsertIs ==
    ASSUME NEW sessions, NEW parsed, NEW asked, NEW overwrite
    PROVE  LET done == Insert(sessions, parsed, asked, overwrite)
               id == ResolveId(asked, parsed.id)
           IN  /\ parsed.rejected => done.said = "invalid" /\ done.sessions = sessions
               /\ ~parsed.rejected /\ id \in DOMAIN sessions /\ ~overwrite => done.said = "exists" /\ done.sessions = sessions
               /\ ~parsed.rejected /\ (id \notin DOMAIN sessions \/ overwrite) =>
                     /\ done.said = "imported" /\ done.id = id
                     /\ DOMAIN done.sessions = DOMAIN sessions \cup {id}
                     /\ done.sessions[id] = ImportCompaction(parsed.messages)
                     /\ \A other \in DOMAIN sessions \ {id} : done.sessions[other] = sessions[other]
<1> DEFINE id == ResolveId(asked, parsed.id)
           after == [s \in DOMAIN sessions \cup {id} |-> IF s = id THEN ImportCompaction(parsed.messages) ELSE sessions[s]]
<1>1. CASE parsed.rejected
  BY <1>1 DEF Insert
<1>2. CASE ~parsed.rejected /\ id \in DOMAIN sessions /\ ~overwrite
  BY <1>2 DEF Insert
<1>3. CASE ~parsed.rejected /\ (id \notin DOMAIN sessions \/ overwrite)
  <2>1. Insert(sessions, parsed, asked, overwrite) = [said |-> "imported", id |-> id, sessions |-> after]
    BY <1>3 DEF Insert
  <2>2. /\ DOMAIN after = DOMAIN sessions \cup {id} /\ after[id] = ImportCompaction(parsed.messages)
        /\ \A other \in DOMAIN sessions \ {id} : after[other] = sessions[other]
    OBVIOUS
  <2> HIDE DEF after, id
  <2>3. QED
    BY <1>3, <2>1, <2>2 DEF id
<1>4. QED
  BY <1>1, <1>2, <1>3

\* The imports that ExportComesBack asks for: a new session, one that is to be overwritten, and one that is not.
Takes(done, sessions, id, messages) ==
    /\ done.said = "imported" /\ done.id = id /\ DOMAIN done.sessions = DOMAIN sessions \cup {id}
    /\ done.sessions[id] = ImportCompaction(messages)

LEMMA InsertTakes ==
    ASSUME NEW sessions, NEW parsed, ~parsed.rejected, NEW asked, NEW id, ResolveId(asked, parsed.id) = id
    PROVE  /\ id \notin DOMAIN sessions => Takes(Insert(sessions, parsed, asked, FALSE), sessions, id, parsed.messages)
           /\ Takes(Insert(sessions, parsed, asked, TRUE), sessions, id, parsed.messages)
           /\ id \in DOMAIN sessions => Insert(sessions, parsed, asked, FALSE).said = "exists"
<1> DEFINE after == [s \in DOMAIN sessions \cup {id} |-> IF s = id THEN ImportCompaction(parsed.messages) ELSE sessions[s]]
           done == [said |-> "imported", id |-> id, sessions |-> after]
<1>1. DOMAIN after = DOMAIN sessions \cup {id} /\ after[id] = ImportCompaction(parsed.messages)
  OBVIOUS
<1> HIDE DEF after
<1>2. Takes(done, sessions, id, parsed.messages)
  BY <1>1 DEF Takes
<1>3. id \notin DOMAIN sessions => Insert(sessions, parsed, asked, FALSE) = done
  BY DEF Insert, after
<1>4. Insert(sessions, parsed, asked, TRUE) = done
  BY DEF Insert, after
<1>5. id \in DOMAIN sessions => Insert(sessions, parsed, asked, FALSE).said = "exists"
  BY DEF Insert
<1> HIDE DEF done
<1>6. QED
  BY <1>2, <1>3, <1>4, <1>5

LEMMA InsertRefuses ==
    ASSUME NEW sessions, NEW parsed, parsed.rejected, NEW asked, NEW overwrite
    PROVE  Insert(sessions, parsed, asked, overwrite).said = "invalid"
BY DEF Insert

\* Every body an import can meet is of one kind, and a document is not read as lines.
LEMMA ParsersAre ==
    ASSUME NEW body
    PROVE  /\ body.kind = "lines" => ParseJson(body).rejected
           /\ ParseJsonl(body).rejected <=> ~(body.kind = "lines" /\ \A i \in DOMAIN body.lines : body.lines[i].kind # "bad")
           /\ ParseJson(body).rejected <=> body.kind # "document"
           /\ body.kind = "document" => ParseJson(body) = Parsed(body.id, body.messages)
           /\ ~ParseJsonl(body).rejected => ParseJsonl(body) = Parsed({}, MessagesOf(body.lines))
BY DEF ParseJson, ParseJsonl, Rejected, Parsed

LEMMA RejectedOrNot == \A body : ParseJson(body).rejected \in BOOLEAN /\ ParseJsonl(body).rejected \in BOOLEAN
<1> SUFFICES ASSUME NEW body PROVE ParseJson(body).rejected \in BOOLEAN /\ ParseJsonl(body).rejected \in BOOLEAN
  OBVIOUS
<1>1. Rejected.rejected = TRUE /\ \A id, messages : Parsed(id, messages).rejected = FALSE
  BY DEF Rejected, Parsed
<1>2. ParseJson(body) = Rejected \/ ParseJson(body) = Parsed(body.id, body.messages)
  BY DEF ParseJson
<1>3. ParseJsonl(body) = Rejected \/ ParseJsonl(body) = Parsed({}, MessagesOf(body.lines))
  BY DEF ParseJsonl
<1>4. QED
  BY <1>1, <1>2, <1>3

\* What one import does with the sessions it finds.
ImportedWhole(sessions, body, done, overwrite) ==
    /\ done.said = "imported" =>
          /\ DOMAIN done.sessions = DOMAIN sessions \cup {done.id}
          /\ \A other \in DOMAIN sessions \ {done.id} : done.sessions[other] = sessions[other]
          /\ done.id \in DOMAIN sessions => overwrite
          /\ body.kind = "lines" /\ Cardinality({i \in DOMAIN body.lines : body.lines[i].kind # "blank"}) <= MaxMessages =>
                Len(done.sessions[done.id]) = Cardinality({i \in DOMAIN body.lines : body.lines[i].kind # "blank"})
    /\ done.said # "imported" => done.sessions = sessions

LEMMA InsertIsWhole ==
    ASSUME NEW M, NEW body, body.kind = "lines" => body.lines \in Seq(LinesIn(M)),
           NEW sessions, NEW asked, NEW overwrite \in BOOLEAN, NEW parsed \in {ParseJson(body), ParseJsonl(body)}
    PROVE  ImportedWhole(sessions, body, Insert(sessions, parsed, asked, overwrite), overwrite)
<1> DEFINE done == Insert(sessions, parsed, asked, overwrite)
           id == ResolveId(asked, parsed.id)
           given == Cardinality({i \in DOMAIN body.lines : body.lines[i].kind # "blank"})
<1>1. parsed.rejected \in BOOLEAN
  BY RejectedOrNot
<1>2. CASE parsed.rejected \/ (id \in DOMAIN sessions /\ ~overwrite)
  <2>1. done.said # "imported" /\ done.sessions = sessions
    BY <1>1, <1>2, InsertIs
  <2>2. QED
    BY <2>1 DEF ImportedWhole
<1>3. CASE ~parsed.rejected /\ (id \notin DOMAIN sessions \/ overwrite)
  <2>1. /\ done.said = "imported" /\ done.id = id /\ DOMAIN done.sessions = DOMAIN sessions \cup {id}
        /\ done.sessions[id] = ImportCompaction(parsed.messages)
        /\ \A other \in DOMAIN sessions \ {id} : done.sessions[other] = sessions[other]
    BY <1>3, InsertIs
  <2>2. ASSUME body.kind = "lines", given <= MaxMessages PROVE Len(done.sessions[id]) = given
    <3>1. parsed = ParseJsonl(body) /\ \A i \in DOMAIN body.lines : body.lines[i].kind # "bad"
      BY <1>3, <2>2, ParsersAre
    <3>2. parsed.messages = MessagesOf(body.lines)
      BY <1>3, <3>1, ParsersAre DEF Parsed
    <3>3. Len(parsed.messages) = given
      BY <2>2, <3>1, <3>2, EveryLineIsTaken
    <3>4. ImportCompaction(parsed.messages) = parsed.messages
      BY <2>2, <3>3 DEF ImportCompaction
    <3>5. QED
      BY <2>1, <3>3, <3>4
  <2> HIDE DEF done, given, id
  <2>3. QED
    BY <1>3, <2>1, <2>2 DEF ImportedWhole, given, done
<1>4. QED
  BY <1>1, <1>2, <1>3

(***************************************************************************)
(* Whatever the body, the sessions and the limit of messages, an import    *)
(* takes every line of its body or none and leaves the other sessions      *)
(* alone; and what the server takes, the command takes                     *)
(* (import_session_handler and import_session_into_persist_file, main.rs). *)
(***************************************************************************)
THEOREM ImportsAreAlwaysWhole ==
    ASSUME NEW M, NEW body, body.kind = "lines" => body.lines \in Seq(LinesIn(M)),
           NEW sessions, NEW asked, NEW format, NEW type, NEW overwrite \in BOOLEAN
    PROVE  ImportIsWhole(sessions, body, asked, format, type, overwrite)
<1> DEFINE read == IF WantsJsonImport(format, type) THEN ParseJson(body) ELSE ParseJsonl(body)
           server == Insert(sessions, read, asked, overwrite)
           file == ParseFile(body)
           local == Insert(sessions, file, asked, overwrite)
           command == ImportCommand(Disk("file", sessions), body, asked, overwrite, TRUE)
           failed == ImportCommand(Disk("unreadable", sessions), body, asked, overwrite, FALSE)
<1>1. read \in {ParseJson(body), ParseJsonl(body)} /\ file \in {ParseJson(body), ParseJsonl(body)}
  BY DEF ParseFile
<1>2. ImportSession(sessions, body, asked, format, type, overwrite) = server
  BY DEF ImportSession
<1>3. ~read.rejected => file = read
  BY ParsersAre DEF ParseFile
<1>4. LoadSessions(Disk("file", sessions)) = sessions
  BY DEF LoadSessions, Disk
<1> HIDE DEF read, file
<1>5. ImportedWhole(sessions, body, server, overwrite) /\ ImportedWhole(sessions, body, local, overwrite)
  BY <1>1, InsertIsWhole
<1>6. read.rejected \in BOOLEAN
  BY <1>1, RejectedOrNot
<1>7. server.said # "invalid" => local.said = server.said
  <2>1. read.rejected => server.said = "invalid"
    BY InsertIs
  <2>2. QED
    BY <1>3, <1>6, <2>1
<1> HIDE DEF server, local
<1>8. command = IF local.said # "imported" THEN [said |-> local.said, disk |-> Disk("file", sessions)]
                ELSE [said |-> "imported", id |-> local.id, disk |-> Disk("file", local.sessions)]
  BY <1>4 DEF ImportCommand, local, file
<1>9. /\ command.said = local.said
      /\ local.said = "imported" => command.id = local.id /\ command.disk.sessions = local.sessions
      /\ local.said # "imported" => command.disk.sessions = sessions
  <2> HIDE DEF command
  <2>1. CASE local.said = "imported"
    BY <1>8, <2>1 DEF Disk
  <2>2. CASE local.said # "imported"
    BY <1>8, <2>2 DEF Disk
  <2>3. QED
    BY <2>1, <2>2
<1>10. failed.said # "imported" /\ failed.disk.sessions = sessions
  BY DEF ImportCommand, Disk
<1> HIDE DEF command, failed
<1> DEFINE Whole(said, id, after) ==
             /\ said = "imported" =>
                   /\ DOMAIN after = DOMAIN sessions \cup {id}
                   /\ \A other \in DOMAIN sessions \ {id} : after[other] = sessions[other]
                   /\ id \in DOMAIN sessions => overwrite
                   /\ body.kind = "lines" =>
                         LET given == Cardinality({i \in DOMAIN body.lines : body.lines[i].kind # "blank"})
                         IN  given <= MaxMessages => Len(after[id]) = given
             /\ said # "imported" => after = sessions
<1>11. Whole(server.said, IF server.said = "imported" THEN server.id ELSE "", server.sessions)
  BY <1>5 DEF ImportedWhole
<1>12. Whole(command.said, IF command.said = "imported" THEN command.id ELSE "", command.disk.sessions)
  <2>1. CASE local.said = "imported"
    BY <1>5, <1>9, <2>1 DEF ImportedWhole
  <2>2. CASE local.said # "imported"
    BY <1>5, <1>9, <2>2 DEF ImportedWhole
  <2>3. QED
    BY <2>1, <2>2
<1>13. server.said # "invalid" => command.said = server.said
  BY <1>7, <1>9
<1> HIDE DEF Whole
<1>14. QED
  BY <1>2, <1>10, <1>11, <1>12, <1>13 DEF ImportIsWhole, Whole, command, failed

-----------------------------------------------------------------------------
(* What comes back *)

LEMMA IdsAre ==
    /\ \A own \in {"s1", "s2"} : ResolveId({}, {own}) = own
    /\ ResolveId({}, {}) = NewId
    /\ \A own : ResolveId({"s1"}, own) = "s1" /\ ResolveId({" s1 "}, own) = "s1" /\ ResolveId({"s2"}, own) = "s2"
<1>1. Nonempty({"s1"}) = {"s1"}
  BY DEF Nonempty
<1>2. Nonempty({" s1 "}) = {"s1"}
  BY DEF Nonempty
<1>3. Nonempty({"s2"}) = {"s2"}
  BY DEF Nonempty
<1>4. Nonempty({}) = {}
  BY DEF Nonempty
<1>5. \A x : (CHOOSE id \in {x} : TRUE) = x
  OBVIOUS
<1>6. \A asked, own, x : Nonempty(asked) = {x} => ResolveId(asked, own) = x
  <2> SUFFICES ASSUME NEW asked, NEW own, NEW x, Nonempty(asked) = {x} PROVE ResolveId(asked, own) = x
    OBVIOUS
  <2>1. Nonempty(asked) # {}
    OBVIOUS
  <2>2. QED
    BY <1>5, <2>1 DEF ResolveId
<1>7. \A own, x : Nonempty(own) = {x} => ResolveId({}, own) = x
  BY <1>4, <1>5 DEF ResolveId
<1>8. ResolveId({}, {}) = NewId
  BY <1>4, <1>5 DEF ResolveId
<1>9. \A own \in {"s1", "s2"} : ResolveId({}, {own}) = own
  BY <1>1, <1>3, <1>7
<1>10. \A own : ResolveId({"s1"}, own) = "s1" /\ ResolveId({" s1 "}, own) = "s1" /\ ResolveId({"s2"}, own) = "s2"
  <2> SUFFICES ASSUME NEW own PROVE ResolveId({"s1"}, own) = "s1" /\ ResolveId({" s1 "}, own) = "s1" /\ ResolveId({"s2"}, own) = "s2"
    OBVIOUS
  <2>1. ResolveId({"s1"}, own) = "s1"
    BY <1>1, <1>6
  <2>2. ResolveId({" s1 "}, own) = "s1"
    BY <1>2, <1>6
  <2>3. ResolveId({"s2"}, own) = "s2"
    BY <1>3, <1>6
  <2>4. QED
    BY <2>1, <2>2, <2>3
<1>11. QED
  BY <1>8, <1>9, <1>10

(***************************************************************************)
(* Every history comes back from its export, in either format, by the      *)
(* server and by the command, as what an import keeps of it                *)
(* (export_session_handler and import_session_handler, main.rs).           *)
(***************************************************************************)
THEOREM ExportAlwaysComesBack ==
    ASSUME NEW M, NEW history \in Seq(M)
    PROVE  ExportComesBack(history)
<1> DEFINE sessions == [s \in {"s1"} |-> history]
           Back(done, id) == done.said = "imported" /\ done.id = id /\ done.sessions[id] = ImportCompaction(history)
           Comes(format, body) ==
             LET own == IF format = {} THEN NewId ELSE "s1"
             IN  /\ Back(ImportSession(<<>>, body, {}, format, {}, FALSE), own)
                 /\ Back(ImportSession(sessions, body, {" s1 "}, format, {}, TRUE), "s1")
                 /\ ImportSession(sessions, body, {"s1"}, format, {}, FALSE).said = "exists"
                 /\ ImportSession(sessions, body, {}, {}, JsonTypes, TRUE).said = "invalid" <=> format = {}
                 /\ LET byCommand == ImportCommand(Disk("missing", <<>>), body, {"s2"}, FALSE, TRUE)
                    IN  /\ byCommand.said = "imported"
                        /\ ExportCommand(byCommand.disk, "s2") = {EncodeJsonl(ImportCompaction(history))}
<1>1. DOMAIN sessions = {"s1"} /\ sessions["s1"] = history /\ DOMAIN <<>> = {} /\ "s1" \in DOMAIN sessions
  OBVIOUS
<1> HIDE DEF sessions
\* However it is exported, one parser reads it back, with the id it has or none.
<1>2. ASSUME NEW format, NEW body, NEW own \in {{}, {"s1"}}, own = {} <=> format = {},
             (IF WantsJson(format) THEN ParseJson(body) ELSE ParseJsonl(body)) = Parsed(own, history),
             ParseFile(body) = Parsed(own, history), ParseJson(body).rejected <=> format = {}, ~ParseJson(body).rejected => ParseJson(body) = Parsed(own, history)
      PROVE  Comes(format, body)
  <2> DEFINE parsed == Parsed(own, history)
             Imported(given, asked, overwrite) == Insert(given, parsed, asked, overwrite)
             kept == ImportCompaction(history)
  <2>1. ~parsed.rejected /\ parsed.messages = history /\ parsed.id = own
    BY DEF Parsed
  <2>2. \A given, asked, overwrite : ImportSession(given, body, asked, format, {}, overwrite) = Insert(given, parsed, asked, overwrite)
    BY <1>2 DEF ImportSession, WantsJsonImport
  <2> HIDE DEF parsed
  <2> DEFINE first == ImportSession(<<>>, body, {}, format, {}, FALSE)
             again == ImportSession(sessions, body, {" s1 "}, format, {}, TRUE)
             refused == ImportSession(sessions, body, {"s1"}, format, {}, FALSE)
             misread == ImportSession(sessions, body, {}, {}, JsonTypes, TRUE)
             byCommand == ImportCommand(Disk("missing", <<>>), body, {"s2"}, FALSE, TRUE)
  <2>3. Back(first, IF format = {} THEN NewId ELSE "s1")
    <3> DEFINE new == IF format = {} THEN NewId ELSE "s1"
    <3> DEFINE done == Insert(<<>>, parsed, {}, FALSE)
    <3>1. ResolveId({}, parsed.id) = new
      <4>1. CASE own = {}
        BY <1>2, <2>1, <4>1, IdsAre
      <4>2. CASE own = {"s1"}
        BY <1>2, <2>1, <4>2, IdsAre
      <4>3. QED
        BY <4>1, <4>2
    <3>2. new \notin DOMAIN <<>>
      BY <1>1
    <3> HIDE DEF new
    <3>3. first = done
      BY <2>2, Zenon
    <3>4. Takes(done, <<>>, new, parsed.messages)
      BY <2>1, <3>1, <3>2, InsertTakes, Zenon
    <3> HIDE DEF first, done
    <3>5. QED
      BY <2>1, <3>3, <3>4 DEF Takes, new
  <2>4. Back(again, "s1")
    <3> DEFINE done == Insert(sessions, parsed, {" s1 "}, TRUE)
    <3>1. ResolveId({" s1 "}, parsed.id) = "s1"
      BY IdsAre
    <3>2. again = done
      BY <2>2, Zenon
    <3>3. Takes(done, sessions, "s1", parsed.messages)
      BY <2>1, <3>1, InsertTakes, Zenon
    <3> HIDE DEF again, done
    <3>4. QED
      BY <2>1, <3>2, <3>3 DEF Takes
  <2>5. refused.said = "exists"
    <3>1. ResolveId({"s1"}, parsed.id) = "s1"
      BY IdsAre
    <3>2. refused = Insert(sessions, parsed, {"s1"}, FALSE)
      BY <2>2, Zenon
    <3>3. QED
      BY <1>1, <2>1, <3>1, <3>2, InsertTakes, Zenon
  <2>6. misread.said = "invalid" <=> format = {}
    <3>1. WantsJsonImport({}, JsonTypes)
      BY DEF WantsJsonImport, JsonTypes
    <3>2. misread = Insert(sessions, ParseJson(body), {}, TRUE)
      BY <3>1 DEF ImportSession
    <3> DEFINE read == ParseJson(body)
               done == Insert(sessions, read, {}, TRUE)
    <3>3. misread = done
      BY <3>2, Zenon
    <3>4. read.rejected => done.said = "invalid"
      <4> HIDE DEF read
      <4>1. QED
        BY InsertRefuses, Zenon
    <3>5. ASSUME ~read.rejected PROVE done.said = "imported"
      <4> DEFINE id == ResolveId({}, read.id)
      <4>1. ResolveId({}, read.id) = id
        OBVIOUS
      <4> HIDE DEF id, read
      <4>2. Takes(done, sessions, id, read.messages)
        BY <3>5, <4>1, InsertTakes, Zenon
      <4> HIDE DEF done
      <4>3. QED
        BY <4>2 DEF Takes
    <3>6. read.rejected <=> format = {}
      BY <1>2
    <3> HIDE DEF misread, done, read
    <3>7. QED
      BY <3>3, <3>4, <3>5, <3>6
  <2>7. byCommand.said = "imported" /\ ExportCommand(byCommand.disk, "s2") = {EncodeJsonl(ImportCompaction(history))}
    <3> DEFINE done == Insert(<<>>, parsed, {"s2"}, FALSE)
    <3>1. ResolveId({"s2"}, parsed.id) = "s2" /\ "s2" \notin DOMAIN <<>>
      BY <1>1, IdsAre
    <3>2. Takes(done, <<>>, "s2", parsed.messages)
      BY <2>1, <3>1, InsertTakes, Zenon
    <3>3. LoadSessions(Disk("missing", <<>>)) = <<>> /\ ParseFile(body) = parsed
      BY <1>2 DEF LoadSessions, Disk, parsed
    <3>4. Insert(LoadSessions(Disk("missing", <<>>)), ParseFile(body), {"s2"}, FALSE) = done
      BY <3>3
    <3> HIDE DEF done
    <3>5. done.said = "imported" /\ done.id = "s2" /\ DOMAIN done.sessions = {"s2"}
          /\ done.sessions["s2"] = ImportCompaction(history)
      BY <1>1, <2>1, <3>2 DEF Takes
    <3>6. byCommand = [said |-> "imported", id |-> "s2", disk |-> Disk("file", done.sessions)]
      BY <3>4, <3>5 DEF ImportCommand
    <3> HIDE DEF byCommand
    <3>7. LoadSessions(byCommand.disk) = done.sessions
      BY <3>6 DEF LoadSessions, Disk
    <3>8. ~WantsJson({})
      BY DEF WantsJson
    <3>9. ExportCommand(byCommand.disk, "s2") = {EncodeJsonl(done.sessions["s2"])}
      BY <3>5, <3>7, <3>8 DEF ExportCommand, ExportSession
    <3>10. QED
      BY <3>5, <3>6, <3>9
  <2> HIDE DEF byCommand, first, again, refused, misread, Back
  <2>8. QED
    BY <2>3, <2>4, <2>5, <2>6, <2>7, Zenon DEF byCommand, first, again, refused, misread
<1> HIDE DEF Comes
<1>3. \A format : ExportSession(sessions, "s1", format) =
          {IF WantsJson(format) THEN Document({"s1"}, history) ELSE EncodeJsonl(history)}
  BY <1>1 DEF ExportSession
<1>4. \A body : body = EncodeJsonl(history) => Comes({}, body)
  <2> SUFFICES ASSUME NEW body, body = EncodeJsonl(history) PROVE Comes({}, body)
    OBVIOUS
  <2>1. body.kind = "lines"
    BY DEF EncodeJsonl, JsonLines, Body
  <2>2. ParseJsonl(body) = Parsed({}, history)
    BY <2>1, EncodedSaysHistory DEF ParseJsonl
  <2>3. ParseJson(body).rejected /\ ~WantsJson({})
    BY <2>1, ParsersAre DEF WantsJson
  <2>4. ParseFile(body) = Parsed({}, history)
    BY <2>2, <2>3 DEF ParseFile
  <2>5. QED
    BY <1>2, <2>2, <2>3, <2>4
<1>5. \A format, body : format \in {{"json"}, {"JSON"}} /\ body = Document({"s1"}, history) => Comes(format, body)
  <2> SUFFICES ASSUME NEW format \in {{"json"}, {"JSON"}}, NEW body, body = Document({"s1"}, history) PROVE Comes(format, body)
    OBVIOUS
  <2>1. body.kind = "document" /\ body.id = {"s1"} /\ body.messages = history
    BY DEF Document, Body
  <2>2. ParseJson(body) = Parsed({"s1"}, history) /\ ~ParseJson(body).rejected
    BY <2>1, ParsersAre
  <2>3. WantsJson(format) /\ format # {}
    BY DEF WantsJson
  <2>4. ParseFile(body) = Parsed({"s1"}, history)
    BY <2>2 DEF ParseFile
  <2>5. QED
    BY <1>2, <2>2, <2>3, <2>4
<1>6. ASSUME NEW format \in {{}, {"json"}, {"JSON"}}, NEW body \in ExportSession(sessions, "s1", format) PROVE Comes(format, body)
  <2>1. WantsJson(format) <=> format # {}
    BY DEF WantsJson
  <2>2. QED
    BY <1>3, <1>4, <1>5, <1>6, <2>1
<1>7. QED
  BY <1>6 DEF ExportComesBack, Comes, sessions

-----------------------------------------------------------------------------
(* The transfers of the runs *)

Messages == (UNION {{h[i] : i \in DOMAIN h} : h \in Conversations}) \cup {User, [User EXCEPT !.turn = 2]}

TransferCallIsTyped ==
    /\ Asks("conversation") => call.history \in Seq(Messages)
    /\ Asks("import") => /\ call.body.kind = "lines" => call.body.lines \in Seq(LinesIn(Messages))
                         /\ call.overwrite \in BOOLEAN

LEMMA TransferInputs ==
    /\ Conversations \subseteq Seq(Messages)
    /\ \A body \in Bodies : body.kind = "lines" => body.lines \in Seq(LinesIn(Messages))
<1>1. ASSUME NEW h \in Conversations PROVE h \in Seq(Messages)
  <2> DEFINE R == {"user", "assistant", "system"}
  <2>1. PICK roles \in SeqsOf(R, 0 .. 7) : h = [i \in DOMAIN roles |-> [role |-> roles[i], turn |-> i]]
    BY <1>1 DEF Conversations
  <2>2. roles \in Seq(R)
    <3>1. 0 .. 7 \in SUBSET Nat
      OBVIOUS
    <3>2. QED
      BY <3>1, SeqsAreSeqs
  <2>3. DOMAIN h = 1 .. Len(roles) /\ Len(roles) \in Nat
    BY <2>1, <2>2, LenProperties
  <2>4. \A i \in DOMAIN h : h[i] \in Messages
    BY <1>1 DEF Messages
  <2>5. h = [i \in 1 .. Len(roles) |-> h[i]]
    BY <2>1, <2>3
  <2>6. \A n \in Nat : \A S, f : f = [i \in 1 .. n |-> f[i]] /\ (\A i \in 1 .. n : f[i] \in S) => f \in Seq(S)
    OBVIOUS
  <2>7. QED
    BY <2>3, <2>4, <2>5, <2>6
<1>2. ASSUME NEW body \in Bodies, body.kind = "lines" PROVE body.lines \in Seq(LinesIn(Messages))
  <2>1. User \in Messages /\ [User EXCEPT !.turn = 2] \in Messages
    BY DEF Messages
  <2>2. SomeLines \subseteq LinesIn(Messages)
    BY <2>1 DEF LinesIn, SomeLines
  <2>3. body # Garbled /\ body \notin Documents
    <3>1. Garbled.kind # "lines" /\ \A id, messages : Document(id, messages).kind # "lines"
      BY DEF Garbled, Document, Body
    <3>2. ASSUME body \in Documents PROVE \E id, messages : body = Document(id, messages)
      BY <3>2 DEF Documents
    <3>3. QED
      BY <1>2, <3>1, <3>2
  <2>4. PICK lines \in SeqsOf(SomeLines, 0 .. 3) : body = JsonLines(lines)
    BY <1>2, <2>3 DEF Bodies, LineBodies
  <2>5. body.lines = lines
    BY <2>4 DEF JsonLines, Body
  <2>6. lines \in Seq(LinesIn(Messages))
    <3>1. 0 .. 3 \in SUBSET Nat
      OBVIOUS
    <3>2. QED
      BY <2>2, <3>1, SeqsAreSeqs
  <2>7. QED
    BY <2>5, <2>6
<1>3. QED
  BY <1>1, <1>2

LEMMA TransferCallsAreTyped == Spec => []TransferCallIsTyped
<1>1. Init => TransferCallIsTyped
  BY DEF Init, TransferCallIsTyped, Asks
<1>2. TransferCallIsTyped /\ [Next]_call => TransferCallIsTyped'
  <2> SUFFICES ASSUME TransferCallIsTyped, [Next]_call PROVE TransferCallIsTyped'
    OBVIOUS
  <2>1. CASE HistoryCalls
    <3>1. PICK h \in Conversations : call' = [kind |-> "conversation", history |-> h]
      BY <2>1 DEF HistoryCalls
    <3>2. h \in Seq(Messages)
      BY TransferInputs
    <3>3. QED
      BY <3>1, <3>2 DEF TransferCallIsTyped, Asks
  <2>2. CASE TransferCalls
    <3>1. PICK sessions \in SomeSessions, body \in Bodies, asked \in AtMostOne({"blank", " s1 ", "s3"}),
               format \in AtMostOne({"json"}), type \in BodyTypes, overwrite \in BOOLEAN :
            call' = [kind |-> "import", sessions |-> sessions, body |-> body, asked |-> asked, format |-> format,
                     type |-> type, overwrite |-> overwrite]
      BY <2>2, Zenon DEF TransferCalls
    <3>2. call'.kind = "import" /\ call'.body = body /\ call'.overwrite = overwrite
      BY <3>1
    <3>3. body.kind = "lines" => body.lines \in Seq(LinesIn(Messages))
      BY TransferInputs
    <3>4. QED
      BY <3>2, <3>3 DEF TransferCallIsTyped, Asks
  <2>3. CASE Next /\ ~HistoryCalls /\ ~TransferCalls
    BY <2>3, KindsAreOf DEF KindsOf, Next, TransferCallIsTyped, Asks
  <2>4. CASE call' = call
    BY <2>4 DEF TransferCallIsTyped, Asks
  <2>5. QED
    BY <2>1, <2>2, <2>3, <2>4
<1>3. QED
  BY <1>1, <1>2, PTL DEF Spec

(***************************************************************************)
(* What MCAlgorithms checks of exports and imports holds in every state,   *)
(* whatever the limit of messages and the way histories are compacted, by  *)
(* ExportAlwaysComesBack and ImportsAreAlwaysWhole.                        *)
(***************************************************************************)
THEOREM ExportsComeBackInCalls == Spec => []ExportsComeBack
<1>1. TransferCallIsTyped => ExportsComeBack
  <2> SUFFICES ASSUME TransferCallIsTyped PROVE ExportsComeBack
    OBVIOUS
  <2>1. ASSUME Asks("conversation") PROVE ExportComesBack(call.history)
    BY <2>1, ExportAlwaysComesBack DEF TransferCallIsTyped
  <2>2. ASSUME Asks("import")
        PROVE  ImportIsWhole(call.sessions, call.body, call.asked, call.format, call.type, call.overwrite)
    BY <2>2, ImportsAreAlwaysWhole DEF TransferCallIsTyped
  <2>3. QED
    BY <2>1, <2>2 DEF ExportsComeBack
<1>2. QED
  BY <1>1, TransferCallsAreTyped, PTL

-----------------------------------------------------------------------------
(* Workspaces *)

\* A workspace that does not exist has no files, and one without skills/ has no skills.
IsWorkspace(ws) ==
    /\ ws = [exists |-> ws.exists, files |-> ws.files, hasSkills |-> ws.hasSkills, listable |-> ws.listable, skills |-> ws.skills]
    /\ ws.files = [file \in DefaultFiles |-> ws.files[file]]
    /\ ws.skills = [dir \in DOMAIN ws.skills |-> ws.skills[dir]]
    /\ ws.exists \in BOOLEAN /\ ws.hasSkills \in BOOLEAN
    /\ ~ws.exists => \A file \in DefaultFiles : ws.files[file] = "missing"
    /\ ws.listable \in BOOLEAN
    /\ ~ws.hasSkills => ws.listable /\ DOMAIN ws.skills = {}

\* What the steps in done make of a workspace.
FilesAfter(ws, done) == [file \in DefaultFiles |-> IF file \in done THEN "default" ELSE ws.files[file]]
SkillsAfter(ws, done) ==
    [dir \in DOMAIN ws.skills \cup (done \cap Examples) |->
        IF dir \in done \cap Examples THEN ExampleSkill(dir) ELSE ws.skills[dir]]
AfterSteps(ws, done) ==
    [exists |-> ws.exists \/ "directory" \in done, files |-> FilesAfter(ws, done),
     hasSkills |-> ws.hasSkills \/ "skills" \in done, listable |-> ws.listable, skills |-> SkillsAfter(ws, done)]

DoneBy(n) == {InitSteps[m] : m \in 1 .. n}

LEMMA InitStepsAre ==
    /\ Len(InitSteps) = 8 /\ NoFailing = 9
    /\ InitSteps[1] = "directory" /\ InitSteps[2] = "AGENTS.md" /\ InitSteps[3] = "SOUL.md" /\ InitSteps[4] = "USER.md"
    /\ InitSteps[5] = "MEMORY.md" /\ InitSteps[6] = "skills" /\ InitSteps[7] = "search" /\ InitSteps[8] = "calculator"
BY DEF InitSteps, NoFailing

LEMMA DoneByAll ==
    /\ DoneBy(0) = {}
    /\ \A n \in 1 .. 8 : DoneBy(n) = DoneBy(n - 1) \cup {InitSteps[n]}
    /\ DoneBy(8) = {"directory", "skills"} \cup DefaultFiles \cup Examples
    /\ \A n \in 1 .. 8 : InitSteps[n] \in {"directory", "skills"} \cup DefaultFiles \cup Examples /\ InitSteps[n] \notin DoneBy(n - 1)
<1>1. DoneBy(0) = {} /\ \A n \in 1 .. 8 : DoneBy(n) = DoneBy(n - 1) \cup {InitSteps[n]}
  BY DEF DoneBy
<1>2. 1 .. 8 = {1, 2, 3, 4, 5, 6, 7, 8}
  OBVIOUS
<1>3. DoneBy(8) = {"directory", "skills"} \cup DefaultFiles \cup Examples
  <2>1. DoneBy(8) = {InitSteps[1], InitSteps[2], InitSteps[3], InitSteps[4], InitSteps[5], InitSteps[6], InitSteps[7], InitSteps[8]}
    BY <1>2 DEF DoneBy
  <2>2. QED
    BY <2>1, InitStepsAre DEF DefaultFiles, Examples
<1>4. \A n \in 1 .. 8 : InitSteps[n] \in DoneBy(8)
  BY DEF DoneBy
<1>5. ASSUME NEW n \in 1 .. 8 PROVE InitSteps[n] \notin DoneBy(n - 1)
  <2>1. \A i, j \in 1 .. 8 : i < j => InitSteps[i] # InitSteps[j]
    <3>1. \A i, j \in {1, 2, 3, 4, 5, 6, 7, 8} : i < j => InitSteps[i] # InitSteps[j]
      BY InitStepsAre
    <3>2. QED
      BY <1>2, <3>1
  <2>2. QED
    BY <2>1 DEF DoneBy
<1>6. QED
  BY <1>1, <1>3, <1>4, <1>5

LEMMA AfterNoStep ==
    ASSUME NEW ws, IsWorkspace(ws)
    PROVE  AfterSteps(ws, {}) = ws
<1>1. FilesAfter(ws, {}) = ws.files
  BY DEF FilesAfter, IsWorkspace
<1>2. SkillsAfter(ws, {}) = ws.skills
  BY DEF SkillsAfter, IsWorkspace
<1>3. (ws.exists \/ "directory" \in {}) = ws.exists /\ (ws.hasSkills \/ "skills" \in {}) = ws.hasSkills
  BY DEF IsWorkspace
<1>4. QED
  BY <1>1, <1>2, <1>3 DEF AfterSteps, IsWorkspace

LEMMA StepAfterSteps ==
    ASSUME NEW ws, NEW done, NEW step
    PROVE  StepWhole(AfterSteps(ws, done), step) = AfterSteps(ws, done \cup {step})
<1> DEFINE before == AfterSteps(ws, done)
           more == done \cup {step}
           made == {step} \cap Examples
           E == done \cap Examples
<1>1. /\ before.exists = (ws.exists \/ "directory" \in done) /\ before.hasSkills = (ws.hasSkills \/ "skills" \in done)
      /\ before.files = FilesAfter(ws, done) /\ before.skills = SkillsAfter(ws, done) /\ before.listable = ws.listable
  BY DEF AfterSteps
<1> HIDE DEF before
<1>2. (before.exists \/ step = "directory") = (ws.exists \/ "directory" \in more)
  BY <1>1
<1>3. (before.hasSkills \/ step = "skills") = (ws.hasSkills \/ "skills" \in more)
  BY <1>1
<1>4. [file \in DefaultFiles |-> IF file = step THEN "default" ELSE before.files[file]] = FilesAfter(ws, more)
  BY <1>1 DEF FilesAfter
<1>5. [dir \in DOMAIN before.skills \cup made |-> IF dir \in made THEN ExampleSkill(step) ELSE before.skills[dir]] =
      SkillsAfter(ws, more)
  <2>1. more \cap Examples = E \cup made
    OBVIOUS
  <2>2. DOMAIN before.skills = DOMAIN ws.skills \cup E
        /\ \A dir \in DOMAIN before.skills : before.skills[dir] = IF dir \in E THEN ExampleSkill(dir) ELSE ws.skills[dir]
    BY <1>1 DEF SkillsAfter
  <2>3. \A dir \in made : dir = step
    OBVIOUS
  <2>4. SkillsAfter(ws, more) = [dir \in DOMAIN ws.skills \cup (E \cup made) |->
                                    IF dir \in E \cup made THEN ExampleSkill(dir) ELSE ws.skills[dir]]
    BY <2>1 DEF SkillsAfter
  <2> HIDE DEF E, made
  <2>5. QED
    BY <2>2, <2>3, <2>4
<1>6. StepWhole(before, step) =
        [exists |-> before.exists \/ step = "directory",
         files |-> [file \in DefaultFiles |-> IF file = step THEN "default" ELSE before.files[file]],
         hasSkills |-> before.hasSkills \/ step = "skills", listable |-> before.listable,
         skills |-> [dir \in DOMAIN before.skills \cup made |-> IF dir \in made THEN ExampleSkill(step) ELSE before.skills[dir]]]
  BY DEF StepWhole, StepDone
<1> HIDE DEF made
<1>7. QED
  BY <1>2, <1>3, <1>4, <1>5, <1>6 DEF before, AfterSteps

LEMMA InitBegins == \A ws : IsWorkspace(ws) => ws \in {AfterSteps(ws, DoneBy(0))}
BY DoneByAll, AfterNoStep

LEMMA InitGoesOn ==
    ASSUME NEW ws, IsWorkspace(ws), NEW n \in 1 .. Len(InitSteps), NEW so \in {AfterSteps(ws, DoneBy(n - 1))}
    PROVE  StepWhole(so, InitSteps[n]) \in {AfterSteps(ws, DoneBy(n))}
<1>1. n \in 1 .. 8
  BY InitStepsAre
<1>2. InitSteps[n] \in {"directory", "skills"} \cup DefaultFiles \cup Examples
  BY <1>1, DoneByAll
<1>3. DoneBy(n) = DoneBy(n - 1) \cup {InitSteps[n]}
  BY <1>1, DoneByAll
<1>4. QED
  BY <1>3, StepAfterSteps

\* What the first steps have made.
LEMMA InitSoFarIs ==
    ASSUME NEW ws, IsWorkspace(ws)
    PROVE  /\ InitUpTo(ws)[0] = ws
           /\ \A n \in 1 .. Len(InitSteps) : InitUpTo(ws)[n] = StepWhole(InitUpTo(ws)[n - 1], InitSteps[n])
           /\ \A n \in 0 .. Len(InitSteps) : InitUpTo(ws)[n] \in {AfterSteps(ws, DoneBy(n))}
<1> DEFINE N == Len(InitSteps)
           S == {AfterSteps(ws, DoneBy(m)) : m \in 0 .. Len(InitSteps)}
           Solves(f) == f = [n \in 0 .. N |-> IF n = 0 THEN ws ELSE StepWhole(f[n - 1], InitSteps[n])]
           step == [p \in (1 .. N) \X S |-> StepWhole(p[2], InitSteps[p[1]])]
           inv == [n \in 0 .. N |-> {AfterSteps(ws, DoneBy(n))}]
<1>1. N \in Nat
  BY InitStepsAre
<1>2. 0 \in 0 .. N /\ \A n \in 1 .. N : n \in 0 .. N /\ n - 1 \in 0 .. N /\ n # 0
  BY <1>1
<1>3. \A n \in 0 .. N : inv[n] \subseteq S
  OBVIOUS
<1>4. ws \in inv[0]
  BY <1>2, InitBegins
<1>5. \A n \in 1 .. N : \A so \in inv[n - 1] : StepWhole(so, InitSteps[n]) \in inv[n]
  BY <1>2, InitGoesOn
<1>6. ASSUME NEW n \in 1 .. N, NEW so \in inv[n - 1] PROVE step[<<n, so>>] = StepWhole(so, InitSteps[n])
  <2> HIDE DEF inv, S
  <2>1. so \in S
    BY <1>2, <1>3
  <2>2. <<n, so>> \in (1 .. N) \X S
    BY <2>1
  <2>3. QED
    BY <2>2
<1> HIDE DEF inv, step, S
<1>7. PICK f \in RunsOf(N, S) : Recurs(f, N, ws, step) /\ \A n \in 0 .. N : f[n] \in inv[n]
  <2> HIDE DEF N
  <2>1. ASSUME NEW n \in 1 .. N, NEW so \in inv[n - 1] PROVE step[<<n, so>>] \in inv[n]
    BY <1>5, <1>6
  <2>2. QED
    BY <1>1, <1>3, <1>4, <2>1, KeptRecursion
<1>8. Solves(f)
  <2>1. \A n \in 1 .. N : f[n] = StepWhole(f[n - 1], InitSteps[n])
    BY <1>2, <1>6, <1>7 DEF Recurs
  <2>2. f = [n \in 0 .. N |-> f[n]]
    BY <1>7 DEF RunsOf
  <2>3. \A n \in 0 .. N : n # 0 => n \in 1 .. N
    BY <1>1
  <2>4. f[0] = ws
    BY <1>7 DEF Recurs
  <2>5. QED
    BY <2>1, <2>2, <2>3, <2>4
<1> DEFINE run == InitUpTo(ws)
<1>9. run = CHOOSE g : Solves(g)
  BY DEF InitUpTo
<1> HIDE DEF Solves
<1>10. Solves(run)
  BY <1>8, <1>9
<1> HIDE DEF run
<1>11. \A n \in 0 .. N : run[n] = IF n = 0 THEN ws ELSE StepWhole(run[n - 1], InitSteps[n])
  BY <1>10 DEF Solves
<1>12. run[0] = ws /\ \A n \in 1 .. N : run[n] = StepWhole(run[n - 1], InitSteps[n])
  BY <1>2, <1>11
<1> DEFINE good == {n \in 0 .. N : run[n] \in inv[n]}
<1>13. 0 \in good
  BY <1>2, <1>4, <1>12
<1>14. \A n \in 0 .. N - 1 : n \in good => n + 1 \in good
  <2> SUFFICES ASSUME NEW n \in 0 .. N - 1, n \in good PROVE n + 1 \in good
    OBVIOUS
  <2>1. n + 1 \in 1 .. N /\ n + 1 \in 0 .. N /\ n + 1 - 1 = n
    BY <1>1
  <2>2. run[n + 1] = StepWhole(run[n], InitSteps[n + 1])
    BY <1>12, <2>1
  <2>3. QED
    BY <1>5, <2>1, <2>2
<1>15. 0 .. N \subseteq good
  <2> HIDE DEF good, N
  <2>1. QED
    BY <1>1, <1>13, <1>14, Reaches
<1>16. \A n \in 0 .. N : run[n] \in {AfterSteps(ws, DoneBy(n))}
  BY <1>15 DEF inv
<1>17. QED
  BY <1>12, <1>16 DEF run, N

LEMMA InitUpToIs ==
    ASSUME NEW ws, IsWorkspace(ws), NEW n \in 0 .. 8
    PROVE  InitUpTo(ws)[n] = AfterSteps(ws, DoneBy(n))
<1>1. \A m \in 0 .. Len(InitSteps) : InitUpTo(ws)[m] \in {AfterSteps(ws, DoneBy(m))}
  BY InitSoFarIs
<1>2. QED
  BY <1>1, InitStepsAre

-----------------------------------------------------------------------------
(* An init, whole or cut short *)

AllSteps == {"directory", "skills"} \cup DefaultFiles \cup Examples

\* The workspace that a failed init has changed is still one, and a whole init makes the same of it.
StillSame(ws, after) ==
    /\ IsWorkspace(after) /\ after.listable = ws.listable
    /\ DOMAIN after.skills \cup Examples = DOMAIN ws.skills \cup Examples
    /\ \A dir \in DOMAIN ws.skills \ Examples : after.skills[dir] = ws.skills[dir]

LEMMA SameInTheEnd ==
    ASSUME NEW ws, NEW after, StillSame(ws, after)
    PROVE  AfterSteps(after, AllSteps) = AfterSteps(ws, AllSteps)
<1>1. "directory" \in AllSteps /\ "skills" \in AllSteps /\ AllSteps \cap Examples = Examples /\ DefaultFiles \subseteq AllSteps
  BY DEF AllSteps
<1>2. FilesAfter(after, AllSteps) = FilesAfter(ws, AllSteps)
  BY <1>1 DEF FilesAfter
<1>3. SkillsAfter(after, AllSteps) = SkillsAfter(ws, AllSteps)
  <2> DEFINE all == DOMAIN ws.skills \cup Examples
  <2>1. SkillsAfter(after, AllSteps) = [dir \in all |-> IF dir \in Examples THEN ExampleSkill(dir) ELSE after.skills[dir]]
    BY <1>1 DEF SkillsAfter, StillSame
  <2>2. SkillsAfter(ws, AllSteps) = [dir \in all |-> IF dir \in Examples THEN ExampleSkill(dir) ELSE ws.skills[dir]]
    BY <1>1 DEF SkillsAfter
  <2>3. \A dir \in all : dir \in Examples \/ after.skills[dir] = ws.skills[dir]
    BY DEF StillSame
  <2>4. QED
    BY <2>1, <2>2, <2>3
<1>4. QED
  BY <1>1, <1>2, <1>3 DEF AfterSteps, StillSame

LEMMA StepsKeepWorkspace ==
    ASSUME NEW ws, IsWorkspace(ws), NEW n \in 0 .. 8
    PROVE  StillSame(ws, AfterSteps(ws, DoneBy(n)))
<1> DEFINE done == DoneBy(n)
           after == AfterSteps(ws, done)
           E == done \cap Examples
<1>1. /\ after.exists <=> (ws.exists \/ "directory" \in done)
      /\ after.hasSkills <=> (ws.hasSkills \/ "skills" \in done)
      /\ after.exists \in BOOLEAN /\ after.hasSkills \in BOOLEAN
      /\ after.files = FilesAfter(ws, done) /\ after.skills = SkillsAfter(ws, done)
      /\ after = [exists |-> after.exists, files |-> after.files, hasSkills |-> after.hasSkills,
                 listable |-> after.listable, skills |-> after.skills]
      /\ after.listable = ws.listable
  BY DEF AfterSteps
<1>2. FilesAfter(ws, done) = [file \in DefaultFiles |-> FilesAfter(ws, done)[file]]
  BY DEF FilesAfter
<1>3. /\ DOMAIN SkillsAfter(ws, done) = DOMAIN ws.skills \cup E
      /\ SkillsAfter(ws, done) = [dir \in DOMAIN SkillsAfter(ws, done) |-> SkillsAfter(ws, done)[dir]]
      /\ \A dir \in DOMAIN ws.skills \ E : SkillsAfter(ws, done)[dir] = ws.skills[dir]
  BY DEF SkillsAfter
<1>4. n >= 1 => "directory" \in done
  <2>1. n >= 1 => 1 \in 1 .. n
    OBVIOUS
  <2>2. QED
    BY <2>1, InitStepsAre DEF DoneBy
<1>5. n = 0 => done = {}
  BY DoneByAll
<1>6. n \in 7 .. 8 => "skills" \in done
  <2>1. n \in 7 .. 8 => 6 \in 1 .. n
    OBVIOUS
  <2>2. QED
    BY <2>1, InitStepsAre DEF DoneBy
<1>7. E # {} => n \in 7 .. 8
  <2> SUFFICES ASSUME NEW m \in 1 .. n, InitSteps[m] \in Examples PROVE n \in 7 .. 8
    BY DEF DoneBy
  <2>1. m \in {1, 2, 3, 4, 5, 6, 7, 8}
    OBVIOUS
  <2>2. m \in {7, 8}
    BY <2>1, InitStepsAre DEF Examples
  <2>3. QED
    BY <2>2
<1> HIDE DEF after, done, E
<1>8. ~after.exists => \A file \in DefaultFiles : after.files[file] = "missing"
  <2> SUFFICES ASSUME ~after.exists PROVE \A file \in DefaultFiles : after.files[file] = "missing"
    OBVIOUS
  <2>1. ~ws.exists /\ "directory" \notin done
    BY <1>1
  <2>2. n = 0
    BY <1>4, <2>1
  <2>3. done = {}
    BY <1>5, <2>2
  <2>4. QED
    BY <1>1, <2>1, <2>3 DEF FilesAfter, IsWorkspace
<1>9. ~after.hasSkills => DOMAIN after.skills = {}
  <2> SUFFICES ASSUME ~after.hasSkills PROVE DOMAIN after.skills = {}
    OBVIOUS
  <2>1. ~ws.hasSkills /\ E = {}
    BY <1>1, <1>6, <1>7
  <2>2. QED
    BY <1>1, <1>3, <2>1 DEF IsWorkspace
<1>10. after.exists \in BOOLEAN /\ after.hasSkills \in BOOLEAN
  BY <1>1
<1>11. IsWorkspace(after)
  BY <1>1, <1>2, <1>3, <1>8, <1>9, <1>10 DEF IsWorkspace
<1>12. E \subseteq Examples
  BY DEF E
<1>13. QED
  BY <1>1, <1>3, <1>10, <1>11, <1>12 DEF StillSame, after, done

\* The step that fails may empty its file: a default file, or an example skill.
LEMMA TornIs ==
    ASSUME NEW ws, IsWorkspace(ws), NEW failing \in 1 .. 8, NEW torn \in BOOLEAN
    PROVE  LET before == AfterSteps(ws, DoneBy(failing - 1))
               step == InitSteps[failing]
               after == WorkspaceInit(ws, failing, torn)
           IN  IF torn /\ step \notin {"directory", "skills"} THEN after = StepTorn(before, step) ELSE after = before
<1>1. failing - 1 \in 0 .. 8
  OBVIOUS
<1>2. InitUpTo(ws)[failing - 1] = AfterSteps(ws, DoneBy(failing - 1))
  BY <1>1, InitUpToIs
<1>3. QED
  BY <1>2 DEF WorkspaceInit

LEMMA TornStepIs ==
    ASSUME NEW ws, IsWorkspace(ws), NEW step \in DefaultFiles \cup Examples
    PROVE  LET after == StepTorn(ws, step)
           IN  /\ after.exists = ws.exists /\ after.hasSkills = ws.hasSkills
               /\ after = [exists |-> after.exists, files |-> after.files, hasSkills |-> after.hasSkills,
                          listable |-> after.listable, skills |-> after.skills]
               /\ after.listable = ws.listable
               /\ after.files = [file \in DefaultFiles |-> after.files[file]]
               /\ after.skills = [dir \in DOMAIN after.skills |-> after.skills[dir]]
               /\ step \in DefaultFiles => after.files[step] = "blank" /\ after.skills = ws.skills
               /\ step \in Examples => after.files = ws.files
               /\ DOMAIN after.skills = DOMAIN ws.skills \cup ({step} \cap Examples)
               /\ \A dir \in DOMAIN ws.skills \ Examples : after.skills[dir] = ws.skills[dir]
<1> DEFINE made == {step} \cap Examples
           files == [file \in DefaultFiles |-> IF file = step THEN "blank" ELSE ws.files[file]]
           skills == [dir \in DOMAIN ws.skills \cup made |-> IF dir \in made THEN BlankSkill ELSE ws.skills[dir]]
           after == StepTorn(ws, step)
<1>1. step # "directory" /\ step # "skills" /\ (step \in DefaultFiles => made = {}) /\ (step \in Examples => step \notin DefaultFiles)
  BY DEF DefaultFiles, Examples
<1>2. (ws.exists \/ step = "directory") = ws.exists /\ (ws.hasSkills \/ step = "skills") = ws.hasSkills
  BY <1>1 DEF IsWorkspace
<1>3. after = [exists |-> ws.exists, files |-> files, hasSkills |-> ws.hasSkills, listable |-> ws.listable, skills |-> skills]
  BY <1>2 DEF StepTorn, StepDone
<1>4. files = [file \in DefaultFiles |-> files[file]] /\ (step \in DefaultFiles => files[step] = "blank")
  OBVIOUS
<1>5. step \in Examples => files = ws.files
  BY <1>1 DEF IsWorkspace
<1>6. /\ skills = [dir \in DOMAIN skills |-> skills[dir]] /\ DOMAIN skills = DOMAIN ws.skills \cup made
      /\ \A dir \in DOMAIN ws.skills \ Examples : skills[dir] = ws.skills[dir]
  OBVIOUS
<1>7. step \in DefaultFiles => skills = ws.skills
  BY <1>1 DEF IsWorkspace
<1> HIDE DEF files, skills, after
<1>8. QED
  BY <1>3, <1>4, <1>5, <1>6, <1>7 DEF after

LEMMA FailedInitKeeps ==
    ASSUME NEW ws, IsWorkspace(ws), NEW failing \in 1 .. 8, NEW torn \in BOOLEAN
    PROVE  LET after == WorkspaceInit(ws, failing, torn)
           IN  /\ StillSame(ws, after)
               /\ after.exists <=> (ws.exists \/ failing > 1)
               /\ ~ws.exists => (LoadedFiles(after) # {} <=> (failing > 2 \/ (failing = 2 /\ torn)))
<1> DEFINE done == DoneBy(failing - 1)
           before == AfterSteps(ws, done)
           step == InitSteps[failing]
           after == WorkspaceInit(ws, failing, torn)
<1>1. failing - 1 \in 0 .. 8 /\ failing \in {1, 2, 3, 4, 5, 6, 7, 8}
  OBVIOUS
<1>2. StillSame(ws, before)
  BY <1>1, StepsKeepWorkspace
<1>3. "directory" \in done <=> failing > 1
  <2>1. failing > 1 => 1 \in 1 .. failing - 1
    OBVIOUS
  <2>2. ~(failing > 1) => done = {}
    BY DEF DoneBy
  <2>3. QED
    BY <2>1, <2>2, InitStepsAre DEF DoneBy
<1>4. before.exists <=> (ws.exists \/ failing > 1)
  <2>1. before.exists <=> (ws.exists \/ "directory" \in done)
    BY DEF AfterSteps
  <2> HIDE DEF before, done
  <2>2. QED
    BY <1>3, <2>1
<1>5. before.files = FilesAfter(ws, done)
  BY DEF AfterSteps
<1>6. step \in {"directory", "skills"} \/ step \in DefaultFiles \/ step \in Examples
  BY <1>1, DoneByAll
<1>7. failing > 2 => "AGENTS.md" \in done
  <2>1. failing > 2 => 2 \in 1 .. failing - 1
    OBVIOUS
  <2>2. QED
    BY <2>1, InitStepsAre DEF DoneBy
<1>8. failing <= 2 => done \cap DefaultFiles = {}
  <2> SUFFICES ASSUME failing <= 2, NEW m \in 1 .. failing - 1 PROVE InitSteps[m] \notin DefaultFiles
    BY DEF DoneBy
  <2>1. m = 1
    OBVIOUS
  <2>2. QED
    BY <2>1, InitStepsAre DEF DefaultFiles
<1>9. "AGENTS.md" \in DefaultFiles
  BY DEF DefaultFiles
<1>10. ~ws.exists => \A file \in DefaultFiles : before.files[file] = IF file \in done THEN "default" ELSE "missing"
  BY <1>5 DEF FilesAfter, IsWorkspace
<1>11. ~ws.exists => (LoadedFiles(before) # {} <=> failing > 2)
  BY <1>7, <1>8, <1>9, <1>10 DEF LoadedFiles
<1>12. step \in DefaultFiles => failing >= 2
  BY InitStepsAre DEF DefaultFiles
<1>13. failing = 2 => step = "AGENTS.md"
  BY InitStepsAre
<1> HIDE DEF before, done, step
<1>14. CASE ~torn \/ step \in {"directory", "skills"}
  <2>1. after = before
    BY <1>14, TornIs DEF before, done, step
  <2>2. failing = 2 => ~torn
    BY <1>9, <1>13, <1>14 DEF DefaultFiles
  <2> HIDE DEF after
  <2>3. QED
    BY <1>2, <1>4, <1>11, <2>1, <2>2 DEF after
<1>15. CASE torn /\ step \notin {"directory", "skills"}
  <2>1. after = StepTorn(before, step)
    BY <1>15, TornIs DEF before, done, step
  <2>2. step \in DefaultFiles \cup Examples
    BY <1>6, <1>15
  <2> HIDE DEF after
  <2>3. IsWorkspace(before)
    BY <1>2 DEF StillSame
  <2>4. /\ after.exists = before.exists /\ after.hasSkills = before.hasSkills
        /\ after = [exists |-> after.exists, files |-> after.files, hasSkills |-> after.hasSkills,
                   listable |-> after.listable, skills |-> after.skills]
        /\ after.listable = before.listable
        /\ after.files = [file \in DefaultFiles |-> after.files[file]]
        /\ after.skills = [dir \in DOMAIN after.skills |-> after.skills[dir]]
        /\ step \in DefaultFiles => after.files[step] = "blank" /\ after.skills = before.skills
        /\ step \in Examples => after.files = before.files
        /\ DOMAIN after.skills = DOMAIN before.skills \cup ({step} \cap Examples)
        /\ \A dir \in DOMAIN before.skills \ Examples : after.skills[dir] = before.skills[dir]
    BY <2>1, <2>2, <2>3, TornStepIs
  <2>5. failing >= 2 /\ before.exists
    <3>1. failing # 1
      BY <1>15, InitStepsAre DEF step
    <3>2. QED
      BY <1>4, <3>1
  <2>6. step \in Examples => before.hasSkills /\ failing > 2
    <3> SUFFICES ASSUME step \in Examples PROVE before.hasSkills /\ failing > 2
      OBVIOUS
    <3>1. failing \in {7, 8}
      BY <1>1, InitStepsAre DEF Examples, step
    <3>2. 6 \in 1 .. failing - 1
      BY <3>1
    <3>3. "skills" \in done
      BY <3>2, InitStepsAre DEF done, DoneBy
    <3>4. before.hasSkills <=> (ws.hasSkills \/ "skills" \in done)
      BY DEF before, AfterSteps
    <3>5. failing > 2
      BY <3>1
    <3>6. QED
      BY <3>3, <3>4, <3>5
  <2>7. ~after.hasSkills => DOMAIN after.skills = {}
    BY <2>2, <2>3, <2>4, <2>6 DEF IsWorkspace
  <2>8. IsWorkspace(after)
    BY <2>3, <2>4, <2>5, <2>7 DEF IsWorkspace
  <2>9. StillSame(ws, after)
    <3>1. DOMAIN after.skills \cup Examples = DOMAIN ws.skills \cup Examples
      BY <1>2, <2>4 DEF StillSame
    <3>2. \A dir \in DOMAIN ws.skills \ Examples : after.skills[dir] = ws.skills[dir]
      <4> SUFFICES ASSUME NEW dir \in DOMAIN ws.skills \ Examples PROVE after.skills[dir] = ws.skills[dir]
        OBVIOUS
      <4>1. dir \in DOMAIN before.skills \ Examples /\ before.skills[dir] = ws.skills[dir]
        BY <1>2 DEF StillSame
      <4>2. QED
        BY <2>4, <4>1
    <3>3. after.listable = ws.listable
      BY <1>2, <2>4 DEF StillSame
    <3>4. QED
      BY <2>8, <3>1, <3>2, <3>3 DEF StillSame
  <2>10. step \in DefaultFiles => LoadedFiles(after) # {}
    BY <2>4 DEF LoadedFiles
  <2>11. step \in Examples => LoadedFiles(after) = LoadedFiles(before)
    BY <2>4 DEF LoadedFiles
  <2>12. ~ws.exists => LoadedFiles(after) # {}
    BY <1>11, <2>2, <2>6, <2>10, <2>11
  <2>13. failing > 2 \/ (failing = 2 /\ torn)
    BY <1>15, <2>5
  <2>14. QED
    BY <1>4, <2>4, <2>9, <2>12, <2>13 DEF after
<1>16. QED
  BY <1>14, <1>15

LEMMA WholeInitIs ==
    ASSUME NEW ws, IsWorkspace(ws)
    PROVE  /\ WorkspaceInit(ws, NoFailing, FALSE) = AfterSteps(ws, AllSteps)
           /\ StillSame(ws, AfterSteps(ws, AllSteps))
<1>1. DoneBy(8) = AllSteps /\ NoFailing - 1 = 8
  BY DoneByAll, InitStepsAre DEF AllSteps
<1>2. InitUpTo(ws)[8] = AfterSteps(ws, AllSteps) /\ StillSame(ws, AfterSteps(ws, AllSteps))
  BY <1>1, InitUpToIs, StepsKeepWorkspace
<1>3. QED
  BY <1>1, <1>2 DEF WorkspaceInit

\* What is found in a workspace that an init has gone through.
LEMMA InitLeavesGood ==
    ASSUME NEW ws, IsWorkspace(ws)
    PROVE  LET after == AfterSteps(ws, AllSteps)
           IN  /\ DoctorSaysGood(after)
               /\ \A file \in DefaultFiles : after.files[file] = "default"
               /\ \A skill \in Examples : \E s \in GoodSkills(after) : s.name = skill /\ s.triggers # {}
<1> DEFINE after == AfterSteps(ws, AllSteps)
<1>1. "directory" \in AllSteps /\ AllSteps \cap Examples = Examples /\ DefaultFiles \subseteq AllSteps
  BY DEF AllSteps
<1>2. after.exists = TRUE /\ after.files = FilesAfter(ws, AllSteps) /\ after.skills = SkillsAfter(ws, AllSteps)
  BY <1>1 DEF AfterSteps
<1>3. \A file \in DefaultFiles : after.files[file] = "default"
  BY <1>1, <1>2 DEF FilesAfter
<1>4. DoctorSaysGood(after)
  BY <1>2, <1>3 DEF DoctorSaysGood, LoadedFiles, DefaultFiles
<1>5. \A dir \in Examples : dir \in DOMAIN after.skills /\ after.skills[dir] = ExampleSkill(dir)
  BY <1>1, <1>2 DEF SkillsAfter
<1> HIDE DEF after
<1>6. ASSUME NEW skill \in Examples PROVE \E s \in GoodSkills(after) : s.name = skill /\ s.triggers # {}
  <2> DEFINE file == ExampleSkill(skill)
             s == [path |-> skill, name |-> skill, triggers |-> {"english", "chinese"},
                   description |-> Given({"what it does"}, Described(file))]
  <2>1. file.kind = "text" /\ file.head = "good" /\ file.name = {skill} /\ file.triggers = {"english", "chinese"}
        /\ file.description = {"what it does"}
    BY DEF ExampleSkill, SkillFile
  <2>2. Given({skill}, skill) = skill
    BY DEF Given
  <2> HIDE DEF file
  <2>3. Skill(skill, file) = Result({s})
    BY <2>1, <2>2 DEF Skill, file
  <2> DEFINE found == Skill(skill, file)
  <2>4. s \in Skill(skill, after.skills[skill]).value
    <3>1. after.skills[skill] = file
      BY <1>5 DEF file
    <3> HIDE DEF s
    <3>2. s \in found.value
      BY <2>3 DEF Result
    <3>3. QED
      BY <3>1, <3>2
  <2>5. s \in GoodSkills(after)
    BY <1>5, <2>4 DEF GoodSkills
  <2>6. s.name = skill /\ s.triggers # {}
    OBVIOUS
  <2> HIDE DEF s
  <2>7. QED
    BY <2>5, <2>6
<1>7. QED
  BY <1>3, <1>4, <1>6 DEF after

(***************************************************************************)
(* Whatever the workspace holds and whichever step fails, an init can be   *)
(* done again and ends where an init at once would have ended, and no      *)
(* skill of the user's is lost (Workspace::init and init_command).         *)
(***************************************************************************)
THEOREM InitIsAlwaysRepeatable ==
    ASSUME NEW ws, IsWorkspace(ws), NEW force \in BOOLEAN, NEW failing \in 1 .. NoFailing, NEW torn \in BOOLEAN,
           failing = NoFailing => ~torn
    PROVE  InitIsRepeatable(ws, force, failing, torn)
<1> DEFINE done == InitCommand(ws, force, failing, torn)
           after == done.ws
           whole == AfterSteps(ws, AllSteps)
<1>1. NoFailing = 9 /\ failing \in 1 .. 9
  BY InitStepsAre
<1>2. CASE ws.exists /\ ~force
  <2>1. done = [ws |-> ws, said |-> "refused"]
    BY <1>2 DEF InitCommand
  <2> HIDE DEF done
  <2>2. after = ws /\ done.said = "refused"
    BY <2>1
  <2>3. QED
    BY <2>2 DEF InitIsRepeatable, done
<1>3. CASE ~(ws.exists /\ ~force) /\ failing = NoFailing
  <2>1. WorkspaceInit(ws, failing, torn) = whole /\ StillSame(ws, whole)
    <3>1. failing - 1 = 8 /\ DoneBy(8) = AllSteps
      BY <1>1, <1>3, DoneByAll DEF AllSteps
    <3>2. InitUpTo(ws)[8] = whole
      BY <3>1, InitUpToIs
    <3>3. ~torn
      BY <1>3
    <3>4. QED
      BY <3>1, <3>2, <3>3, WholeInitIs DEF WorkspaceInit
  <2>2. done = [ws |-> whole, said |-> "done"]
    BY <1>3, <2>1 DEF InitCommand
  <2> HIDE DEF done, whole
  <2>3. done.said = "done" /\ after = whole
    BY <2>2
  <2>4. /\ DoctorSaysGood(whole) /\ \A file \in DefaultFiles : whole.files[file] = "default"
        /\ \A skill \in Examples : \E s \in GoodSkills(whole) : s.name = skill /\ s.triggers # {}
    BY InitLeavesGood DEF whole
  <2>5. \A dir \in DOMAIN ws.skills \ Examples : whole.skills[dir] = ws.skills[dir]
    BY <2>1 DEF StillSame
  <2>6. QED
    BY <2>3, <2>4, <2>5 DEF InitIsRepeatable, done
<1>4. CASE ~(ws.exists /\ ~force) /\ failing # NoFailing
  <2>1. failing \in 1 .. 8
    BY <1>1, <1>4
  <2>2. done = [ws |-> WorkspaceInit(ws, failing, torn), said |-> "failed"]
    BY <1>4 DEF InitCommand
  <2> HIDE DEF done
  <2>3. done.said = "failed" /\ after = WorkspaceInit(ws, failing, torn)
    BY <2>2
  <2>4. /\ StillSame(ws, after) /\ (after.exists <=> (ws.exists \/ failing > 1))
        /\ ~ws.exists => (LoadedFiles(after) # {} <=> (failing > 2 \/ (failing = 2 /\ torn)))
    BY <2>1, <2>3, FailedInitKeeps
  <2> DEFINE left == done.ws
  <2>5. InitCommand(left, FALSE, NoFailing, FALSE).said = "refused" <=> left.exists
    <3>1. CASE left.exists
      BY <3>1 DEF InitCommand
    <3>2. CASE ~left.exists
      BY <3>2 DEF InitCommand
    <3>3. QED
      BY <3>1, <3>2
  <2>6. InitCommand(left, TRUE, NoFailing, FALSE) = InitCommand(ws, TRUE, NoFailing, FALSE)
    <3>1. WorkspaceInit(left, NoFailing, FALSE) = AfterSteps(left, AllSteps)
      BY <2>4, WholeInitIs DEF StillSame
    <3>2. WorkspaceInit(ws, NoFailing, FALSE) = AfterSteps(ws, AllSteps)
      BY WholeInitIs
    <3>3. AfterSteps(left, AllSteps) = AfterSteps(ws, AllSteps)
      BY <2>4, SameInTheEnd
    <3>4. QED
      BY <3>1, <3>2, <3>3 DEF InitCommand
  <2>7. ~ws.exists => (DoctorSaysGood(after) <=> (failing > 2 \/ (failing = 2 /\ torn)))
    <3>1. failing = 2 \/ failing > 2 => failing > 1
      BY <2>1
    <3> HIDE DEF left
    <3>2. QED
      BY <2>4, <3>1 DEF DoctorSaysGood, left
  <2>8. \A dir \in DOMAIN ws.skills \ Examples : after.skills[dir] = ws.skills[dir]
    BY <2>4 DEF StillSame
  <2>9. QED
    BY <2>3, <2>5, <2>6, <2>7, <2>8, Zenon DEF InitIsRepeatable, done
<1>5. QED
  BY <1>2, <1>3, <1>4

\* What is read of a SKILL.md: nothing, or the skill of its directory.
IsRead(dir, result) ==
    \/ result.failed /\ result.value = {}
    \/ ~result.failed /\ \E s : s.path = dir /\ result.value = {s}

LEMMA SkillIsRead == \A dir, file : IsRead(dir, Skill(dir, file))
<1> SUFFICES ASSUME NEW dir, NEW file PROVE IsRead(dir, Skill(dir, file))
  OBVIOUS
<1> DEFINE front == IF file.head = "good" THEN file ELSE BlankSkill
           s == [path |-> dir, name |-> Given(front.name, dir), triggers |-> front.triggers,
                 description |-> Given(front.description, Described(file))]
<1>1. Skill(dir, file) = Failure \/ Skill(dir, file) = Result({s})
  BY DEF Skill
<1>2. s.path = dir
  OBVIOUS
<1> HIDE DEF s
<1>3. Failure.failed = TRUE /\ Failure.value = {} /\ Result({s}).failed = FALSE /\ Result({s}).value = {s}
  BY DEF Failure, Result
<1>4. QED
  BY <1>1, <1>2, <1>3 DEF IsRead

(***************************************************************************)
(* In every workspace, one whose skills/ cannot be read included, doctor,  *)
(* serve and the two skills commands agree on the skills there are, and a  *)
(* reload fails exactly if skills/ cannot be read or has a SKILL.md that   *)
(* the others pass over (SkillDiscovery, skills.rs).                       *)
(***************************************************************************)
THEOREM SkillListsAlwaysAgree ==
    ASSUME NEW ws, IsWorkspace(ws)
    PROVE  SkillListsAgree(ws)
<1> DEFINE command == SkillsCommand(ws)
           doctor == DoctorSkills(ws)
           reload == SkillsReloadCommand(ws)
           bad == \E dir \in DOMAIN ws.skills : ws.skills[dir].kind # "missing" /\ Skill(dir, ws.skills[dir]).failed
<1>1. /\ \A value : Result(value).failed = FALSE /\ Result(value).value = value
      /\ Failure.failed = TRUE /\ Failure.value = {}
  BY DEF Result, Failure
<1>2. /\ ws.listable \in BOOLEAN
      /\ ~ws.hasSkills => ws.listable /\ DOMAIN ws.skills = {}
  BY DEF IsWorkspace
<1>3. /\ ws.listable => Discovered(ws) = Result({GoodSkills(ws)}) /\ ServeSkills(ws) = GoodSkills(ws)
      /\ ~ws.listable => Discovered(ws) = Failure /\ ServeSkills(ws) = {}
  BY <1>1 DEF Discovered, ServeSkills
<1>4. ~ws.hasSkills => GoodSkills(ws) = {}
  BY <1>2 DEF GoodSkills
<1>5. /\ command.failed <=> ~ws.listable
      /\ ws.hasSkills /\ ~command.failed => command.value = {ServeSkills(ws)}
      /\ command.failed \in BOOLEAN
  BY <1>1, <1>2, <1>3 DEF SkillsCommand
<1>6. ws.exists => doctor = [failed |-> command.failed, value |-> Cardinality(ServeSkills(ws))]
  <2>1. CASE ws.hasSkills
    BY <2>1 DEF DoctorSkills, SkillsCommand
  <2>2. CASE ~ws.hasSkills
    <3>1. Cardinality(ServeSkills(ws)) = 0
      BY <1>2, <1>3, <1>4, <2>2, FS_EmptySet
    <3>2. command.failed = FALSE
      BY <1>1, <2>2 DEF SkillsCommand
    <3>3. QED
      BY <2>2, <3>1, <3>2 DEF DoctorSkills, Result
  <2>3. QED
    BY <2>1, <2>2
<1>7. /\ reload.failed <=> (~ws.listable \/ bad)
      /\ ~reload.failed => reload.value = {ServeSkills(ws)}
  <2>1. CASE ~ws.hasSkills
    <3>1. ws.listable /\ ~bad /\ reload = Result({{}}) /\ ServeSkills(ws) = {}
      BY <1>2, <1>3, <1>4, <2>1 DEF SkillsReloadCommand
    <3>2. QED
      BY <1>1, <3>1
  <2>2. CASE ws.hasSkills /\ bad
    BY <1>1, <2>2 DEF SkillsReloadCommand, DiscoveredStrictly
  <2>3. CASE ws.hasSkills /\ ~bad
    <3>1. reload = Discovered(ws)
      BY <2>3 DEF SkillsReloadCommand, DiscoveredStrictly
    <3>2. QED
      BY <1>1, <1>3, <2>3, <3>1
  <2>4. QED
    BY <2>1, <2>2, <2>3
<1>8. \A dir \in DOMAIN ws.skills : IsRead(dir, Skill(dir, ws.skills[dir]))
  BY SkillIsRead
<1>9. ASSUME NEW dir \in DOMAIN ws.skills
      PROVE  Skill(dir, ws.skills[dir]).failed <=> \A s \in GoodSkills(ws) : s.path # dir
  <2>1. ASSUME ~Skill(dir, ws.skills[dir]).failed PROVE \E s \in GoodSkills(ws) : s.path = dir
    BY <1>8, <2>1 DEF IsRead, GoodSkills
  <2>2. ASSUME NEW s \in GoodSkills(ws), s.path = dir PROVE ~Skill(dir, ws.skills[dir]).failed
    <3>1. PICK other \in DOMAIN ws.skills : s \in Skill(other, ws.skills[other]).value
      BY DEF GoodSkills
    <3>2. other = dir
      BY <1>8, <2>2, <3>1 DEF IsRead
    <3>3. QED
      BY <1>8, <3>1, <3>2 DEF IsRead
  <2>3. QED
    BY <2>1, <2>2
<1>10. reload.failed <=> \/ ~ws.listable
                        \/ \E dir \in DOMAIN ws.skills : /\ ws.skills[dir].kind # "missing"
                                                         /\ \A s \in ServeSkills(ws) : s.path # dir
  <2>1. CASE ws.listable
    BY <1>3, <1>7, <1>9, <2>1
  <2>2. CASE ~ws.listable
    BY <1>7, <2>2
  <2>3. QED
    BY <2>1, <2>2
<1> HIDE DEF command, doctor, reload
<1>11. QED
  BY <1>5, <1>6, <1>7, <1>10 DEF SkillListsAgree, command, doctor, reload

-----------------------------------------------------------------------------
(* The workspaces of the runs *)

SetupCallIsTyped ==
    Asks("init") => /\ IsWorkspace(call.ws) /\ call.force \in BOOLEAN /\ call.failing \in 1 .. NoFailing
                    /\ call.torn \in BOOLEAN /\ (call.failing = NoFailing => ~call.torn)

LEMMA WorkspacesAre == \A ws \in Workspaces : IsWorkspace(ws)
<1>1. IsWorkspace(NoWorkspace)
  BY DEF NoWorkspace, IsWorkspace
<1>2. NoWorkspace.files = [file \in DefaultFiles |-> "missing"]
  BY DEF NoWorkspace
<1>3. \A files : files = [file \in DefaultFiles |-> files[file]] => IsWorkspace(BeforeSkills(files))
  <2>1. <<>> = [dir \in DOMAIN <<>> |-> <<>>[dir]] /\ DOMAIN <<>> = {}
    OBVIOUS
  <2>2. QED
    BY <2>1 DEF BeforeSkills, IsWorkspace
<1>4. \A files, skills : files = [file \in DefaultFiles |-> files[file]] /\ skills = [dir \in DOMAIN skills |-> skills[dir]]
         => IsWorkspace(WithSkills(files, skills, TRUE)) /\ IsWorkspace(WithSkills(files, skills, FALSE))
  BY DEF WithSkills, IsWorkspace
<1>5. /\ \A soul, memory : [NoWorkspace.files EXCEPT !["SOUL.md"] = soul, !["MEMORY.md"] = memory] \in [DefaultFiles -> {"missing", soul, memory}]
      /\ \A soul : [NoWorkspace.files EXCEPT !["SOUL.md"] = soul] \in [DefaultFiles -> {"missing", soul}]
  BY <1>2
<1>6. \A S : \A files \in [DefaultFiles -> S] : files = [file \in DefaultFiles |-> files[file]]
  OBVIOUS
<1>7. ASSUME NEW ws \in Started PROVE IsWorkspace(ws)
  <2>1. PICK soul \in {"missing", "broken"}, memory \in {"missing", "mine", "blank"} :
               ws = BeforeSkills([NoWorkspace.files EXCEPT !["SOUL.md"] = soul, !["MEMORY.md"] = memory])
    BY <1>7 DEF Started
  <2>2. QED
    BY <1>3, <1>5, <1>6, <2>1
<1>8. ASSUME NEW ws \in Skilled PROVE IsWorkspace(ws)
  <2>1. PICK dirs \in SUBSET {"mine", "search"} :
               ws \in UNION {{WithSkills([NoWorkspace.files EXCEPT !["SOUL.md"] = soul], skills, TRUE) : skills \in [dirs -> SkillFiles]} :
                                soul \in {"missing", "mine"}}
    BY <1>8, Zenon DEF Skilled
  <2>2. PICK soul \in {"missing", "mine"} :
               ws \in {WithSkills([NoWorkspace.files EXCEPT !["SOUL.md"] = soul], skills, TRUE) : skills \in [dirs -> SkillFiles]}
    BY <2>1, Zenon
  <2>3. PICK skills \in [dirs -> SkillFiles] : ws = WithSkills([NoWorkspace.files EXCEPT !["SOUL.md"] = soul], skills, TRUE)
    BY <2>2
  <2>4. skills = [dir \in DOMAIN skills |-> skills[dir]]
    OBVIOUS
  <2>5. QED
    BY <1>4, <1>5, <1>6, <2>3, <2>4
<1>9. ASSUME NEW ws \in Unlistable PROVE IsWorkspace(ws)
  <2>1. PICK dirs \in SUBSET {"mine"} :
               ws \in {WithSkills(NoWorkspace.files, skills, FALSE) : skills \in [dirs -> SkillFiles]}
    BY <1>9, Zenon DEF Unlistable
  <2>2. PICK skills \in [dirs -> SkillFiles] : ws = WithSkills(NoWorkspace.files, skills, FALSE)
    BY <2>1
  <2>3. skills = [dir \in DOMAIN skills |-> skills[dir]]
    OBVIOUS
  <2>4. NoWorkspace.files = [file \in DefaultFiles |-> NoWorkspace.files[file]]
    BY <1>2
  <2>5. QED
    BY <1>4, <2>2, <2>3, <2>4
<1>10. QED
  BY <1>1, <1>7, <1>8, <1>9 DEF Workspaces

LEMMA SetupCallsAreTyped == Spec => []SetupCallIsTyped
<1>1. Init => SetupCallIsTyped
  BY DEF Init, SetupCallIsTyped, Asks
<1>2. SetupCallIsTyped /\ [Next]_call => SetupCallIsTyped'
  <2> SUFFICES ASSUME SetupCallIsTyped, [Next]_call PROVE SetupCallIsTyped'
    OBVIOUS
  <2>1. CASE FileCalls
    <3>1. CASE \E entry \in Written, content \in Texts(0 .. 2) :
                  call' = [kind |-> "write", entry |-> entry, content |-> content]
      BY <3>1 DEF SetupCallIsTyped, Asks
    <3>2. CASE \E files \in [{"soul", "user", "memory"} -> Loaded] : call' = [kind |-> "prompt", files |-> files]
      BY <3>2 DEF SetupCallIsTyped, Asks
    <3>3. CASE \E ws \in Workspaces, force \in BOOLEAN, failing \in 1 .. NoFailing, torn \in BOOLEAN :
                  (failing = NoFailing => ~torn) /\
                  call' = [kind |-> "init", ws |-> ws, force |-> force, failing |-> failing, torn |-> torn]
      <4>1. PICK ws \in Workspaces, force \in BOOLEAN, failing \in 1 .. NoFailing, torn \in BOOLEAN :
                  (failing = NoFailing => ~torn) /\
                  call' = [kind |-> "init", ws |-> ws, force |-> force, failing |-> failing, torn |-> torn]
        BY <3>3, Zenon
      <4>2. call'.ws = ws /\ call'.force = force /\ call'.failing = failing /\ call'.torn = torn
        BY <4>1
      <4>3. IsWorkspace(ws)
        BY WorkspacesAre
      <4>4. QED
        BY <4>1, <4>2, <4>3 DEF SetupCallIsTyped
    <3>4. QED
      BY <2>1, <3>1, <3>2, <3>3, Zenon DEF FileCalls
  <2>2. CASE Next /\ ~FileCalls
    BY <2>2, KindsAreOf DEF KindsOf, Next, SetupCallIsTyped, Asks
  <2>3. CASE call' = call
    BY <2>3 DEF SetupCallIsTyped, Asks
  <2>4. QED
    BY <2>1, <2>2, <2>3
<1>3. QED
  BY <1>1, <1>2, PTL DEF Spec

(***************************************************************************)
(* What MCAlgorithms checks of `jiaclaw init` and of the skills holds in   *)
(* every state, by InitIsAlwaysRepeatable and SkillListsAlwaysAgree, which *)
(* hold of every workspace.                                                *)
(***************************************************************************)
THEOREM SetupIsRepeatableInCalls == Spec => []SetupIsRepeatable
<1>1. SetupCallIsTyped => SetupIsRepeatable
  BY InitIsAlwaysRepeatable, SkillListsAlwaysAgree DEF SetupCallIsTyped, SetupIsRepeatable
<1>2. QED
  BY <1>1, SetupCallsAreTyped, PTL

-----------------------------------------------------------------------------
(* Chunks *)

LEMMA OneCharacterMore ==
    ASSUME NEW T, NEW joined \in Seq(T), NEW last \in Seq(T), NEW char \in T
    PROVE  joined \o Append(last, char) = (joined \o last) \o <<char>>
<1> DEFINE end == <<char>>
<1>1. end \in Seq(T) /\ Append(last, char) = last \o end
  BY AppendIsConcat
<1> HIDE DEF end
<1>2. (joined \o last) \o end = joined \o (last \o end)
  BY <1>1, ConcatAssociative
<1>3. QED
  BY <1>1, <1>2 DEF end

LEMMA PartsJoin ==
    ASSUME NEW T, NEW parts \in Seq(Seq(T)), NEW n \in 1 .. Len(parts), NEW so \in Seq(T)
    PROVE  AddChunk(so, parts[n]) \in Seq(T)
BY ElementOfSeq, ConcatProperties DEF AddChunk

\* The first parts, put together.
LEMMA JoinedSoFarIs ==
    ASSUME NEW T, NEW parts \in Seq(Seq(T))
    PROVE  /\ JoinedUpTo(parts)[0] = <<>>
           /\ \A n \in 1 .. Len(parts) : JoinedUpTo(parts)[n] = AddChunk(JoinedUpTo(parts)[n - 1], parts[n])
           /\ \A n \in 0 .. Len(parts) : JoinedUpTo(parts)[n] \in Seq(T)
<1> DEFINE N == Len(parts)
           S == Seq(T)
           Solves(f) == f = [n \in 0 .. N |-> IF n = 0 THEN <<>> ELSE AddChunk(f[n - 1], parts[n])]
           step == [p \in (1 .. N) \X S |-> AddChunk(p[2], parts[p[1]])]
           inv == [n \in 0 .. N |-> Seq(T)]
<1>1. N \in Nat
  BY LenProperties
<1>2. 0 \in 0 .. N /\ \A n \in 1 .. N : n \in 0 .. N /\ n - 1 \in 0 .. N /\ n # 0
  BY <1>1
<1>3. \A n \in 0 .. N : inv[n] \subseteq S
  OBVIOUS
<1>4. <<>> \in inv[0]
  BY <1>2, EmptySeq
<1>5. \A n \in 1 .. N : \A so \in inv[n - 1] : AddChunk(so, parts[n]) \in inv[n]
  BY <1>2, PartsJoin
<1>6. ASSUME NEW n \in 1 .. N, NEW so \in inv[n - 1] PROVE step[<<n, so>>] = AddChunk(so, parts[n])
  <2> HIDE DEF inv, S
  <2>1. so \in S
    BY <1>2, <1>3
  <2>2. <<n, so>> \in (1 .. N) \X S
    BY <2>1
  <2>3. QED
    BY <2>2
<1> HIDE DEF inv, step, S
<1>7. PICK f \in RunsOf(N, S) : Recurs(f, N, <<>>, step) /\ \A n \in 0 .. N : f[n] \in inv[n]
  <2> HIDE DEF N
  <2>1. ASSUME NEW n \in 1 .. N, NEW so \in inv[n - 1] PROVE step[<<n, so>>] \in inv[n]
    BY <1>5, <1>6
  <2>2. QED
    BY <1>1, <1>3, <1>4, <2>1, KeptRecursion
<1>8. Solves(f)
  <2>1. \A n \in 1 .. N : f[n] = AddChunk(f[n - 1], parts[n])
    BY <1>2, <1>6, <1>7 DEF Recurs
  <2>2. f = [n \in 0 .. N |-> f[n]]
    BY <1>7 DEF RunsOf
  <2>3. \A n \in 0 .. N : n # 0 => n \in 1 .. N
    BY <1>1
  <2>4. f[0] = <<>>
    BY <1>7 DEF Recurs
  <2>5. QED
    BY <2>1, <2>2, <2>3, <2>4
<1> DEFINE run == JoinedUpTo(parts)
<1>9. run = CHOOSE g : Solves(g)
  BY DEF JoinedUpTo
<1> HIDE DEF Solves
<1>10. Solves(run)
  BY <1>8, <1>9
<1> HIDE DEF run
<1>11. \A n \in 0 .. N : run[n] = IF n = 0 THEN <<>> ELSE AddChunk(run[n - 1], parts[n])
  BY <1>10 DEF Solves
<1>12. run[0] = <<>> /\ \A n \in 1 .. N : run[n] = AddChunk(run[n - 1], parts[n])
  BY <1>2, <1>11
<1> DEFINE good == {n \in 0 .. N : run[n] \in inv[n]}
<1>13. 0 \in good
  BY <1>2, <1>4, <1>12
<1>14. \A n \in 0 .. N - 1 : n \in good => n + 1 \in good
  <2> SUFFICES ASSUME NEW n \in 0 .. N - 1, n \in good PROVE n + 1 \in good
    OBVIOUS
  <2>1. n + 1 \in 1 .. N /\ n + 1 \in 0 .. N /\ n + 1 - 1 = n
    BY <1>1
  <2>2. run[n + 1] = AddChunk(run[n], parts[n + 1])
    BY <1>12, <2>1
  <2>3. QED
    BY <1>5, <2>1, <2>2
<1>15. 0 .. N \subseteq good
  <2> HIDE DEF good, N
  <2>1. QED
    BY <1>1, <1>13, <1>14, Reaches
<1>16. \A n \in 0 .. N : run[n] \in Seq(T)
  BY <1>15 DEF inv
<1>17. QED
  BY <1>12, <1>16 DEF run, N

LEMMA JoinedAppends ==
    ASSUME NEW T, NEW parts \in Seq(Seq(T)), NEW part \in Seq(T)
    PROVE  Joined(Append(parts, part)) = Joined(parts) \o part /\ Joined(parts) \in Seq(T)
<1> DEFINE more == Append(parts, part)
           N == Len(parts)
           before == JoinedUpTo(parts)
           after == JoinedUpTo(more)
           good == {n \in 0 .. N : after[n] = before[n]}
<1>1. more \in Seq(Seq(T)) /\ Len(more) = N + 1 /\ more[N + 1] = part /\ (\A n \in 1 .. N : more[n] = parts[n]) /\ N \in Nat
  BY AppendProperties, LenProperties
<1> HIDE DEF more
<1>2. before[0] = <<>> /\ (\A n \in 1 .. N : before[n] = AddChunk(before[n - 1], parts[n])) /\ before[N] \in Seq(T)
  <2>1. N \in 0 .. N
    BY <1>1
  <2>2. QED
    BY <2>1, JoinedSoFarIs
<1>3. after[0] = <<>> /\ \A n \in 1 .. N + 1 : after[n] = AddChunk(after[n - 1], more[n])
  BY <1>1, JoinedSoFarIs
<1> HIDE DEF before, after
<1>4. 0 \in good
  BY <1>1, <1>2, <1>3
<1>5. \A n \in 0 .. N - 1 : n \in good => n + 1 \in good
  <2> SUFFICES ASSUME NEW n \in 0 .. N - 1, n \in good PROVE n + 1 \in good
    OBVIOUS
  <2>1. n + 1 \in 1 .. N /\ n + 1 \in 1 .. N + 1 /\ n + 1 - 1 = n /\ n + 1 \in 0 .. N
    BY <1>1
  <2>2. after[n + 1] = AddChunk(after[n], more[n + 1]) /\ before[n + 1] = AddChunk(before[n], parts[n + 1])
    BY <1>2, <1>3, <2>1
  <2>3. QED
    BY <1>1, <2>1, <2>2
<1>6. after[N] = before[N]
  <2> HIDE DEF good
  <2>1. 0 .. N \subseteq good
    BY <1>1, <1>4, <1>5, Reaches
  <2>2. N \in 0 .. N
    BY <1>1
  <2>3. QED
    BY <2>1, <2>2 DEF good
<1>7. after[N + 1] = AddChunk(before[N], part)
  <2>1. N + 1 \in 1 .. N + 1 /\ N + 1 - 1 = N
    BY <1>1
  <2>2. after[N + 1] = AddChunk(after[(N + 1) - 1], more[N + 1])
    BY <1>3, <2>1, Zenon
  <2>3. QED
    BY <1>1, <1>6, <2>1, <2>2
<1>8. Joined(more) = after[N + 1] /\ Joined(parts) = before[N]
  BY <1>1 DEF Joined, after, before
<1>9. QED
  BY <1>2, <1>7, <1>8, Zenon DEF more, AddChunk

LEMMA EndOfAppend ==
    ASSUME NEW S, NEW seq \in Seq(S), NEW e \in S
    PROVE  Front(Append(seq, e)) = seq /\ Last(Append(seq, e)) = e
<1> DEFINE more == Append(seq, e)
           N == Len(seq)
<1>1. more \in Seq(S) /\ Len(more) = N + 1 /\ more[N + 1] = e /\ (\A n \in 1 .. N : more[n] = seq[n]) /\ N \in Nat
  BY AppendProperties, LenProperties
<1> HIDE DEF more
<1>2. Last(more) = e
  BY <1>1 DEF Last
<1>3. Front(more) = SubSeq(more, 1, N)
  BY <1>1 DEF Front
<1> DEFINE front == SubSeq(more, 1, N)
<1>4. front \in Seq(S) /\ Len(front) = N /\ \A i \in 1 .. N : front[i] = more[i]
  BY <1>1, BeginningIs
<1> HIDE DEF front
<1>5. front = seq
  BY <1>1, <1>4, SeqEqual
<1>6. QED
  BY <1>2, <1>3, <1>5 DEF more, front

\* A chunk that is over: it is full, or ends a sentence.
IsChunk(chunk) == Len(chunk) \in 1 .. ChunkMax /\ (Last(chunk) = "mark" \/ Len(chunk) = ChunkMax)

\* The chunks of the first n characters: those that are over, and the one that is not.
ChunksHold(T, text, n, front, last) ==
    /\ Joined(front) \o last = SubSeq(text, 1, n)
    /\ \A i \in 1 .. Len(front) : IsChunk(front[i])
    /\ Len(last) < ChunkMax

ChunksInv(T, text, n) ==
    {chunks \in Seq(Seq(T)) :
        \E front \in Seq(Seq(T)), last \in Seq(T) : chunks = Append(front, last) /\ ChunksHold(T, text, n, front, last)}

LEMMA ChunksBegin == \A T, text : <<<<>>>> \in ChunksInv(T, text, 0)
<1> SUFFICES ASSUME NEW T, NEW text PROVE <<<<>>>> \in ChunksInv(T, text, 0)
  OBVIOUS
<1>1. <<>> \in Seq(T) /\ <<>> \in Seq(Seq(T)) /\ Len(<<>>) = 0
  BY EmptySeq
<1>2. <<<<>>>> = Append(<<>>, <<>>) /\ <<<<>>>> \in Seq(Seq(T))
  <2>1. Append(<<>>, <<>>) \in Seq(Seq(T)) /\ Append(<<>>, <<>>) = <<>> \o <<<<>>>>
    BY <1>1, AppendProperties, AppendIsConcat
  <2>2. <<<<>>>> \in Seq(Seq(T))
    BY OneEmptyLine
  <2>3. QED
    BY <2>1, <2>2, ConcatEmptySeq
<1>3. Joined(<<>>) = <<>>
  BY <1>1, JoinedSoFarIs DEF Joined
<1>4. SubSeq(text, 1, 0) = <<>> /\ <<>> \o <<>> = <<>>
  BY <1>1, SubSeqEmpty, ConcatEmptySeq
<1>5. ChunksHold(T, text, 0, <<>>, <<>>)
  <2>1. Joined(<<>>) \o <<>> = SubSeq(text, 1, 0)
    BY <1>3, <1>4, Zenon
  <2>2. (\A i \in 1 .. 0 : IsChunk(<<>>[i])) /\ 0 < ChunkMax
    BY ChunkAssumption
  <2>3. QED
    BY <1>1, <2>1, <2>2, Zenon DEF ChunksHold
<1>6. QED
  BY <1>1, <1>2, <1>5 DEF ChunksInv

LEMMA ChunksGoOn ==
    ASSUME NEW T, NEW text \in Seq(T), NEW n \in 1 .. Len(text), NEW so \in ChunksInv(T, text, n - 1)
    PROVE  Cut(so, text[n]) \in ChunksInv(T, text, n)
<1>1. PICK front \in Seq(Seq(T)), last \in Seq(T) : so = Append(front, last) /\ ChunksHold(T, text, n - 1, front, last)
  BY DEF ChunksInv
<1> DEFINE char == text[n]
           current == Append(last, char)
           grown == Append(front, current)
<1>2. char \in T /\ Len(text) \in Nat
  BY ElementOfSeq, LenProperties
<1>3. /\ current \in Seq(T) /\ Len(current) = Len(last) + 1 /\ Len(last) \in Nat /\ Last(current) = char
      /\ current = last \o <<char>> /\ <<char>> \in Seq(T)
  BY <1>2, AppendProperties, AppendIsConcat, LenProperties, EndOfAppend
<1>4. Joined(front) \o current = SubSeq(text, 1, n)
  <2>1. Joined(front) \in Seq(T)
    BY JoinedAppends
  <2>2. Joined(front) \o current = (Joined(front) \o last) \o <<char>>
    BY <1>2, <2>1, OneCharacterMore
  <2>3. Joined(front) \o last = SubSeq(text, 1, n - 1)
    BY <1>1 DEF ChunksHold
  <2>4. SubSeq(text, 1, n) = SubSeq(text, 1, n - 1) \o <<char>>
    <3>1. 1 \in 1 .. Len(text) /\ n \in 1 .. Len(text)
      BY <1>2
    <3>2. QED
      BY <3>1, SubSeqRecursiveSecond
  <2>5. QED
    BY <2>2, <2>3, <2>4
<1>5. Front(so) = front /\ Last(so) = last
  BY <1>1, EndOfAppend
<1>6. Cut(so, char) = IF char = "mark" \/ Len(current) >= ChunkMax THEN Append(grown, <<>>) ELSE grown
  BY <1>5 DEF Cut
<1>7. Len(last) < ChunkMax /\ (\A i \in 1 .. Len(front) : IsChunk(front[i])) /\ ChunkMax \in Nat
  BY <1>1, ChunkAssumption DEF ChunksHold
<1>8. Joined(grown) = Joined(front) \o current /\ Joined(grown) \in Seq(T)
  <2>1. Joined(grown) = Joined(front) \o current /\ Joined(front) \in Seq(T)
    BY <1>3, JoinedAppends
  <2> HIDE DEF grown, current
  <2>2. QED
    BY <1>3, <2>1, ConcatProperties
<1>9. grown \in Seq(Seq(T)) /\ Len(grown) = Len(front) + 1 /\ grown[Len(front) + 1] = current
      /\ (\A i \in 1 .. Len(front) : grown[i] = front[i]) /\ Len(front) \in Nat
  BY <1>3, AppendProperties, LenProperties
<1> HIDE DEF current, grown
<1>10. CASE char = "mark" \/ Len(current) >= ChunkMax
  <2>1. IsChunk(current)
    BY <1>3, <1>7, <1>10 DEF IsChunk
  <2>2. \A i \in 1 .. Len(grown) : IsChunk(grown[i])
    <3>1. \A i \in 1 .. Len(grown) : i \in 1 .. Len(front) \/ i = Len(front) + 1
      BY <1>9
    <3>2. QED
      BY <1>7, <1>9, <2>1, <3>1
  <2>3. <<>> \in Seq(T) /\ Len(<<>>) = 0
    BY EmptySeq
  <2>4. Joined(grown) \o <<>> = SubSeq(text, 1, n)
    BY <1>4, <1>8, ConcatEmptySeq
  <2>5. ChunksHold(T, text, n, grown, <<>>)
    BY <2>2, <2>3, <2>4, ChunkAssumption DEF ChunksHold
  <2>6. Append(grown, <<>>) \in Seq(Seq(T))
    BY <1>9, <2>3, AppendProperties
  <2>7. Append(grown, <<>>) \in ChunksInv(T, text, n)
    BY <1>9, <2>3, <2>5, <2>6 DEF ChunksInv
  <2>8. QED
    BY <1>6, <1>10, <2>7
<1>11. CASE ~(char = "mark" \/ Len(current) >= ChunkMax)
  <2>1. ChunksHold(T, text, n, front, current)
    <3>1. Len(current) < ChunkMax
      BY <1>3, <1>7, <1>11
    <3>2. QED
      BY <1>4, <1>7, <3>1 DEF ChunksHold
  <2>2. grown \in ChunksInv(T, text, n)
    BY <1>3, <1>9, <2>1 DEF ChunksInv, grown
  <2>3. QED
    BY <1>6, <1>11, <2>2
<1>12. QED
  BY <1>10, <1>11

\* The chunks after each character.
LEMMA ChunksSoFarAre ==
    ASSUME NEW T, NEW text \in Seq(T)
    PROVE  /\ ChunksUpTo(text)[0] = <<<<>>>>
           /\ \A n \in 1 .. Len(text) : ChunksUpTo(text)[n] = Cut(ChunksUpTo(text)[n - 1], text[n])
           /\ \A n \in 0 .. Len(text) : ChunksUpTo(text)[n] \in ChunksInv(T, text, n)
<1> DEFINE N == Len(text)
           S == Seq(Seq(T))
           Solves(f) == f = [n \in 0 .. N |-> IF n = 0 THEN <<<<>>>> ELSE Cut(f[n - 1], text[n])]
           step == [p \in (1 .. N) \X S |-> Cut(p[2], text[p[1]])]
           inv == [n \in 0 .. N |-> ChunksInv(T, text, n)]
<1>1. N \in Nat
  BY LenProperties
<1>2. 0 \in 0 .. N /\ \A n \in 1 .. N : n \in 0 .. N /\ n - 1 \in 0 .. N /\ n # 0
  BY <1>1
<1>3. \A n \in 0 .. N : inv[n] \subseteq S
  BY DEF ChunksInv
<1>4. <<<<>>>> \in inv[0]
  BY <1>2, ChunksBegin
<1>5. \A n \in 1 .. N : \A so \in inv[n - 1] : Cut(so, text[n]) \in inv[n]
  BY <1>2, ChunksGoOn
<1>6. ASSUME NEW n \in 1 .. N, NEW so \in inv[n - 1] PROVE step[<<n, so>>] = Cut(so, text[n])
  <2> HIDE DEF inv, S
  <2>1. so \in S
    BY <1>2, <1>3
  <2>2. <<n, so>> \in (1 .. N) \X S
    BY <2>1
  <2>3. QED
    BY <2>2
<1> HIDE DEF inv, step, S
<1>7. PICK f \in RunsOf(N, S) : Recurs(f, N, <<<<>>>>, step) /\ \A n \in 0 .. N : f[n] \in inv[n]
  <2> HIDE DEF N
  <2>1. ASSUME NEW n \in 1 .. N, NEW so \in inv[n - 1] PROVE step[<<n, so>>] \in inv[n]
    BY <1>5, <1>6
  <2>2. QED
    BY <1>1, <1>3, <1>4, <2>1, KeptRecursion
<1>8. Solves(f)
  <2>1. \A n \in 1 .. N : f[n] = Cut(f[n - 1], text[n])
    BY <1>2, <1>6, <1>7 DEF Recurs
  <2>2. f = [n \in 0 .. N |-> f[n]]
    BY <1>7 DEF RunsOf
  <2>3. \A n \in 0 .. N : n # 0 => n \in 1 .. N
    BY <1>1
  <2>4. f[0] = <<<<>>>>
    BY <1>7 DEF Recurs
  <2>5. QED
    BY <2>1, <2>2, <2>3, <2>4
<1> DEFINE run == ChunksUpTo(text)
<1>9. run = CHOOSE g : Solves(g)
  BY DEF ChunksUpTo
<1> HIDE DEF Solves
<1>10. Solves(run)
  BY <1>8, <1>9
<1> HIDE DEF run
<1>11. \A n \in 0 .. N : run[n] = IF n = 0 THEN <<<<>>>> ELSE Cut(run[n - 1], text[n])
  BY <1>10 DEF Solves
<1>12. run[0] = <<<<>>>> /\ \A n \in 1 .. N : run[n] = Cut(run[n - 1], text[n])
  BY <1>2, <1>11
<1> DEFINE good == {n \in 0 .. N : run[n] \in inv[n]}
<1>13. 0 \in good
  BY <1>2, <1>4, <1>12
<1>14. \A n \in 0 .. N - 1 : n \in good => n + 1 \in good
  <2> SUFFICES ASSUME NEW n \in 0 .. N - 1, n \in good PROVE n + 1 \in good
    OBVIOUS
  <2>1. n + 1 \in 1 .. N /\ n + 1 \in 0 .. N /\ n + 1 - 1 = n
    BY <1>1
  <2>2. run[n + 1] = Cut(run[n], text[n + 1])
    BY <1>12, <2>1
  <2>3. QED
    BY <1>5, <2>1, <2>2
<1>15. 0 .. N \subseteq good
  <2> HIDE DEF good, N
  <2>1. QED
    BY <1>1, <1>13, <1>14, Reaches
<1>16. \A n \in 0 .. N : run[n] \in ChunksInv(T, text, n)
  BY <1>15 DEF inv
<1>17. QED
  BY <1>12, <1>16 DEF run, N

\* The chunks of a text make the text, and each but the last is over.
LEMMA ChunksAre ==
    ASSUME NEW T, NEW text \in Seq(T)
    PROVE  LET chunks == Chunks(text)
           IN  /\ chunks \in Seq(Seq(T)) /\ Joined(chunks) = text
               /\ \A i \in 1 .. Len(chunks) : Len(chunks[i]) \in 1 .. ChunkMax /\ (i < Len(chunks) => IsChunk(chunks[i]))
<1> DEFINE N == Len(text)
           all == ChunksUpTo(text)[N]
<1>1. N \in Nat /\ N \in 0 .. N
  BY LenProperties
<1>2. all \in ChunksInv(T, text, N)
  BY <1>1, ChunksSoFarAre
<1> HIDE DEF all
<1>3. PICK front \in Seq(Seq(T)), last \in Seq(T) : all = Append(front, last) /\ ChunksHold(T, text, N, front, last)
  BY <1>2 DEF ChunksInv
<1>4. Front(all) = front /\ Last(all) = last
  BY <1>3, EndOfAppend
<1>5. Chunks(text) = IF last = <<>> THEN front ELSE all
  BY <1>4 DEF Chunks, all
<1>6. /\ Joined(front) \o last = text /\ Len(last) < ChunkMax /\ \A i \in 1 .. Len(front) : IsChunk(front[i])
  BY <1>3, SubSeqFull DEF ChunksHold
<1>7. Joined(front) \in Seq(T) /\ Joined(all) = Joined(front) \o last
  BY <1>3, JoinedAppends
<1>8. CASE last = <<>>
  <2>1. Joined(front) = text
    BY <1>6, <1>7, <1>8, ConcatEmptySeq
  <2>2. QED
    BY <1>5, <1>6, <1>8, <2>1 DEF IsChunk
<1>9. CASE last # <<>>
  <2>1. /\ all \in Seq(Seq(T)) /\ Len(all) = Len(front) + 1 /\ all[Len(front) + 1] = last /\ Len(front) \in Nat
        /\ \A i \in 1 .. Len(front) : all[i] = front[i]
    BY <1>3, AppendProperties, LenProperties
  <2>2. Len(last) \in 1 .. ChunkMax
    BY <1>6, <1>9, EmptySeq, ChunkAssumption
  <2>3. \A i \in 1 .. Len(all) : (i \in 1 .. Len(front) /\ i < Len(all)) \/ (i = Len(front) + 1 /\ ~(i < Len(all)))
    BY <2>1
  <2>4. \A i \in 1 .. Len(all) : Len(all[i]) \in 1 .. ChunkMax /\ (i < Len(all) => IsChunk(all[i]))
    BY <1>6, <2>1, <2>2, <2>3 DEF IsChunk
  <2>5. QED
    BY <1>5, <1>6, <1>7, <1>9, <2>1, <2>4
<1>10. QED
  BY <1>8, <1>9

-----------------------------------------------------------------------------
(* Streams *)

EventsOf(session, T, calls, text) ==
    {[event |-> "meta", session |-> session], [event |-> "error"], [event |-> "done", reply |-> text, session |-> session]}
        \cup {ToolEvent(call_) : call_ \in {calls[i] : i \in DOMAIN calls}} \cup {TokenEvent(chunk) : chunk \in Seq(T)}

\* A sequence that begins with something, goes on with two sequences, and ends with something.
PutTogether(all, first, s, t, last) ==
    LET m == Len(s)
        k == Len(t)
    IN  /\ DOMAIN all = 1 .. Len(all) /\ Len(all) = 1 + m + k + 1 /\ m \in Nat /\ k \in Nat
        /\ all[1] = first /\ all[Len(all)] = last
        /\ \A i \in 1 .. m : all[i + 1] = s[i]
        /\ \A i \in 1 .. k : all[1 + m + i] = t[i]

\* A sequence that is one and then another.
Concatenates(E, all, s, t) ==
    /\ all \in Seq(E) /\ Len(all) = Len(s) + Len(t)
    /\ \A i \in 1 .. Len(s) : all[i] = s[i]
    /\ \A i \in 1 .. Len(t) : all[Len(s) + i] = t[i]

LEMMA TwoJoined == \A E : \A s, t \in Seq(E) : Concatenates(E, s \o t, s, t)
<1> SUFFICES ASSUME NEW E, NEW s \in Seq(E), NEW t \in Seq(E) PROVE Concatenates(E, s \o t, s, t)
  OBVIOUS
<1> DEFINE all == s \o t
<1>1. all \in Seq(E) /\ Len(all) = Len(s) + Len(t) /\ \A i \in 1 .. Len(s) + Len(t) : all[i] = IF i <= Len(s) THEN s[i] ELSE t[i - Len(s)]
  BY ConcatProperties
<1>2. Len(s) \in Nat /\ Len(t) \in Nat
  BY LenProperties
<1> HIDE DEF all
<1>3. \A i \in 1 .. Len(s) : all[i] = s[i]
  BY <1>1, <1>2
<1>4. ASSUME NEW i \in 1 .. Len(t) PROVE all[Len(s) + i] = t[i]
  <2> DEFINE j == Len(s) + i
  <2>1. j \in 1 .. Len(s) + Len(t) /\ ~(j <= Len(s)) /\ j - Len(s) = i
    BY <1>2
  <2> HIDE DEF j
  <2>2. all[j] = t[i]
    BY <1>1, <2>1
  <2>3. QED
    BY <2>2 DEF j
<1>5. Concatenates(E, all, s, t)
  BY <1>1, <1>3, <1>4 DEF Concatenates
<1>6. QED
  BY <1>5 DEF all

LEMMA PartsTogether ==
    ASSUME NEW E, NEW first \in E, NEW last \in E, NEW s \in Seq(E), NEW t \in Seq(E)
    PROVE  PutTogether(<<first>> \o ((s \o t) \o <<last>>), first, s, t, last)
<1> DEFINE m == Len(s)
           k == Len(t)
           one == <<first>>
           end == <<last>>
           both == s \o t
           rest == both \o end
           all == one \o rest
<1>1. m \in Nat /\ k \in Nat
  BY LenProperties
<1>2. one \in Seq(E) /\ Len(one) = 1 /\ one[1] = first /\ end \in Seq(E) /\ Len(end) = 1 /\ end[1] = last
  OBVIOUS
<1> HIDE DEF one, end
<1>3. Concatenates(E, both, s, t)
  BY TwoJoined
<1>4. both \in Seq(E) /\ Len(both) = m + k /\ (\A i \in 1 .. m : both[i] = s[i]) /\ \A i \in 1 .. k : both[m + i] = t[i]
  BY <1>3 DEF Concatenates
<1> HIDE DEF both
<1>5. Concatenates(E, rest, both, end)
  BY <1>2, <1>4, TwoJoined
<1> HIDE DEF rest
<1>6. /\ rest \in Seq(E) /\ Len(rest) = m + k + 1 /\ (\A i \in 1 .. m + k : rest[i] = both[i])
      /\ rest[m + k + 1] = last
  BY <1>1, <1>2, <1>4, <1>5 DEF Concatenates
<1>7. Concatenates(E, all, one, rest)
  BY <1>2, <1>6, TwoJoined
<1> HIDE DEF all
<1>8. all \in Seq(E) /\ Len(all) = 1 + (m + k + 1) /\ all[1] = first
  BY <1>2, <1>6, <1>7 DEF Concatenates
<1>9. ASSUME NEW i \in 1 .. m + k + 1 PROVE all[i + 1] = rest[i]
  <2>1. all[Len(one) + i] = rest[i]
    BY <1>6, <1>7 DEF Concatenates
  <2>2. Len(one) + i = i + 1
    BY <1>1, <1>2
  <2>3. QED
    BY <2>1, <2>2
<1>10. Len(all) = 1 + m + k + 1 /\ DOMAIN all = 1 .. Len(all)
  BY <1>1, <1>8, LenProperties
<1>11. all[Len(all)] = last
  <2> DEFINE j == m + k + 1
  <2>1. j \in 1 .. m + k + 1 /\ j + 1 = Len(all)
    BY <1>1, <1>10
  <2>2. rest[j] = last
    BY <1>6
  <2> HIDE DEF j
  <2>3. all[j + 1] = rest[j]
    BY <1>9, <2>1
  <2>4. QED
    BY <2>1, <2>2, <2>3
<1>12. ASSUME NEW i \in 1 .. m PROVE all[i + 1] = s[i]
  <2>1. i \in 1 .. m + k + 1 /\ i \in 1 .. m + k
    BY <1>1
  <2>2. QED
    BY <1>4, <1>6, <1>9, <2>1
<1>13. ASSUME NEW i \in 1 .. k PROVE all[1 + m + i] = t[i]
  <2> DEFINE j == m + i
  <2>1. j \in 1 .. m + k + 1 /\ j \in 1 .. m + k /\ j + 1 = 1 + m + i
    BY <1>1
  <2>2. both[j] = t[i]
    BY <1>4
  <2> HIDE DEF j
  <2>3. all[j + 1] = t[i]
    BY <1>6, <1>9, <2>1, <2>2
  <2>4. QED
    BY <2>1, <2>3
<1>14. PutTogether(all, first, s, t, last)
  BY <1>1, <1>8, <1>10, <1>11, <1>12, <1>13 DEF PutTogether
<1>15. QED
  BY <1>14 DEF all, rest, both, one, end

\* The events of a reply.
LEMMA EventsAre ==
    ASSUME NEW session, NEW T, NEW C, NEW text \in Seq(T), NEW calls \in Seq(C), NEW outcome,
           outcome.text = text, outcome.calls = calls, ~outcome.failed
    PROVE  PutTogether(Events(session, outcome), [event |-> "meta", session |-> session], ToolEvents(calls), TokenEvents(Chunks(text)),
                       [event |-> "done", reply |-> text, session |-> session])
<1> DEFINE E == EventsOf(session, T, calls, text)
           chunks == Chunks(text)
           m == Len(calls)
           k == Len(chunks)
           meta == [event |-> "meta", session |-> session]
           done == [event |-> "done", reply |-> text, session |-> session]
           tools == ToolEvents(calls)
           tokens == TokenEvents(chunks)
<1>1. m \in Nat /\ DOMAIN calls = 1 .. m
  BY LenProperties
<1>2. chunks \in Seq(Seq(T)) /\ k \in Nat /\ DOMAIN chunks = 1 .. k
  <2>1. chunks \in Seq(Seq(T))
    BY ChunksAre
  <2>2. QED
    BY <2>1, LenProperties
<1>3. Events(session, outcome) = <<meta>> \o ((tools \o tokens) \o <<done>>)
  BY DEF Events
<1>4. meta \in E /\ done \in E
  BY DEF EventsOf
<1>5. \A i \in 1 .. m : ToolEvent(calls[i]) \in E
  BY <1>1 DEF EventsOf
<1> HIDE DEF chunks, m, k
<1>6. \A i \in 1 .. k : TokenEvent(chunks[i]) \in E
  <2>1. \A i \in 1 .. k : chunks[i] \in Seq(T)
    BY <1>2, ElementOfSeq DEF k
  <2>2. QED
    BY <2>1 DEF EventsOf
<1> HIDE DEF E, meta, done
<1>7. tools = [i \in 1 .. m |-> ToolEvent(calls[i])] /\ tokens = [i \in 1 .. k |-> TokenEvent(chunks[i])]
  BY <1>1, <1>2 DEF ToolEvents, TokenEvents
<1> HIDE DEF tools, tokens
<1>8. tools \in Seq(E)
  BY <1>1, <1>5, <1>7
<1>9. tokens \in Seq(E)
  BY <1>2, <1>6, <1>7
<1>10. PutTogether(<<meta>> \o ((tools \o tokens) \o <<done>>), meta, tools, tokens, done)
  BY <1>4, <1>8, <1>9, PartsTogether
<1>11. QED
  BY <1>3, <1>10 DEF meta, done, tools, tokens, chunks

\* The kind of each event, by its place.
LEMMA EventKinds ==
    ASSUME NEW session, NEW T, NEW C, NEW text \in Seq(T), NEW calls \in Seq(C), NEW events,
           PutTogether(events, [event |-> "meta", session |-> session], ToolEvents(calls), TokenEvents(Chunks(text)),
                       [event |-> "done", reply |-> text, session |-> session])
    PROVE  LET all == Len(events)
               before == 1 + Len(calls)
           IN  /\ DOMAIN events = 1 .. all /\ all \in Nat /\ before \in Nat /\ all > before
               /\ events[1].event = "meta" /\ events[all].event = "done" /\ events[all].reply = text
               /\ \A i \in 2 .. before : events[i].event = "tool"
               /\ \A i \in 1 .. Len(calls) : events[i + 1].name = calls[i].name
               /\ \A i \in before + 1 .. all - 1 : events[i].event = "token"
               /\ [i \in 1 .. all - before - 1 |-> events[before + i].text] = Chunks(text)
<1> DEFINE chunks == Chunks(text)
           m == Len(calls)
           k == Len(chunks)
           all == Len(events)
           meta == [event |-> "meta", session |-> session]
           done == [event |-> "done", reply |-> text, session |-> session]
           tools == ToolEvents(calls)
           tokens == TokenEvents(chunks)
<1>1. m \in Nat /\ DOMAIN calls = 1 .. m
  BY LenProperties
<1>2. k \in Nat /\ DOMAIN chunks = 1 .. k /\ chunks = [i \in 1 .. k |-> chunks[i]]
  <2>1. chunks \in Seq(Seq(T))
    BY ChunksAre
  <2> HIDE DEF chunks
  <2>2. QED
    BY <2>1, LenProperties
<1>3. meta.event = "meta" /\ done.event = "done" /\ done.reply = text
  OBVIOUS
<1> HIDE DEF chunks, k, m, meta, done
<1>4. Len(tools) = m /\ (\A i \in 1 .. m : tools[i] = ToolEvent(calls[i])) /\ Len(tokens) = k /\ \A i \in 1 .. k : tokens[i] = TokenEvent(chunks[i])
  <2>1. tools = [i \in 1 .. m |-> ToolEvent(calls[i])] /\ tokens = [i \in 1 .. k |-> TokenEvent(chunks[i])]
    BY <1>1, <1>2 DEF ToolEvents, TokenEvents
  <2> HIDE DEF tools, tokens
  <2>2. QED
    BY <1>1, <1>2, <2>1
<1>5. PutTogether(events, meta, tools, tokens, done)
  BY DEF meta, tools, tokens, done, chunks
<1> HIDE DEF tools, tokens, all
<1>6. /\ DOMAIN events = 1 .. all /\ all = 1 + m + k + 1 /\ events[1] = meta /\ events[all] = done
      /\ (\A i \in 1 .. m : events[i + 1] = tools[i]) /\ \A i \in 1 .. k : events[1 + m + i] = tokens[i]
  BY <1>4, <1>5 DEF PutTogether, all
<1>7. \A i \in 1 .. m : events[i + 1].event = "tool" /\ events[i + 1].name = calls[i].name
  BY <1>4, <1>6 DEF ToolEvent
<1>8. \A i \in 1 .. k : events[1 + m + i].event = "token" /\ events[1 + m + i].text = chunks[i]
  BY <1>4, <1>6 DEF TokenEvent
<1>9. ASSUME NEW i \in 2 .. 1 + m PROVE events[i].event = "tool"
  <2> DEFINE j == i - 1
  <2>1. j \in 1 .. m /\ j + 1 = i
    BY <1>1
  <2> HIDE DEF j
  <2>2. events[j + 1].event = "tool"
    BY <1>7, <2>1
  <2>3. QED
    BY <2>1, <2>2
<1>10. ASSUME NEW i \in 1 + m + 1 .. all - 1 PROVE events[i].event = "token"
  <2> DEFINE j == i - (1 + m)
  <2>1. j \in 1 .. k /\ 1 + m + j = i
    BY <1>1, <1>2, <1>6
  <2> HIDE DEF j
  <2>2. events[1 + m + j].event = "token"
    BY <1>8, <2>1
  <2>3. QED
    BY <2>1, <2>2
<1>11. [i \in 1 .. all - (1 + m) - 1 |-> events[1 + m + i].text] = chunks
  <2>1. all - (1 + m) - 1 = k
    BY <1>1, <1>2, <1>6
  <2>2. [i \in 1 .. k |-> events[1 + m + i].text] = [i \in 1 .. k |-> chunks[i]]
    BY <1>8
  <2>3. QED
    BY <1>2, <2>1, <2>2
<1>12. all \in Nat /\ 1 + m \in Nat /\ all > 1 + m
  BY <1>1, <1>2, <1>6
<1>13. events[1].event = "meta" /\ events[all].event = "done" /\ events[all].reply = text
  BY <1>3, <1>6
<1>14. QED
  BY <1>6, <1>7, <1>9, <1>10, <1>11, <1>12, <1>13 DEF all, chunks, m

\* What the events of a reply tell whoever reads them.
ReplyTold(events, calls, text) ==
    /\ events[1].event = "meta"
    /\ \A i \in DOMAIN events : events[i].event \in {"done", "error"} <=> i = Len(events)
    /\ Last(events).event = "done" /\ Last(events).reply = text
    /\ EventsTell(events, calls, text)

LEMMA EventsAlwaysTell ==
    ASSUME NEW session, NEW T, NEW C, NEW text \in Seq(T), NEW calls \in Seq(C), NEW outcome,
           outcome.text = text, outcome.calls = calls, ~outcome.failed
    PROVE  ReplyTold(Events(session, outcome), calls, text)
<1> DEFINE events == Events(session, outcome)
           meta == [event |-> "meta", session |-> session]
           done == [event |-> "done", reply |-> text, session |-> session]
           all == Len(events)
           before == 1 + Len(calls)
           chunks == [i \in 1 .. all - before - 1 |-> events[before + i].text]
<1>1. /\ DOMAIN events = 1 .. all /\ all \in Nat /\ before \in Nat /\ all > before
      /\ events[1].event = "meta" /\ events[all].event = "done" /\ events[all].reply = text
      /\ \A i \in 2 .. before : events[i].event = "tool"
      /\ \A i \in 1 .. Len(calls) : events[i + 1].name = calls[i].name
      /\ \A i \in before + 1 .. all - 1 : events[i].event = "token"
      /\ chunks = Chunks(text)
  <2>1. PutTogether(events, meta, ToolEvents(calls), TokenEvents(Chunks(text)), done)
    BY EventsAre
  <2> HIDE DEF events
  <2>2. QED
    BY <2>1, EventKinds
<1>2. Len(calls) \in Nat /\ DOMAIN calls = 1 .. Len(calls)
  BY LenProperties
<1> HIDE DEF events, chunks
<1>3. /\ chunks \in Seq(Seq(T)) /\ Joined(chunks) = text
      /\ \A i \in 1 .. Len(chunks) : Len(chunks[i]) \in 1 .. ChunkMax /\ (i < Len(chunks) => IsChunk(chunks[i]))
  BY <1>1, ChunksAre
<1>4. DOMAIN chunks = 1 .. Len(chunks)
  BY <1>3, LenProperties
<1>5. Last(events) = events[all]
  BY DEF Last
<1> HIDE DEF all
<1>6. \A i \in 1 .. all : i = 1 \/ i \in 2 .. before \/ i \in before + 1 .. all - 1 \/ i = all
  BY <1>1, <1>2
<1>7. /\ 1 \notin 2 .. before /\ all \notin 2 .. before /\ (\A i \in 2 .. before : i \notin before + 1 .. all - 1 /\ i # all)
      /\ 1 \notin before + 1 .. all - 1 /\ all \notin before + 1 .. all - 1 /\ 1 # all
  BY <1>1, <1>2
<1> HIDE DEF before
<1>8. /\ \A i \in 1 .. all : events[i].event \in {"done", "error"} <=> i = all
      /\ \A i \in 1 .. all : events[i].event = "tool" <=> i \in 2 .. before
      /\ \A i \in 1 .. all : events[i].event = "token" <=> i \in before + 1 .. all - 1
  BY <1>1, <1>6, <1>7
<1>9. \A i \in DOMAIN chunks : Len(chunks[i]) \in 1 .. ChunkMax
                               /\ (i < Len(chunks) => Last(chunks[i]) = "mark" \/ Len(chunks[i]) = ChunkMax)
  BY <1>3, <1>4 DEF IsChunk
<1>10. EventsTell(events, calls, text)
  <2>1. \A i \in DOMAIN calls : events[i + 1].name = calls[i].name
    BY <1>1, <1>2
  <2>2. QED
    BY <1>1, <1>3, <1>8, <1>9, <2>1, Zenon DEF EventsTell, chunks, before, all
<1>11. QED
  BY <1>1, <1>5, <1>8, <1>10 DEF ReplyTold, events, all

\* What may come of a turn: an error, or a reply with its calls.
IsOutcome(C, T, outcome) ==
    outcome.failed \in BOOLEAN /\ (~outcome.failed => outcome.text \in Seq(T) /\ outcome.calls \in Seq(C))

ResponseIs(response, authorised, field, accept, session, outcome) ==
    /\ ~authorised => response = [status |-> 401]
    /\ authorised /\ WantsStream(field, accept) => response = [status |-> 200, events |-> Events(session, outcome)]
    /\ authorised /\ ~WantsStream(field, accept) /\ outcome.failed => response = [status |-> 500]
    /\ authorised /\ ~WantsStream(field, accept) /\ ~outcome.failed =>
          response = [status |-> 200, text |-> outcome.text, calls |-> outcome.calls, session |-> session]

LEMMA ResponsesAre ==
    ASSUME NEW session, NEW outcome, NEW accept, NEW authorised \in BOOLEAN, NEW field \in BOOLEAN
    PROVE  ResponseIs(ChatResponse(authorised, field, accept, session, outcome), authorised, field, accept, session, outcome)
<1> DEFINE response == ChatResponse(authorised, field, accept, session, outcome)
           wants == WantsStream(field, accept)
           told == Events(session, outcome)
<1>1. response = IF ~authorised THEN [status |-> 401]
                 ELSE IF wants THEN [status |-> 200, events |-> told]
                 ELSE IF outcome.failed THEN [status |-> 500]
                 ELSE [status |-> 200, text |-> outcome.text, calls |-> outcome.calls, session |-> session]
  BY Zenon DEF ChatResponse
<1> HIDE DEF response, wants, told
<1>2. /\ ~authorised => response = [status |-> 401]
      /\ authorised /\ wants => response = [status |-> 200, events |-> told]
      /\ authorised /\ ~wants /\ outcome.failed => response = [status |-> 500]
      /\ authorised /\ ~wants /\ ~outcome.failed =>
            response = [status |-> 200, text |-> outcome.text, calls |-> outcome.calls, session |-> session]
  BY <1>1
<1>3. QED
  BY <1>2, Zenon DEF ResponseIs, response, wants, told

\* What a stream tells, next to what the plain response says.
OutcomeTold(events, plain) ==
    /\ events[1].event = "meta"
    /\ \A i \in DOMAIN events : events[i].event \in {"done", "error"} <=> i = Len(events)
    /\ plain.status = 500 <=> Last(events).event = "error"
    /\ plain.status = 200 => Last(events).reply = plain.text /\ EventsTell(events, plain.calls, plain.text)

(***************************************************************************)
(* Whatever the reply and its calls, however it was cut and whoever asked  *)
(* for it: the events of a stream tell each call, the whole reply and its  *)
(* end, and say what the plain answer says (build_chat_sse_events,         *)
(* chunk_assistant_text and chat_handler, main.rs).                        *)
(***************************************************************************)
THEOREM StreamsAlwaysShowReply ==
    ASSUME NEW C, NEW T, NEW outcome, IsOutcome(C, T, outcome), NEW authorised \in BOOLEAN, NEW field \in BOOLEAN,
           NEW accept, NEW session
    PROVE  StreamShowsReply(authorised, field, accept, session, outcome)
<1> DEFINE yes == TRUE
           no == FALSE
           none == {}
           streamed == ChatResponse(authorised, yes, accept, session, outcome)
           plain == ChatResponse(authorised, no, none, session, outcome)
           asked == ChatResponse(authorised, field, accept, session, outcome)
           events == Events(session, outcome)
<1>1. WantsStream(yes, accept) /\ ~WantsStream(no, none)
  BY DEF WantsStream
<1>2. yes \in BOOLEAN /\ no \in BOOLEAN
  OBVIOUS
<1> HIDE DEF yes, no, none
<1> DEFINE wanted == WantsStream(field, accept)
           told == events
<1>0. /\ ~authorised => streamed = [status |-> 401]
      /\ authorised => streamed = [status |-> 200, events |-> told]
  <2>1. ResponseIs(streamed, authorised, yes, accept, session, outcome)
    BY <1>2, ResponsesAre, Zenon
  <2> HIDE DEF streamed
  <2>2. QED
    BY <1>1, <2>1, Zenon DEF ResponseIs, told
<1>01. /\ ~authorised => plain = [status |-> 401]
       /\ authorised /\ outcome.failed => plain = [status |-> 500]
       /\ authorised /\ ~outcome.failed =>
             plain = [status |-> 200, text |-> outcome.text, calls |-> outcome.calls, session |-> session]
  <2>1. ResponseIs(plain, authorised, no, none, session, outcome)
    BY <1>2, ResponsesAre, Zenon
  <2> HIDE DEF plain
  <2>2. QED
    BY <1>1, <2>1, Zenon DEF ResponseIs
<1>02. /\ ~authorised => asked = [status |-> 401]
       /\ authorised /\ wanted => asked = [status |-> 200, events |-> told]
       /\ authorised /\ ~wanted /\ outcome.failed => asked = [status |-> 500]
       /\ authorised /\ ~wanted /\ ~outcome.failed =>
             asked = [status |-> 200, text |-> outcome.text, calls |-> outcome.calls, session |-> session]
  <2>1. ResponseIs(asked, authorised, field, accept, session, outcome)
    BY ResponsesAre, Zenon
  <2> HIDE DEF asked
  <2>2. QED
    BY <2>1, Zenon DEF ResponseIs, wanted, told
<1> HIDE DEF streamed, plain, asked, wanted
<1>3. CASE ~authorised
  <2>1. asked \in {streamed, plain} /\ streamed = plain
    BY <1>0, <1>01, <1>02, <1>3
  <2>2. QED
    BY <1>3, <2>1, Zenon DEF StreamShowsReply, streamed, plain, asked, yes, no, none
<1>4. CASE authorised
  <2>1. streamed.events = told
    BY <1>0, <1>4
  <2>2. asked \in {streamed, plain}
    BY <1>0, <1>01, <1>02, <1>4 DEF IsOutcome
  <2>3. OutcomeTold(told, plain)
    <3>1. CASE outcome.failed
      <4> DEFINE meta == [event |-> "meta", session |-> session]
                 error == [event |-> "error"]
                 E == {meta, error}
                 first == <<meta>>
                 last == <<error>>
      <4>1. told = first \o last
        BY <3>1 DEF Events, told
      <4>2. meta.event = "meta" /\ error.event = "error"
        OBVIOUS
      <4>3. plain.status = 500
        BY <1>01, <1>4, <3>1
      <4>4. first \in Seq(E) /\ last \in Seq(E) /\ Len(first) = 1 /\ Len(last) = 1 /\ first[1] = meta /\ last[1] = error
        OBVIOUS
      <4> HIDE DEF meta, error, told, first, last, E
      <4>5. Concatenates(E, told, first, last)
        BY <4>1, <4>4, TwoJoined
      <4>6. told \in Seq(E) /\ Len(told) = 2 /\ told[1] = meta /\ told[2] = error
        BY <4>4, <4>5 DEF Concatenates
      <4>7. DOMAIN told = {1, 2} /\ Last(told) = error
        BY <4>6 DEF Last
      <4>8. QED
        BY <4>2, <4>3, <4>6, <4>7 DEF OutcomeTold
    <3>2. CASE ~outcome.failed
      <4> DEFINE text == outcome.text
                 calls == outcome.calls
      <4>1. text \in Seq(T) /\ calls \in Seq(C)
        BY <3>2 DEF IsOutcome
      <4>2. plain.text = text /\ plain.calls = calls /\ plain.status = 200
        BY <1>01, <1>4, <3>2
      <4>3. outcome.text = text /\ outcome.calls = calls
        OBVIOUS
      <4> HIDE DEF text, calls
      <4>4. ReplyTold(Events(session, outcome), calls, text)
        BY <3>2, <4>1, <4>3, EventsAlwaysTell
      <4> HIDE DEF told
      <4>5. ReplyTold(told, calls, text)
        BY <4>4 DEF told
      <4>6. QED
        BY <4>2, <4>5 DEF ReplyTold, OutcomeTold
    <3>3. QED
      BY <3>1, <3>2 DEF IsOutcome
  <2>4. OutcomeTold(streamed.events, plain)
    BY <2>1, <2>3
  <2>5. QED
    BY <1>4, <2>2, <2>4, Zenon DEF OutcomeTold, StreamShowsReply, streamed, plain, asked, yes, no, none
<1>5. QED
  BY <1>3, <1>4

-----------------------------------------------------------------------------
(* The conversation of the command line *)

LEMMA NumberStep ==
    ASSUME NEW N \in Nat, NEW some, some \subseteq 1 .. N, NEW n \in Nat \ {0}
    PROVE  /\ NumberOf(some, n) \in Nat /\ NumberOf(some, n - 1) \in Nat
           /\ n \in some => NumberOf(some, n) = NumberOf(some, n - 1) + 1
           /\ n \notin some => NumberOf(some, n) = NumberOf(some, n - 1)
<1>1. /\ CountUpTo(some, n) \in Nat /\ CountUpTo(some, n - 1) \in Nat
      /\ CountUpTo(some, n) = IF n \in some THEN CountUpTo(some, n - 1) + 1 ELSE CountUpTo(some, n - 1)
  BY CountUpToStep
<1>2. \A m : NumberOf(some, m) = CountUpTo(some, m)
  BY DEF NumberOf, CountUpTo
<1>3. QED
  BY <1>1, <1>2

\* Going on, there are never fewer; and all of them in the end.
LEMMA NumberGrows ==
    ASSUME NEW N \in Nat, NEW some, some \subseteq 1 .. N
    PROVE  /\ \A n \in Nat : NumberOf(some, n) \in Nat
           /\ NumberOf(some, 0) = 0 /\ NumberOf(some, N) = Cardinality(some)
           /\ \A n \in Nat : \A m \in 0 .. n : NumberOf(some, m) <= NumberOf(some, n)
           /\ \A n \in some : NumberOf(some, n) \in Nat \ {0}
<1>0. \A i \in some : i \in Nat /\ i >= 1 /\ i <= N
  <2>1. \A i \in 1 .. N : i \in Nat /\ i >= 1 /\ i <= N
    OBVIOUS
  <2>2. QED
    BY <2>1
<1>1. ASSUME NEW n \in Nat PROVE NumberOf(some, n) \in Nat
  <2> DEFINE m == n + 1
  <2>1. m \in Nat \ {0} /\ m - 1 = n
    OBVIOUS
  <2> HIDE DEF m
  <2>2. NumberOf(some, m - 1) \in Nat
    BY <2>1, NumberStep
  <2>3. QED
    BY <2>1, <2>2
<1>2. NumberOf(some, 0) = 0
  <2>0. \A i \in some : ~(i <= 0)
    BY <1>0
  <2>1. {i \in some : i <= 0} = {}
    BY <2>0
  <2>2. QED
    BY <2>1, FS_EmptySet DEF NumberOf
<1>3. NumberOf(some, N) = Cardinality(some)
  <2>1. {i \in some : i <= N} = some
    BY <1>0
  <2>2. QED
    BY <2>1 DEF NumberOf
<1>4. ASSUME NEW n \in Nat, NEW m \in 0 .. n PROVE NumberOf(some, m) <= NumberOf(some, n)
  <2> DEFINE below == {i \in some : i <= m}
             upTo == {i \in some : i <= n}
  <2>1. IsFiniteSet(some)
    BY PositionsFinite
  <2>2. below \subseteq upTo /\ IsFiniteSet(upTo)
    <3>0. \A i \in some : i <= m => i <= n
      BY <1>0
    <3>1. below \subseteq upTo /\ upTo \subseteq some
      BY <3>0
    <3>2. QED
      BY <2>1, <3>1, FS_Subset
  <2> HIDE DEF below, upTo
  <2>3. Cardinality(below) <= Cardinality(upTo)
    BY <2>2, FS_Subset
  <2>4. QED
    BY <2>3 DEF NumberOf, below, upTo
<1>5. \A n \in some : NumberOf(some, n) \in Nat \ {0}
  <2> SUFFICES ASSUME NEW n \in some PROVE NumberOf(some, n) \in Nat \ {0}
    OBVIOUS
  <2>1. n \in Nat \ {0}
    BY <1>0
  <2>2. NumberOf(some, n - 1) \in Nat /\ NumberOf(some, n) = NumberOf(some, n - 1) + 1
    BY <2>1, NumberStep
  <2>3. QED
    BY <2>2
<1>6. QED
  BY <1>1, <1>2, <1>3, <1>4, <1>5

\* The inputs that are words of W, and what is said of them.
InputsOf(W) == [word : W, fails : BOOLEAN]
SaidOf(W) == [role : {"user", "assistant"}, word : W]

SentOf(inputs) == {i \in DOMAIN inputs : inputs[i].word # "blank" /\ \A j \in 1 .. i : ~Stops(inputs[j])}
AnsweredOf(inputs) == {i \in SentOf(inputs) : ~inputs[i].fails}

RequestIs(inputs, i, request) ==
    /\ Len(request) = 2 * NumberOf(AnsweredOf(inputs), i - 1) + 1 /\ HasTurns(request, inputs, AnsweredOf(inputs), i - 1)
    /\ <<Last(request)>> = SingleChat(inputs[i].word)

HistoryIs(inputs, n, history) ==
    Len(history) = 2 * NumberOf(AnsweredOf(inputs), n) /\ HasTurns(history, inputs, AnsweredOf(inputs), n)

RequestsAre(inputs, n, requests) ==
    /\ Len(requests) = NumberOf(SentOf(inputs), n)
    /\ \A i \in SentOf(inputs) : i <= n => RequestIs(inputs, i, requests[NumberOf(SentOf(inputs), i)])

ReplStates(W) == [runs : BOOLEAN, requests : Seq(Seq(SaidOf(W))), history : Seq(SaidOf(W))]

ReplInv(W, inputs, n) ==
    {repl \in ReplStates(W) :
        /\ repl.runs <=> \A j \in 1 .. n : ~Stops(inputs[j])
        /\ RequestsAre(inputs, n, repl.requests)
        /\ HistoryIs(inputs, n, repl.history)}

LEMMA SentAre ==
    ASSUME NEW W, NEW inputs \in Seq(InputsOf(W))
    PROVE  /\ Len(inputs) \in Nat /\ DOMAIN inputs = 1 .. Len(inputs)
           /\ SentOf(inputs) \subseteq 1 .. Len(inputs) /\ AnsweredOf(inputs) \subseteq 1 .. Len(inputs)
BY LenProperties DEF SentOf, AnsweredOf

\* Turns that are had stay, whatever comes after them.
LEMMA TurnsStay ==
    ASSUME NEW N \in Nat, NEW some, some \subseteq 1 .. N, NEW inputs, NEW n \in Nat, NEW messages, NEW longer,
           HasTurns(messages, inputs, some, n), Len(messages) = 2 * NumberOf(some, n),
           \A k \in 1 .. Len(messages) : longer[k] = messages[k]
    PROVE  HasTurns(longer, inputs, some, n)
<1> SUFFICES ASSUME NEW i \in some, i <= n
             PROVE  /\ longer[2 * NumberOf(some, i) - 1] = Said("user", inputs[i].word)
                    /\ longer[2 * NumberOf(some, i)] = Said("assistant", inputs[i].word)
  BY DEF HasTurns
<1> DEFINE a == NumberOf(some, i)
           b == NumberOf(some, n)
           x == 2 * a - 1
           y == 2 * a
<1>1. i \in 0 .. n
  OBVIOUS
<1>2. a \in Nat /\ b \in Nat /\ a <= b /\ a >= 1
  <2>1. a \in Nat \ {0} /\ b \in Nat
    BY NumberGrows
  <2>2. a <= b
    BY <1>1, NumberGrows
  <2>3. QED
    BY <2>1, <2>2
<1>3. x \in 1 .. Len(messages) /\ y \in 1 .. Len(messages)
  BY <1>2
<1>4. messages[x] = Said("user", inputs[i].word) /\ messages[y] = Said("assistant", inputs[i].word)
  BY DEF HasTurns
<1> HIDE DEF x, y
<1>5. longer[x] = messages[x] /\ longer[y] = messages[y]
  BY <1>3
<1>6. QED
  BY <1>4, <1>5 DEF x, y

\* The conversation after an input that is not answered, or is.
LEMMA HistoryStays ==
    ASSUME NEW W, NEW inputs \in Seq(InputsOf(W)), NEW n \in 1 .. Len(inputs), NEW history,
           HistoryIs(inputs, n - 1, history), n \notin AnsweredOf(inputs)
    PROVE  HistoryIs(inputs, n, history)
<1> DEFINE some == AnsweredOf(inputs)
           N == Len(inputs)
<1>1. N \in Nat /\ some \subseteq 1 .. N
  BY SentAre
<1>2. NumberOf(some, n) = NumberOf(some, n - 1)
  BY <1>1, NumberStep
<1>3. \A i \in some : i <= n => i <= n - 1
  BY <1>1
<1>4. HasTurns(history, inputs, some, n)
  BY <1>3 DEF HistoryIs, HasTurns
<1>5. QED
  BY <1>2, <1>4 DEF HistoryIs

LEMMA HistoryGrows ==
    ASSUME NEW W, NEW inputs \in Seq(InputsOf(W)), NEW n \in 1 .. Len(inputs), NEW history \in Seq(SaidOf(W)), NEW longer,
           HistoryIs(inputs, n - 1, history), n \in AnsweredOf(inputs),
           Len(longer) = Len(history) + 2, \A k \in 1 .. Len(history) : longer[k] = history[k],
           longer[Len(history) + 1] = Said("user", inputs[n].word),
           longer[Len(history) + 2] = Said("assistant", inputs[n].word)
    PROVE  HistoryIs(inputs, n, longer)
<1> DEFINE some == AnsweredOf(inputs)
           N == Len(inputs)
           a == NumberOf(some, n)
           b == NumberOf(some, n - 1)
           h == Len(history)
<1>1. N \in Nat /\ some \subseteq 1 .. N /\ n - 1 \in Nat
  BY SentAre
<1>2. a = b + 1 /\ a \in Nat /\ b \in Nat
  BY <1>1, NumberStep
<1>3. h = 2 * b /\ HasTurns(history, inputs, some, n - 1)
  BY DEF HistoryIs
<1> HIDE DEF some, a, b, h
<1>4. HasTurns(longer, inputs, some, n - 1)
  <2>1. \A k \in 1 .. Len(history) : longer[k] = history[k]
    OBVIOUS
  <2>2. Len(history) = 2 * NumberOf(some, n - 1)
    BY <1>3 DEF h, b
  <2>3. QED
    BY <1>1, <1>3, <2>1, <2>2, TurnsStay
<1>5. 2 * a - 1 = h + 1 /\ 2 * a = h + 2
  BY <1>2, <1>3
<1>6. longer[2 * a - 1] = Said("user", inputs[n].word) /\ longer[2 * a] = Said("assistant", inputs[n].word)
  <2>1. longer[h + 1] = Said("user", inputs[n].word) /\ longer[h + 2] = Said("assistant", inputs[n].word)
    BY DEF h
  <2>2. QED
    BY <1>5, <2>1
<1>7. HasTurns(longer, inputs, some, n)
  <2> SUFFICES ASSUME NEW i \in some, i <= n
               PROVE  /\ longer[2 * NumberOf(some, i) - 1] = Said("user", inputs[i].word)
                      /\ longer[2 * NumberOf(some, i)] = Said("assistant", inputs[i].word)
    BY DEF HasTurns
  <2>1. CASE i = n
    BY <1>6, <2>1 DEF a
  <2>2. CASE i # n
    <3>1. i <= n - 1
      BY <1>1, <2>2
    <3>2. QED
      BY <1>4, <3>1 DEF HasTurns
  <2>3. QED
    BY <2>1, <2>2
<1>8. Len(longer) = 2 * a
  BY <1>5 DEF h
<1>9. QED
  BY <1>7, <1>8 DEF HistoryIs, some, a

\* The requests after an input that is not sent, or is.
LEMMA RequestsStay ==
    ASSUME NEW W, NEW inputs \in Seq(InputsOf(W)), NEW n \in 1 .. Len(inputs), NEW requests,
           RequestsAre(inputs, n - 1, requests), n \notin SentOf(inputs)
    PROVE  RequestsAre(inputs, n, requests)
<1> DEFINE some == SentOf(inputs)
           N == Len(inputs)
<1>1. N \in Nat /\ some \subseteq 1 .. N
  BY SentAre
<1>2. NumberOf(some, n) = NumberOf(some, n - 1)
  BY <1>1, NumberStep
<1>3. \A i \in some : i <= n => i <= n - 1
  BY <1>1
<1>4. QED
  BY <1>2, <1>3 DEF RequestsAre

LEMMA RequestsGrow ==
    ASSUME NEW W, NEW inputs \in Seq(InputsOf(W)), NEW n \in 1 .. Len(inputs), NEW requests, NEW more, NEW request,
           RequestsAre(inputs, n - 1, requests), n \in SentOf(inputs), RequestIs(inputs, n, request),
           Len(more) = Len(requests) + 1, \A k \in 1 .. Len(requests) : more[k] = requests[k],
           more[Len(requests) + 1] = request
    PROVE  RequestsAre(inputs, n, more)
<1> DEFINE some == SentOf(inputs)
           N == Len(inputs)
           a == NumberOf(some, n)
           b == NumberOf(some, n - 1)
<1>1. N \in Nat /\ some \subseteq 1 .. N /\ n - 1 \in Nat
  BY SentAre
<1>2. a = b + 1 /\ a \in Nat /\ b \in Nat
  BY <1>1, NumberStep
<1>3. Len(requests) = b /\ Len(more) = a /\ more[a] = request
  BY <1>2 DEF RequestsAre
<1> HIDE DEF some
<1>4. ASSUME NEW i \in some, i <= n PROVE RequestIs(inputs, i, more[NumberOf(some, i)])
  <2>1. CASE i = n
    BY <1>3, <2>1
  <2>2. CASE i # n
    <3>1. i \in 0 .. n - 1 /\ i <= n - 1
      BY <1>1, <1>4, <2>2
    <3> DEFINE k == NumberOf(some, i)
    <3>2. k \in Nat /\ k <= b /\ k >= 1
      <4>1. k \in Nat \ {0}
        BY <1>1, NumberGrows
      <4>2. k <= b
        BY <1>1, <3>1, NumberGrows
      <4>3. QED
        BY <4>1, <4>2
    <3>3. RequestIs(inputs, i, requests[k])
      BY <3>1 DEF RequestsAre, some
    <3> HIDE DEF k, b
    <3>4. more[k] = requests[k]
      BY <1>2, <1>3, <3>2
    <3>5. QED
      BY <3>3, <3>4 DEF k
  <2>3. QED
    BY <2>1, <2>2
<1>5. QED
  BY <1>3, <1>4 DEF RequestsAre, some

LEMMA ReplBegins == \A W : \A inputs \in Seq(InputsOf(W)) : ReplStart \in ReplInv(W, inputs, 0)
<1> SUFFICES ASSUME NEW W, NEW inputs \in Seq(InputsOf(W)) PROVE ReplStart \in ReplInv(W, inputs, 0)
  OBVIOUS
<1> DEFINE sent == SentOf(inputs)
           answered == AnsweredOf(inputs)
           N == Len(inputs)
           empty == <<>>
<1>1. N \in Nat /\ sent \subseteq 1 .. N /\ answered \subseteq 1 .. N
  BY SentAre
<1>2. NumberOf(sent, 0) = 0 /\ NumberOf(answered, 0) = 0
  BY <1>1, NumberGrows
<1>3. empty \in Seq(SaidOf(W)) /\ empty \in Seq(Seq(SaidOf(W))) /\ Len(empty) = 0
  BY EmptySeq
<1>4. (\A i \in sent : ~(i <= 0)) /\ \A i \in answered : ~(i <= 0)
  BY <1>1
<1> HIDE DEF empty
<1>5. RequestsAre(inputs, 0, empty)
  BY <1>2, <1>3, <1>4 DEF RequestsAre
<1>6. HistoryIs(inputs, 0, empty)
  BY <1>2, <1>3, <1>4 DEF HistoryIs, HasTurns
<1>7. ReplStart = [runs |-> TRUE, requests |-> empty, history |-> empty]
  BY DEF ReplStart, empty
<1>8. ReplStart \in ReplStates(W) /\ ReplStart.runs /\ ReplStart.requests = empty /\ ReplStart.history = empty
  BY <1>3, <1>7 DEF ReplStates
<1>9. \A j \in 1 .. 0 : ~Stops(inputs[j])
  OBVIOUS
<1>10. QED
  BY <1>5, <1>6, <1>8, <1>9 DEF ReplInv

LEMMA ReplGoesOn ==
    ASSUME NEW W, NEW inputs \in Seq(InputsOf(W)), NEW n \in 1 .. Len(inputs), NEW so \in ReplInv(W, inputs, n - 1)
    PROVE  ReplStep(so, inputs[n]) \in ReplInv(W, inputs, n)
<1> DEFINE input == inputs[n]
           sent == SentOf(inputs)
           answered == AnsweredOf(inputs)
           N == Len(inputs)
           X == SaidOf(W)
           next == ReplStep(so, input)
           ask == Said("user", input.word)
           answer == Said("assistant", input.word)
           asked == Append(so.history, ask)
           both == Append(asked, answer)
           requests == Append(so.requests, asked)
<1>1. N \in Nat /\ sent \subseteq 1 .. N /\ answered \subseteq 1 .. N /\ n - 1 \in Nat /\ DOMAIN inputs = 1 .. N
  BY SentAre
<1>2. input \in InputsOf(W)
  BY ElementOfSeq
<1>3. input.word \in W /\ input.fails \in BOOLEAN
  BY <1>2 DEF InputsOf
<1>4. /\ so \in ReplStates(W) /\ so.runs \in BOOLEAN /\ so.requests \in Seq(Seq(X)) /\ so.history \in Seq(X)
      /\ (so.runs <=> \A j \in 1 .. n - 1 : ~Stops(inputs[j]))
      /\ RequestsAre(inputs, n - 1, so.requests) /\ HistoryIs(inputs, n - 1, so.history)
  BY DEF ReplInv, ReplStates
<1>5. n \in sent <=> (so.runs /\ input.word # "blank" /\ ~Stops(input))
  <2>1. \A j \in 1 .. n : j \in 1 .. n - 1 \/ j = n
    BY <1>1
  <2>2. n \in 1 .. n /\ \A j \in 1 .. n - 1 : j \in 1 .. n
    BY <1>1
  <2>3. QED
    BY <1>1, <1>4, <2>1, <2>2 DEF SentOf
<1>6. n \in answered <=> n \in sent /\ ~input.fails
  BY DEF AnsweredOf
<1>7. (\A j \in 1 .. n : ~Stops(inputs[j])) <=> so.runs /\ ~Stops(input)
  <2>1. \A j \in 1 .. n : j \in 1 .. n - 1 \/ j = n
    BY <1>1
  <2>2. n \in 1 .. n /\ \A j \in 1 .. n - 1 : j \in 1 .. n
    BY <1>1
  <2>3. QED
    BY <1>4, <2>1, <2>2
<1>8. input.word = "blank" => ~Stops(input)
  BY DEF Stops
<1>9. ask \in X /\ answer \in X
  BY <1>3 DEF Said, SaidOf
<1> DEFINE h == Len(so.history)
           r == Len(so.requests)
<1>10. /\ asked \in Seq(X) /\ Len(asked) = h + 1 /\ asked[h + 1] = ask /\ h \in Nat
       /\ \A k \in 1 .. h : asked[k] = so.history[k]
  BY <1>4, <1>9, AppendProperties, LenProperties
<1>11. /\ requests \in Seq(Seq(X)) /\ Len(requests) = r + 1 /\ requests[r + 1] = asked
       /\ \A k \in 1 .. r : requests[k] = so.requests[k]
  BY <1>4, <1>10, AppendProperties
<1> HIDE DEF asked, ask, answer
<1>12. /\ both \in Seq(X) /\ Len(both) = h + 2 /\ both[h + 1] = ask /\ both[h + 2] = answer
       /\ \A k \in 1 .. h : both[k] = so.history[k]
  <2>1. /\ both \in Seq(X) /\ Len(both) = h + 1 + 1 /\ both[h + 1 + 1] = answer
        /\ \A k \in 1 .. h + 1 : both[k] = asked[k]
    BY <1>9, <1>10, AppendProperties
  <2> HIDE DEF both
  <2>2. h + 1 + 1 = h + 2 /\ h + 1 \in 1 .. h + 1 /\ \A k \in 1 .. h : k \in 1 .. h + 1
    BY <1>10
  <2>3. QED
    BY <1>10, <2>1, <2>2
<1> HIDE DEF both, requests, input
<1>13. CASE ~so.runs \/ input.word = "blank"
  <2>1. next = so
    BY <1>13, Zenon DEF ReplStep
  <2>2. n \notin sent /\ n \notin answered
    BY <1>5, <1>6, <1>13
  <2>3. RequestsAre(inputs, n, so.requests) /\ HistoryIs(inputs, n, so.history)
    BY <1>4, <2>2, RequestsStay, HistoryStays
  <2>4. so.runs <=> \A j \in 1 .. n : ~Stops(inputs[j])
    BY <1>7, <1>8, <1>13
  <2> HIDE DEF next
  <2>5. next \in ReplInv(W, inputs, n)
    BY <1>4, <2>1, <2>3, <2>4 DEF ReplInv
  <2>6. QED
    BY <2>5 DEF next, input
<1>14. CASE so.runs /\ input.word # "blank" /\ Stops(input)
  <2>1. next = [runs |-> FALSE, requests |-> so.requests, history |-> so.history]
    BY <1>14, Zenon DEF ReplStep
  <2>2. n \notin sent /\ n \notin answered
    BY <1>5, <1>6, <1>14
  <2>3. RequestsAre(inputs, n, so.requests) /\ HistoryIs(inputs, n, so.history)
    BY <1>4, <2>2, RequestsStay, HistoryStays
  <2>4. ~(\A j \in 1 .. n : ~Stops(inputs[j]))
    BY <1>7, <1>14
  <2> HIDE DEF next
  <2>5. next \in ReplStates(W) /\ ~next.runs /\ next.requests = so.requests /\ next.history = so.history
    BY <1>4, <2>1 DEF ReplStates
  <2>6. next \in ReplInv(W, inputs, n)
    BY <2>3, <2>4, <2>5 DEF ReplInv
  <2>7. QED
    BY <2>6 DEF next, input
<1>15. CASE so.runs /\ input.word # "blank" /\ ~Stops(input)
  <2>1. next = [runs |-> TRUE, requests |-> requests, history |-> IF input.fails THEN so.history ELSE both]
    BY <1>15, Zenon DEF ReplStep, requests, both, asked, ask, answer
  <2>2. n \in sent /\ (n \in answered <=> ~input.fails)
    BY <1>5, <1>6, <1>15
  <2>3. RequestIs(inputs, n, asked)
    <3>1. h = 2 * NumberOf(answered, n - 1) /\ HasTurns(so.history, inputs, answered, n - 1)
      BY <1>4 DEF HistoryIs
    <3>2. HasTurns(asked, inputs, answered, n - 1)
      BY <1>1, <1>10, <3>1, TurnsStay
    <3>3. Last(asked) = ask
      BY <1>10 DEF Last
    <3>4. <<Last(asked)>> = SingleChat(input.word)
      BY <3>3, Zenon DEF SingleChat, ask
    <3>5. Len(asked) = 2 * NumberOf(answered, n - 1) + 1
      BY <1>10, <3>1
    <3>6. QED
      BY <3>2, <3>4, <3>5, Zenon DEF RequestIs, input
  <2>4. RequestsAre(inputs, n, requests)
    BY <1>4, <1>11, <2>2, <2>3, RequestsGrow
  <2> DEFINE history == IF input.fails THEN so.history ELSE both
  <2>5. history \in Seq(X) /\ HistoryIs(inputs, n, history)
    <3>1. CASE input.fails
      <4>1. HistoryIs(inputs, n, so.history)
        BY <1>4, <2>2, <3>1, HistoryStays
      <4>2. history = so.history
        BY <3>1
      <4> HIDE DEF history
      <4>3. QED
        BY <1>4, <4>1, <4>2
    <3>2. CASE ~input.fails
      <4>1. both[h + 1] = Said("user", inputs[n].word) /\ both[h + 2] = Said("assistant", inputs[n].word)
        BY <1>12 DEF ask, answer, input
      <4>2. HistoryIs(inputs, n, both)
        BY <1>4, <1>12, <2>2, <3>2, <4>1, HistoryGrows
      <4>3. history = both
        BY <3>2
      <4> HIDE DEF history
      <4>4. QED
        BY <1>12, <4>2, <4>3
    <3>3. QED
      BY <1>3, <3>1, <3>2
  <2>6. \A j \in 1 .. n : ~Stops(inputs[j])
    BY <1>7, <1>15
  <2> HIDE DEF next, history
  <2>7. next = [runs |-> TRUE, requests |-> requests, history |-> history]
    BY <2>1 DEF history
  <2>8. next \in ReplStates(W) /\ next.runs /\ next.requests = requests /\ next.history = history
    BY <1>11, <2>5, <2>7 DEF ReplStates
  <2>9. next \in ReplInv(W, inputs, n)
    BY <2>4, <2>5, <2>6, <2>8 DEF ReplInv
  <2>10. QED
    BY <2>9 DEF next, input
<1>16. QED
  BY <1>4, <1>13, <1>14, <1>15

\* The conversation after each input.
LEMMA ReplSoFarIs ==
    ASSUME NEW W, NEW inputs \in Seq(InputsOf(W))
    PROVE  /\ ReplUpTo(inputs)[0] = ReplStart
           /\ \A n \in 1 .. Len(inputs) : ReplUpTo(inputs)[n] = ReplStep(ReplUpTo(inputs)[n - 1], inputs[n])
           /\ \A n \in 0 .. Len(inputs) : ReplUpTo(inputs)[n] \in ReplInv(W, inputs, n)
<1> DEFINE N == Len(inputs)
           S == ReplStates(W)
           Solves(f) == f = [n \in 0 .. N |-> IF n = 0 THEN ReplStart ELSE ReplStep(f[n - 1], inputs[n])]
           step == [p \in (1 .. N) \X S |-> ReplStep(p[2], inputs[p[1]])]
           inv == [n \in 0 .. N |-> ReplInv(W, inputs, n)]
<1>1. N \in Nat
  BY LenProperties
<1>2. 0 \in 0 .. N /\ \A n \in 1 .. N : n \in 0 .. N /\ n - 1 \in 0 .. N /\ n # 0
  BY <1>1
<1>3. \A n \in 0 .. N : inv[n] \subseteq S
  BY DEF ReplInv
<1>4. ReplStart \in inv[0]
  BY <1>2, ReplBegins
<1>5. \A n \in 1 .. N : \A so \in inv[n - 1] : ReplStep(so, inputs[n]) \in inv[n]
  BY <1>2, ReplGoesOn
<1>6. ASSUME NEW n \in 1 .. N, NEW so \in inv[n - 1] PROVE step[<<n, so>>] = ReplStep(so, inputs[n])
  <2> HIDE DEF inv, S
  <2>1. so \in S
    BY <1>2, <1>3
  <2>2. <<n, so>> \in (1 .. N) \X S
    BY <2>1
  <2>3. QED
    BY <2>2
<1> HIDE DEF inv, step, S
<1>7. PICK f \in RunsOf(N, S) : Recurs(f, N, ReplStart, step) /\ \A n \in 0 .. N : f[n] \in inv[n]
  <2> HIDE DEF N
  <2>1. ASSUME NEW n \in 1 .. N, NEW so \in inv[n - 1] PROVE step[<<n, so>>] \in inv[n]
    BY <1>5, <1>6
  <2>2. QED
    BY <1>1, <1>3, <1>4, <2>1, KeptRecursion
<1>8. Solves(f)
  <2>1. \A n \in 1 .. N : f[n] = ReplStep(f[n - 1], inputs[n])
    BY <1>2, <1>6, <1>7 DEF Recurs
  <2>2. f = [n \in 0 .. N |-> f[n]]
    BY <1>7 DEF RunsOf
  <2>3. \A n \in 0 .. N : n # 0 => n \in 1 .. N
    BY <1>1
  <2>4. f[0] = ReplStart
    BY <1>7 DEF Recurs
  <2>5. QED
    BY <2>1, <2>2, <2>3, <2>4
<1> DEFINE run == ReplUpTo(inputs)
<1>9. run = CHOOSE g : Solves(g)
  BY DEF ReplUpTo
<1> HIDE DEF Solves
<1>10. Solves(run)
  BY <1>8, <1>9
<1> HIDE DEF run
<1>11. \A n \in 0 .. N : run[n] = IF n = 0 THEN ReplStart ELSE ReplStep(run[n - 1], inputs[n])
  BY <1>10 DEF Solves
<1>12. run[0] = ReplStart /\ \A n \in 1 .. N : run[n] = ReplStep(run[n - 1], inputs[n])
  BY <1>2, <1>11
<1> DEFINE good == {n \in 0 .. N : run[n] \in inv[n]}
<1>13. 0 \in good
  BY <1>2, <1>4, <1>12
<1>14. \A n \in 0 .. N - 1 : n \in good => n + 1 \in good
  <2> SUFFICES ASSUME NEW n \in 0 .. N - 1, n \in good PROVE n + 1 \in good
    OBVIOUS
  <2>1. n + 1 \in 1 .. N /\ n + 1 \in 0 .. N /\ n + 1 - 1 = n
    BY <1>1
  <2>2. run[n + 1] = ReplStep(run[n], inputs[n + 1])
    BY <1>12, <2>1
  <2>3. QED
    BY <1>5, <2>1, <2>2
<1>15. 0 .. N \subseteq good
  <2> HIDE DEF good, N
  <2>1. QED
    BY <1>1, <1>13, <1>14, Reaches
<1>16. \A n \in 0 .. N : run[n] \in ReplInv(W, inputs, n)
  BY <1>15 DEF inv
<1>17. QED
  BY <1>12, <1>16 DEF run, N

(***************************************************************************)
(* Whatever is typed, for as long as it is, and whichever turns fail: the  *)
(* conversation of the command line has each answered turn and nothing of  *)
(* the others, each request all of it and one more question, and nothing   *)
(* is sent after the end (repl_chat, main.rs).                             *)
(***************************************************************************)
THEOREM ReplAlwaysKeepsTurns ==
    ASSUME NEW W, NEW inputs \in Seq(InputsOf(W))
    PROVE  ReplKeepsTurns(inputs)
<1> DEFINE N == Len(inputs)
           repl == Repl(inputs)
           sent == SentOf(inputs)
           answered == AnsweredOf(inputs)
<1>1. N \in Nat /\ N \in 0 .. N /\ DOMAIN inputs = 1 .. N /\ sent \subseteq 1 .. N /\ answered \subseteq 1 .. N
  BY SentAre
<1>2. repl \in ReplInv(W, inputs, N)
  BY <1>1, ReplSoFarIs DEF Repl
<1>3. NumberOf(sent, N) = Cardinality(sent) /\ NumberOf(answered, N) = Cardinality(answered)
  BY <1>1, NumberGrows
<1> HIDE DEF repl
<1>4. /\ RequestsAre(inputs, N, repl.requests) /\ HistoryIs(inputs, N, repl.history)
      /\ (repl.runs <=> \A i \in 1 .. N : ~Stops(inputs[i]))
  BY <1>2 DEF ReplInv
<1>5. \A i \in sent : i <= N
  BY <1>1
<1>6. \A i \in sent : RequestIs(inputs, i, repl.requests[NumberOf(sent, i)])
  BY <1>4, <1>5 DEF RequestsAre
<1>7. Len(repl.requests) = Cardinality(sent)
  BY <1>3, <1>4 DEF RequestsAre
<1>8. Len(repl.history) = 2 * Cardinality(answered) /\ HasTurns(repl.history, inputs, answered, N)
  BY <1>3, <1>4 DEF HistoryIs
<1>9. repl.runs <=> \A i \in DOMAIN inputs : ~Stops(inputs[i])
  BY <1>1, <1>4
<1>10. QED
  BY <1>6, <1>7, <1>8, <1>9, Zenon DEF ReplKeepsTurns, RequestIs, SentOf, AnsweredOf, repl

-----------------------------------------------------------------------------
(* Turns of the stub *)

\* A message whose text is of some keywords: a call of a tool has the name of its block in it.
StubMessages(K) ==
    {message \in [role : {"user", "assistant"}, words : SUBSET K] : "block" \in message.words => "tool" \in message.words}

StubTools == {"workspace_list", "memory_read", "datetime_now", "file_list"}

\* The calls of an answer are none, one of the stub's own, or those written in the text it quotes.
CallsOne(calls, quoted) ==
    calls = <<>> \/ (\E tool \in StubTools : calls = <<tool>>) \/ (\E rule \in Quoting : calls = quoted[rule])

LEMMA StubCallsAre ==
    ASSUME NEW text, "block" \in text => "tool" \in text, NEW quoted
    PROVE  CallsOne(StubCalls(text, quoted), quoted) /\ ("results" \in text => StubCalls(text, quoted) = <<>>)
<1> DEFINE fitting == {i \in DOMAIN ToolRules : Fits(ToolRules[i], text)}
           first == FirstOf(fitting)
           ended == text \cap {"results", "succeeded"} # {}
           texts == {i \in DOMAIN TextRules : TextRules[i] \in text}
           rule == TextRules[FirstOf(texts)]
           one == <<ToolRules[first].tool>>
           empty == <<>>
           message == <<"message">>
<1>1. texts # {} \/ "block" \notin text
  <2>1. TextRules[2] = "tool" /\ 2 \in DOMAIN TextRules
    BY DEF TextRules
  <2>2. QED
    BY <2>1
<1>2. "results" \in text => ended
  OBVIOUS
<1>3. \A i \in DOMAIN ToolRules : i \in Nat /\ ToolRules[i].tool \in StubTools
  <2>1. DOMAIN ToolRules = 1 .. 4
    BY DEF ToolRules
  <2>2. /\ ToolRules[1].tool = "workspace_list" /\ ToolRules[2].tool = "memory_read"
        /\ ToolRules[3].tool = "datetime_now" /\ ToolRules[4].tool = "file_list"
    BY DEF ToolRules
  <2>3. \A i \in 1 .. 4 : i \in Nat /\ (i = 1 \/ i = 2 \/ i = 3 \/ i = 4)
    OBVIOUS
  <2>4. QED
    BY <2>1, <2>2, <2>3 DEF StubTools
<1>4. fitting # {} => first \in DOMAIN ToolRules
  <2> HAVE fitting # {}
  <2>1. fitting \subseteq Nat
    BY <1>3
  <2>2. \E i \in fitting : \A j \in fitting : i <= j
    BY <2>1, LeastNatural
  <2> HIDE DEF fitting
  <2>3. first \in fitting
    BY <2>2 DEF FirstOf
  <2>4. QED
    BY <2>3 DEF fitting
<1>5. StubCalls(text, quoted) = IF ended THEN empty
                                ELSE IF fitting # {} THEN one
                                ELSE IF texts # {} THEN IF rule \in Quoting THEN quoted[rule] ELSE empty
                                ELSE IF "block" \in text THEN message ELSE empty
  BY Zenon DEF StubCalls
<1> HIDE DEF ended, fitting, first, texts, rule
<1>6. fitting # {} => \E tool \in StubTools : one = <<tool>>
  BY <1>3, <1>4
<1> HIDE DEF one, empty, message
<1>7. \/ StubCalls(text, quoted) = empty
      \/ fitting # {} /\ StubCalls(text, quoted) = one
      \/ rule \in Quoting /\ StubCalls(text, quoted) = quoted[rule]
  BY <1>1, <1>5, Zenon
<1>8. "results" \in text => StubCalls(text, quoted) = empty
  BY <1>2, <1>5
<1>9. CallsOne(StubCalls(text, quoted), quoted)
  BY <1>6, <1>7, Zenon DEF CallsOne, empty
<1>10. QED
  BY <1>8, <1>9 DEF empty

\* The last message of the user is answered.
LEMMA StubChatIs ==
    ASSUME NEW K, NEW messages \in Seq(StubMessages(K)), NEW quoted
    PROVE  /\ CallsOne(StubChat(messages, quoted), quoted)
           /\ messages # <<>> /\ Last(messages).role = "user" /\ "results" \in Last(messages).words
                => StubChat(messages, quoted) = <<>>
<1> DEFINE N == Len(messages)
           asked == {i \in DOMAIN messages : messages[i].role = "user"}
           last == CHOOSE i \in asked : \A j \in asked : j <= i
           text == IF asked = {} THEN {} ELSE messages[last].words
<1>1. N \in Nat /\ DOMAIN messages = 1 .. N /\ \A i \in 1 .. N : messages[i] \in StubMessages(K)
  BY LenProperties, ElementOfSeq
<1>2. \A i \in 1 .. N : "block" \in messages[i].words => "tool" \in messages[i].words
  BY <1>1 DEF StubMessages
<1>3. asked # {} => last \in asked /\ \A j \in asked : j <= last
  <2> HAVE asked # {}
  <2>1. asked \in SUBSET (0 .. N)
    BY <1>1
  <2> HIDE DEF asked
  <2>2. \E i \in asked : \A j \in asked : j <= i
    BY <1>1, <2>1, GreatestNatural
  <2>3. QED
    BY <2>2
<1>4. StubChat(messages, quoted) = StubCalls(text, quoted)
  BY Zenon DEF StubChat
<1> HIDE DEF last
<1>5. "block" \in text => "tool" \in text
  BY <1>1, <1>2, <1>3
<1>6. ASSUME messages # <<>>, Last(messages).role = "user", "results" \in Last(messages).words
      PROVE  "results" \in text
  <2>1. N \in 1 .. N /\ Last(messages) = messages[N]
    BY <1>1, <1>6, EmptySeq DEF Last
  <2>2. N \in asked
    BY <1>1, <1>6, <2>1
  <2>3. \A i \in asked : i \in Nat /\ i <= N
    BY <1>1
  <2> HIDE DEF asked
  <2>4. last = N
    BY <1>1, <1>3, <2>2, <2>3
  <2>5. text = messages[N].words
    BY <2>2, <2>4
  <2>6. QED
    BY <1>6, <2>1, <2>5
<1> HIDE DEF text
<1>7. QED
  BY <1>4, <1>5, <1>6, StubCallsAre

\* The messages after the results of a round.
After(messages, output) == messages \o <<[role |-> "assistant", words |-> {}], Feedback(output)>>

LEMMA AfterIsAnswered ==
    ASSUME NEW K, {"results", "tool"} \subseteq K, NEW messages \in Seq(StubMessages(K)), NEW quoted, NEW output \in SUBSET K
    PROVE  StubChat(After(messages, output), quoted) = <<>>
<1> DEFINE quiet == [role |-> "assistant", words |-> {}]
           back == Feedback(output)
           two == <<quiet, back>>
           all == messages \o two
           M == StubMessages(K)
<1>1. back.role = "user" /\ "results" \in back.words /\ back.words \subseteq K /\ "tool" \in K
      /\ ("block" \in back.words => "tool" \in back.words)
  BY DEF Feedback, WordsOf
<1>2. back \in M
  <2>1. back = [role |-> "user", words |-> back.words]
    BY DEF Feedback
  <2>2. QED
    BY <1>1, <2>1 DEF StubMessages
<1>3. quiet \in M
  BY DEF StubMessages
<1> HIDE DEF quiet, back, M
<1>4. two \in Seq(M) /\ Len(two) = 2 /\ two[2] = back
  BY <1>2, <1>3
<1> HIDE DEF two
<1>5. Concatenates(M, all, messages, two)
  BY <1>4, TwoJoined DEF M
<1> HIDE DEF all
<1>6. all \in Seq(M) /\ Len(all) = Len(messages) + 2 /\ all[Len(messages) + 2] = back /\ Len(messages) \in Nat
  <2>1. Len(messages) \in Nat
    BY LenProperties
  <2>2. QED
    BY <1>4, <1>5, <2>1 DEF Concatenates
<1>7. all # <<>> /\ Last(all) = back
  BY <1>6, EmptySeq DEF Last
<1>8. StubChat(all, quoted) = <<>>
  BY <1>1, <1>6, <1>7, StubChatIs DEF M
<1>9. QED
  BY <1>8, Zenon DEF After, all, two, quiet, back

\* The names of the calls that an answer holds.
LEMMA StubNamesAre ==
    ASSUME NEW Offered, NEW quoted \in [Quoting -> Seq(Offered)], NEW calls, CallsOne(calls, quoted)
    PROVE  calls \in Seq(StubTools \cup Offered)
<1> DEFINE T == StubTools \cup Offered
<1>1. \A rule \in Quoting : quoted[rule] \in Seq(T)
  <2>1. ASSUME NEW s \in Seq(Offered) PROVE s \in Seq(T)
    <3>1. Len(s) \in Nat /\ \A i \in 1 .. Len(s) : s[i] \in T
      BY ElementOfSeq, LenProperties
    <3>2. QED
      BY <3>1, SeqDef, LenProperties
  <2>2. QED
    BY <2>1
<1>2. \A tool \in StubTools : <<tool>> \in Seq(T)
  BY ShortSeqs
<1>3. <<>> \in Seq(T)
  BY EmptySeq
<1> HIDE DEF T
<1>4. calls \in Seq(T)
  BY <1>1, <1>2, <1>3, Zenon DEF CallsOne
<1>5. QED
  BY <1>4 DEF T

\* A turn after n rounds: the calls of the first answer are executed, where more than one round is allowed.
TurnAfter(messages, quoted, output, limit, n) ==
    LET calls == StubChat(messages, quoted)
    IN  IF n = 0 THEN TurnOf("running", <<>>, messages)
        ELSE IF calls = <<>> THEN TurnOf("answered", <<>>, messages)
        ELSE IF limit = 1 THEN TurnOf("stopped", <<>>, messages)
        ELSE TurnOf(IF n = 1 THEN "running" ELSE "answered", calls, After(messages, output))

LEMMA TurnGoesOn ==
    ASSUME NEW K, {"results", "tool"} \subseteq K, NEW messages \in Seq(StubMessages(K)), NEW Offered,
           NEW quoted \in [Quoting -> Seq(Offered)], NEW output \in SUBSET K, NEW limit \in Nat, NEW n \in 1 .. limit, NEW so \in {TurnAfter(messages, quoted, output, limit, n - 1)}
    PROVE  Round(so, quoted, output, limit, n) \in {TurnAfter(messages, quoted, output, limit, n)}
<1> DEFINE calls == StubChat(messages, quoted)
           after == After(messages, output)
           empty == <<>>
           Goes(turn, called) ==
               IF turn.said # "running" THEN turn
               ELSE IF called = empty THEN TurnOf("answered", turn.executed, turn.messages)
               ELSE IF n >= limit THEN TurnOf("stopped", turn.executed, turn.messages)
               ELSE TurnOf("running", turn.executed \o called, After(turn.messages, output))
<1>1. CallsOne(calls, quoted)
  BY StubChatIs
<1>2. empty \o calls = calls
  <2> HIDE DEF calls
  <2>1. calls \in Seq(StubTools \cup Offered)
    BY <1>1, StubNamesAre
  <2>2. QED
    BY <2>1, ConcatEmptySeq
<1>3. StubChat(after, quoted) = empty
  BY AfterIsAnswered
<1>4. \A said, executed, held : LET turn == TurnOf(said, executed, held)
                                IN  turn.said = said /\ turn.executed = executed /\ turn.messages = held
  BY DEF TurnOf
<1>5. Round(so, quoted, output, limit, n) = Goes(so, StubChat(so.messages, quoted))
  BY Zenon DEF Round, After
<1>6. so = TurnAfter(messages, quoted, output, limit, n - 1)
  OBVIOUS
<1>7. n \in Nat /\ n # 0 /\ (n - 1 = 0 <=> n = 1) /\ (n - 1 = 1 <=> n = 2) /\ n <= limit
  OBVIOUS
<1>8. CASE n = 1
  <2>1. so = TurnOf("running", empty, messages)
    BY <1>6, <1>7, <1>8 DEF TurnAfter
  <2>2. so.said = "running" /\ so.executed = empty /\ so.messages = messages
    BY <1>4, <2>1
  <2> HIDE DEF calls, after, empty
  <2>3. Goes(so, calls) = IF calls = empty THEN TurnOf("answered", empty, messages)
                          ELSE IF 1 >= limit THEN TurnOf("stopped", empty, messages)
                          ELSE TurnOf("running", calls, after)
    BY <1>2, <1>8, <2>2 DEF after
  <2>4. 1 >= limit <=> limit = 1
    BY <1>7, <1>8
  <2>5. TurnAfter(messages, quoted, output, limit, n) = IF calls = empty THEN TurnOf("answered", empty, messages)
                          ELSE IF limit = 1 THEN TurnOf("stopped", empty, messages)
                          ELSE TurnOf("running", calls, after)
    BY <1>8 DEF TurnAfter, calls, empty, after
  <2>6. Round(so, quoted, output, limit, n) = Goes(so, calls)
    BY <1>5, <2>2 DEF calls
  <2> HIDE DEF Goes
  <2>7. QED
    BY <2>3, <2>4, <2>5, <2>6
<1>9. CASE n # 1
  <2>0. limit # 1 /\ n - 1 # 0
    BY <1>7, <1>9
  <2>1. TurnAfter(messages, quoted, output, limit, n) = IF calls = empty THEN TurnOf("answered", empty, messages)
                                                ELSE TurnOf("answered", calls, after)
    BY <1>7, <1>9, <2>0 DEF TurnAfter
  <2>2. so = IF calls = empty THEN TurnOf("answered", empty, messages)
             ELSE TurnOf(IF n - 1 = 1 THEN "running" ELSE "answered", calls, after)
    BY <1>6, <1>7, <1>9, <2>0 DEF TurnAfter
  <2> HIDE DEF calls, after, empty
  <2>3. CASE calls = empty
    <3>1. so = TurnOf("answered", empty, messages) /\ so.said = "answered"
      BY <1>4, <2>2, <2>3
    <3>2. Round(so, quoted, output, limit, n) = so
      BY <1>5, <3>1
    <3>3. QED
      BY <2>1, <2>3, <3>1, <3>2
  <2>4. CASE calls # empty /\ n - 1 = 1
    <3>1. so.said = "running" /\ so.executed = calls /\ so.messages = after
      BY <1>4, <2>2, <2>4
    <3>2. Round(so, quoted, output, limit, n) = Goes(so, empty)
      BY <1>3, <1>5, <3>1
    <3>3. Goes(so, empty) = TurnOf("answered", calls, after)
      BY <3>1
    <3> HIDE DEF Goes
    <3>4. QED
      BY <2>1, <2>4, <3>2, <3>3
  <2>5. CASE calls # empty /\ n - 1 # 1
    <3>1. so = TurnOf("answered", calls, after) /\ so.said = "answered"
      BY <1>4, <2>2, <2>5
    <3>2. Round(so, quoted, output, limit, n) = so
      BY <1>5, <3>1
    <3>3. QED
      BY <2>1, <2>5, <3>1, <3>2
  <2>6. QED
    BY <2>3, <2>4, <2>5
<1>10. QED
  BY <1>8, <1>9

\* A turn of the stub after each round.
LEMMA TurnSoFarIs ==
    ASSUME NEW K, {"results", "tool"} \subseteq K, NEW messages \in Seq(StubMessages(K)), NEW Offered,
           NEW quoted \in [Quoting -> Seq(Offered)], NEW output \in SUBSET K, NEW limit \in Nat
    PROVE  /\ TurnUpTo(messages, quoted, output, limit)[0] = TurnOf("running", <<>>, messages)
           /\ \A n \in 1 .. limit :
                 TurnUpTo(messages, quoted, output, limit)[n] = Round(TurnUpTo(messages, quoted, output, limit)[n - 1], quoted, output, limit, n)
           /\ \A n \in 0 .. limit : TurnUpTo(messages, quoted, output, limit)[n] \in {TurnAfter(messages, quoted, output, limit, n)}
<1> DEFINE N == limit
           S == {TurnAfter(messages, quoted, output, limit, n) : n \in 0 .. limit}
           Solves(f) == f = [n \in 0 .. N |-> IF n = 0 THEN TurnOf("running", <<>>, messages) ELSE Round(f[n - 1], quoted, output, limit, n)]
           step == [p \in (1 .. N) \X S |-> Round(p[2], quoted, output, limit, p[1])]
           inv == [n \in 0 .. N |-> {TurnAfter(messages, quoted, output, limit, n)}]
<1>1. N \in Nat
  OBVIOUS
<1>2. 0 \in 0 .. N /\ \A n \in 1 .. N : n \in 0 .. N /\ n - 1 \in 0 .. N /\ n # 0
  BY <1>1
<1>3. \A n \in 0 .. N : inv[n] \subseteq S
  OBVIOUS
<1>4. TurnOf("running", <<>>, messages) \in inv[0]
  BY <1>2 DEF TurnAfter
<1>5. \A n \in 1 .. N : \A so \in inv[n - 1] : Round(so, quoted, output, limit, n) \in inv[n]
  BY <1>2, TurnGoesOn
<1>6. ASSUME NEW n \in 1 .. N, NEW so \in inv[n - 1] PROVE step[<<n, so>>] = Round(so, quoted, output, limit, n)
  <2> HIDE DEF inv, S
  <2>1. so \in S
    BY <1>2, <1>3
  <2>2. <<n, so>> \in (1 .. N) \X S
    BY <2>1
  <2>3. QED
    BY <2>2
<1> HIDE DEF inv, step, S
<1>7. PICK f \in RunsOf(N, S) : Recurs(f, N, TurnOf("running", <<>>, messages), step) /\ \A n \in 0 .. N : f[n] \in inv[n]
  <2> HIDE DEF N
  <2>1. ASSUME NEW n \in 1 .. N, NEW so \in inv[n - 1] PROVE step[<<n, so>>] \in inv[n]
    BY <1>5, <1>6
  <2>2. QED
    BY <1>1, <1>3, <1>4, <2>1, KeptRecursion
<1>8. Solves(f)
  <2>1. \A n \in 1 .. N : f[n] = Round(f[n - 1], quoted, output, limit, n)
    BY <1>2, <1>6, <1>7 DEF Recurs
  <2>2. f = [n \in 0 .. N |-> f[n]]
    BY <1>7 DEF RunsOf
  <2>3. \A n \in 0 .. N : n # 0 => n \in 1 .. N
    BY <1>1
  <2>4. f[0] = TurnOf("running", <<>>, messages)
    BY <1>7 DEF Recurs
  <2>5. QED
    BY <2>1, <2>2, <2>3, <2>4
<1> DEFINE run == TurnUpTo(messages, quoted, output, limit)
<1>9. run = CHOOSE g : Solves(g)
  BY DEF TurnUpTo
<1> HIDE DEF Solves
<1>10. Solves(run)
  BY <1>8, <1>9
<1> HIDE DEF run
<1>11. \A n \in 0 .. N : run[n] = IF n = 0 THEN TurnOf("running", <<>>, messages) ELSE Round(run[n - 1], quoted, output, limit, n)
  BY <1>10 DEF Solves
<1>12. run[0] = TurnOf("running", <<>>, messages) /\ \A n \in 1 .. N : run[n] = Round(run[n - 1], quoted, output, limit, n)
  BY <1>2, <1>11
<1> DEFINE good == {n \in 0 .. N : run[n] \in inv[n]}
<1>13. 0 \in good
  BY <1>2, <1>4, <1>12
<1>14. \A n \in 0 .. N - 1 : n \in good => n + 1 \in good
  <2> SUFFICES ASSUME NEW n \in 0 .. N - 1, n \in good PROVE n + 1 \in good
    OBVIOUS
  <2>1. n + 1 \in 1 .. N /\ n + 1 \in 0 .. N /\ n + 1 - 1 = n
    BY <1>1
  <2>2. run[n + 1] = Round(run[n], quoted, output, limit, n + 1)
    BY <1>12, <2>1
  <2>3. QED
    BY <1>5, <2>1, <2>2
<1>15. 0 .. N \subseteq good
  <2> HIDE DEF good, N
  <2>1. QED
    BY <1>1, <1>13, <1>14, Reaches
<1>16. \A n \in 0 .. N : run[n] \in {TurnAfter(messages, quoted, output, limit, n)}
  BY <1>15 DEF inv
<1>17. QED
  BY <1>12, <1>16 DEF run, N

(***************************************************************************)
(* Whatever the messages say, whatever the tools put out and whatever the  *)
(* text of skills and configuration has written out: a turn of the stub    *)
(* ends within the rounds it is allowed, and has executed the calls of its *)
(* first answer only: one tool of its own, or all the calls in the text it *)
(* quotes, but none that a message has written out                         *)
(* (generate_stub_response and execute_tool_loop, lib.rs).                 *)
(***************************************************************************)
THEOREM StubAlwaysEnds ==
    ASSUME NEW K, {"results", "tool"} \subseteq K, NEW messages \in Seq(StubMessages(K)), NEW Offered, "message" \notin Offered,
           NEW quoted \in [Quoting -> Seq(Offered)], NEW output \in SUBSET K, NEW limit \in Nat \ {0}
    PROVE  StubTurnEnds(messages, quoted, output, limit)
<1> DEFINE turn == StubTurn(messages, quoted, output, limit)
           calls == StubChat(messages, quoted)
           empty == <<>>
           Few(executed) == Len(executed) <= 1 \/ \E rule \in Quoting : executed = quoted[rule]
           Ended == /\ turn.said # "running"
                    /\ Few(turn.executed)
                    /\ "message" \notin ToSet(turn.executed)
                    /\ limit > 1 => turn.said = "answered" /\ turn.executed = calls
                    /\ limit = 1 => turn.executed = empty /\ (turn.said = "stopped" <=> calls # empty)
<1>1. turn = TurnAfter(messages, quoted, output, limit, limit)
  <2>1. limit \in Nat /\ limit \in 0 .. limit
    OBVIOUS
  <2>2. TurnUpTo(messages, quoted, output, limit)[limit] \in {TurnAfter(messages, quoted, output, limit, limit)}
    BY <2>1, TurnSoFarIs
  <2>3. QED
    BY <2>2 DEF StubTurn
<1>2. CallsOne(calls, quoted)
  BY StubChatIs
<1>3. Few(calls)
  <2> HIDE DEF calls
  <2>1. Len(<<>>) <= 1 /\ \A tool \in StubTools : Len(<<tool>>) <= 1
    OBVIOUS
  <2>2. QED
    BY <1>2, <2>1, Zenon DEF CallsOne
<1>4. "message" \notin ToSet(calls)
  <2> HIDE DEF calls
  <2>1. calls \in Seq(StubTools \cup Offered)
    BY <1>2, StubNamesAre
  <2>2. \A i \in DOMAIN calls : calls[i] \in StubTools \cup Offered
    BY <2>1, ElementOfSeq
  <2>3. "message" \notin StubTools
    BY DEF StubTools
  <2>4. QED
    BY <2>2, <2>3 DEF ToSet
<1>5. Few(empty) /\ "message" \notin ToSet(empty) /\ limit # 0 /\ (limit > 1 <=> limit # 1)
  BY DEF ToSet
<1>6. turn = IF calls = empty THEN TurnOf("answered", empty, messages)
             ELSE IF limit = 1 THEN TurnOf("stopped", empty, messages)
             ELSE TurnOf("answered", calls, After(messages, output))
  BY <1>1, <1>5 DEF TurnAfter
<1> HIDE DEF turn, calls, empty, Few
<1>7. \/ turn.said = "answered" /\ turn.executed = empty /\ calls = empty
      \/ turn.said = "stopped" /\ turn.executed = empty /\ calls # empty /\ limit = 1
      \/ turn.said = "answered" /\ turn.executed = calls /\ calls # empty /\ limit # 1
  BY <1>6 DEF TurnOf
<1>8. Ended
  BY <1>3, <1>4, <1>5, <1>7
<1>9. QED
  BY <1>8, Zenon DEF StubTurnEnds, turn, calls, empty, Few

-----------------------------------------------------------------------------
(* The answers of MCAlgorithms *)

CalledTools == {[name |-> "t1", result |-> "error"], [name |-> "t2", result |-> "text"]}
Typed == {"q1", "q2", "blank", "exit", "end"}
Heard == Keywords \cup {"results", "tool"}

AnswerCallIsTyped ==
    /\ Asks("stream") => call.authorised \in BOOLEAN /\ call.field \in BOOLEAN /\ IsOutcome(CalledTools, {"a", "mark"}, call.outcome)
    /\ Asks("repl") => call.inputs \in Seq(InputsOf(Typed))
    /\ Asks("stub") => call.messages \in Seq(StubMessages(Heard)) /\ call.output \in SUBSET Heard
                       /\ call.quoted \in [Quoting -> Seq(CallNames)] /\ call.limit \in Nat \ {0}

LEMMA AnswerInputs ==
    /\ \A outcome \in Outcomes : IsOutcome(CalledTools, {"a", "mark"}, outcome)
    /\ SeqsOf(Inputs, 0 .. 4) \subseteq Seq(InputsOf(Typed))
    /\ \A words \in SUBSET Keywords :
          <<Asked({"time"}), [role |-> "assistant", words |-> {}], Asked(words)>> \in Seq(StubMessages(Heard))
    /\ {{}, {"list", "files", "block"}} \subseteq SUBSET Heard
    /\ CallsWritten \subseteq [Quoting -> Seq(CallNames)]
<1>1. 0 .. 6 \in SUBSET Nat /\ 0 .. 4 \in SUBSET Nat
  OBVIOUS
<1>2. ASSUME NEW outcome \in Outcomes PROVE IsOutcome(CalledTools, {"a", "mark"}, outcome)
  <2>1. SeqsOf({"a", "mark"}, 0 .. 6) \subseteq Seq({"a", "mark"})
    BY <1>1, SeqsAreSeqs
  <2> DEFINE none == <<>>
             one == [name |-> "t1", result |-> "error"]
             other == [name |-> "t2", result |-> "text"]
             both == <<one, other>>
  <2>2. one \in CalledTools /\ other \in CalledTools
    BY DEF CalledTools
  <2> HIDE DEF one, other
  <2>3. none \in Seq(CalledTools) /\ both \in Seq(CalledTools)
    BY <2>2, ShortSeqs, EmptySeq
  <2> HIDE DEF none, both
  <2> DEFINE yes == TRUE
             no == FALSE
             texts == SeqsOf({"a", "mark"}, 0 .. 6)
  <2>4. Outcomes = {[failed |-> yes]} \cup [failed : {no}, text : texts, calls : {none, both}]
    BY Zenon DEF Outcomes, none, both, one, other
  <2>5. yes /\ ~no /\ yes \in BOOLEAN /\ no \in BOOLEAN
    OBVIOUS
  <2> HIDE DEF yes, no, texts
  <2>7. outcome.failed = yes \/ (outcome.failed = no /\ outcome.text \in texts /\ outcome.calls \in {none, both})
    BY <2>4
  <2>8. outcome.failed \in BOOLEAN /\ (~outcome.failed => outcome.text \in texts /\ outcome.calls \in {none, both})
    BY <2>5, <2>7
  <2>9. \A calls \in {none, both} : calls \in Seq(CalledTools)
    BY <2>3
  <2>10. QED
    BY <2>1, <2>8, <2>9 DEF IsOutcome, texts
<1>3. SeqsOf(Inputs, 0 .. 4) \subseteq Seq(InputsOf(Typed))
  <2>1. Inputs \subseteq InputsOf(Typed)
    <3>1. \A word \in Typed, fails \in BOOLEAN : Input(word, fails) \in InputsOf(Typed)
      BY DEF Input, InputsOf
    <3>2. {"q1", "q2", "blank", "exit", "end"} = Typed /\ "q1" \in Typed
      BY DEF Typed
    <3>3. QED
      BY <3>1, <3>2, Zenon DEF Inputs
  <2>2. SeqsOf(Inputs, 0 .. 4) \subseteq Seq(Inputs)
    BY <1>1, SeqsAreSeqs
  <2> HIDE DEF Inputs
  <2>3. QED
    BY <2>1, <2>2
<1>4. \A words \in SUBSET Keywords : Asked(words) \in StubMessages(Heard)
  <2> SUFFICES ASSUME NEW words \in SUBSET Keywords PROVE Asked(words) \in StubMessages(Heard)
    OBVIOUS
  <2> DEFINE all == WordsOf(words)
  <2>1. all \subseteq Heard /\ ("block" \in all => "tool" \in all)
    BY DEF WordsOf, Heard
  <2> HIDE DEF all
  <2>2. Asked(words) = [role |-> "user", words |-> all]
    BY DEF Asked, all
  <2>3. QED
    BY <2>1, <2>2 DEF StubMessages
<1>5. ASSUME NEW words \in SUBSET Keywords
      PROVE  <<Asked({"time"}), [role |-> "assistant", words |-> {}], Asked(words)>> \in Seq(StubMessages(Heard))
  <2> DEFINE M == StubMessages(Heard)
             first == Asked({"time"})
             second == [role |-> "assistant", words |-> {}]
             third == Asked(words)
  <2>1. {"time"} \in SUBSET Keywords
    BY DEF Keywords
  <2>2. first \in M /\ third \in M
    BY <1>4, <2>1
  <2>3. second \in M
    BY DEF StubMessages
  <2> HIDE DEF M, first, second, third
  <2>4. <<first, second, third>> \in Seq(M)
    BY <2>2, <2>3
  <2>5. QED
    BY <2>4 DEF M, first, second, third
<1>6. {{}, {"list", "files", "block"}} \subseteq SUBSET Heard
  BY DEF Heard, Keywords
<1>7. CallsWritten \subseteq [Quoting -> Seq(CallNames)]
  <2>1. <<>> \in Seq(CallNames) /\ <<"t1">> \in Seq(CallNames) /\ <<"t1", "t2">> \in Seq(CallNames)
    <3>1. "t1" \in CallNames /\ "t2" \in CallNames
      BY DEF CallNames
    <3>2. QED
      BY <3>1, ShortSeqs, EmptySeq
  <2> DEFINE some == [NothingWritten EXCEPT !["hello"] = <<"t1">>, !["skill"] = <<"t1", "t2">>]
  <2>2. NothingWritten \in [Quoting -> Seq(CallNames)]
    BY <2>1 DEF NothingWritten
  <2>3. some \in [Quoting -> Seq(CallNames)]
    BY <2>1, <2>2
  <2> HIDE DEF some
  <2>4. \A quoted \in {NothingWritten, some} : quoted \in [Quoting -> Seq(CallNames)]
    BY <2>2, <2>3
  <2>5. QED
    BY <2>4, Zenon DEF CallsWritten, some
<1>8. QED
  BY <1>2, <1>3, <1>5, <1>6, <1>7

LEMMA AnswerCallsAreTyped == Spec => []AnswerCallIsTyped
<1>1. Init => AnswerCallIsTyped
  BY DEF Init, AnswerCallIsTyped, Asks
<1>2. AnswerCallIsTyped /\ [Next]_call => AnswerCallIsTyped'
  <2> SUFFICES ASSUME AnswerCallIsTyped, [Next]_call PROVE AnswerCallIsTyped'
    OBVIOUS
  <2>1. CASE AnswerCalls
    <3>1. CASE \E authorised \in BOOLEAN, field \in BOOLEAN, accept \in AtMostOne({"Text/Event-Stream;q=0.9", "*/*"}),
                  session \in AtMostOne({"s1"}), outcome \in Outcomes :
                  call' = [kind |-> "stream", authorised |-> authorised, field |-> field, accept |-> accept,
                           session |-> session, outcome |-> outcome]
      <4>1. PICK authorised \in BOOLEAN, field \in BOOLEAN, accept \in AtMostOne({"Text/Event-Stream;q=0.9", "*/*"}),
                 session \in AtMostOne({"s1"}), outcome \in Outcomes :
                 call' = [kind |-> "stream", authorised |-> authorised, field |-> field, accept |-> accept,
                          session |-> session, outcome |-> outcome]
        BY <3>1
      <4>2. IsOutcome(CalledTools, {"a", "mark"}, outcome)
        BY AnswerInputs
      <4>3. call'.kind = "stream" /\ call'.outcome = outcome /\ call'.authorised \in BOOLEAN /\ call'.field \in BOOLEAN
        BY <4>1
      <4>4. QED
        BY <4>2, <4>3 DEF AnswerCallIsTyped, Asks
    <3>2. CASE \E inputs \in SeqsOf(Inputs, 0 .. 4) : call' = [kind |-> "repl", inputs |-> inputs]
      <4>1. PICK inputs \in SeqsOf(Inputs, 0 .. 4) : call' = [kind |-> "repl", inputs |-> inputs]
        BY <3>2
      <4>2. call'.kind = "repl" /\ call'.inputs = inputs
        BY <4>1
      <4>3. inputs \in Seq(InputsOf(Typed))
        BY AnswerInputs
      <4>4. QED
        BY <4>2, <4>3 DEF AnswerCallIsTyped, Asks
    <3>3. CASE \E words \in SUBSET Keywords, quoted \in CallsWritten, output \in {{}, {"list", "files", "block"}}, limit \in 1 .. 3 :
                 call' = [kind |-> "stub",
                          messages |-> <<Asked({"time"}), [role |-> "assistant", words |-> {}], Asked(words)>>,
                          quoted |-> quoted, output |-> output, limit |-> limit]
      <4>1. PICK words \in SUBSET Keywords, quoted \in CallsWritten, output \in {{}, {"list", "files", "block"}}, limit \in 1 .. 3 :
                 call' = [kind |-> "stub",
                          messages |-> <<Asked({"time"}), [role |-> "assistant", words |-> {}], Asked(words)>>,
                          quoted |-> quoted, output |-> output, limit |-> limit]
        BY <3>3
      <4> DEFINE messages == <<Asked({"time"}), [role |-> "assistant", words |-> {}], Asked(words)>>
      <4>2. messages \in Seq(StubMessages(Heard)) /\ output \in SUBSET Heard /\ limit \in Nat \ {0}
            /\ quoted \in [Quoting -> Seq(CallNames)]
        BY AnswerInputs
      <4> HIDE DEF messages
      <4>3. call'.kind = "stub" /\ call'.messages = messages /\ call'.output = output /\ call'.limit = limit
            /\ call'.quoted = quoted
        BY <4>1 DEF messages
      <4>4. QED
        BY <4>2, <4>3 DEF AnswerCallIsTyped, Asks
    <3>4. QED
      BY <2>1, <3>1, <3>2, <3>3, Zenon DEF AnswerCalls
  <2>2. CASE Next /\ ~AnswerCalls
    BY <2>2, KindsAreOf DEF KindsOf, Next, AnswerCallIsTyped, Asks
  <2>3. CASE call' = call
    BY <2>3 DEF AnswerCallIsTyped, Asks
  <2>4. QED
    BY <2>1, <2>2, <2>3
<1>3. QED
  BY <1>1, <1>2, PTL DEF Spec

(***************************************************************************)
(* What MCAlgorithms checks of the answers holds in every state, whatever  *)
(* the limits are, by StreamsAlwaysShowReply, ReplAlwaysKeepsTurns and     *)
(* StubAlwaysEnds, which hold of every reply, input and message.           *)
(***************************************************************************)
THEOREM AnswersAreKeptInCalls == Spec => []AnswersAreKept
<1>1. AnswerCallIsTyped => AnswersAreKept
  <2> SUFFICES ASSUME AnswerCallIsTyped PROVE AnswersAreKept
    OBVIOUS
  <2>1. Asks("stream") => StreamShowsReply(call.authorised, call.field, call.accept, call.session, call.outcome)
    BY StreamsAlwaysShowReply DEF AnswerCallIsTyped
  <2>2. Asks("repl") => ReplKeepsTurns(call.inputs)
    BY ReplAlwaysKeepsTurns DEF AnswerCallIsTyped
  <2>3. Asks("stub") => StubTurnEnds(call.messages, call.quoted, call.output, call.limit)
    <3>1. {"results", "tool"} \subseteq Heard /\ "message" \notin CallNames
      BY DEF Heard, CallNames
    <3>2. QED
      BY <3>1, StubAlwaysEnds DEF AnswerCallIsTyped
  <2>4. QED
    BY <2>1, <2>2, <2>3 DEF AnswersAreKept
<1>2. QED
  BY <1>1, AnswerCallsAreTyped, PTL

-----------------------------------------------------------------------------
(* What parsers take of arguments *)

\* A JSON value: a text is nothing but a text, and integers are integers.
IsValue(v) == (Is(v, "text") => v = Text(v.text)) /\ (Is(v, "integer") => v.integer \in Int)

\* The arguments of a tool: a value for each of its parameters, if only that it is absent.
TakesValues(tool, a) == DOMAIN a = DOMAIN Schemas[tool] /\ \A p \in DOMAIN a : IsValue(a[p])

\* The parser of one parameter keeps to its property: ParserKeepsSchema, for a parameter by itself.
ParameterIsKept(tool, v, property, parsed) ==
    /\ Conforms(v, property) /\ Usable(v, property) /\ (tool \in {"http_get", "shell_exec"} => v # Text("padded"))
          => parsed # Refused
    /\ parsed # Refused /\ property.required => ~Missing(v)
    /\ parsed # Refused /\ "low" \in DOMAIN property =>
          /\ parsed.got >= property.low
          /\ tool # "read_file" => parsed.got <= MaxOf[tool]
          /\ Is(v, "integer") /\ v.integer \in property.low .. MaxOf[tool] => parsed.got = v.integer

\* Values of different types, and results of parsers, are different.
LEMMA ValuesDiffer ==
    /\ \A value : Got(value) # Refused /\ Got(value) # Unset /\ Got(value).got = value
    /\ Refused # Unset
    /\ \A v : Is(v, "text") \/ Is(v, "integer") \/ Is(v, "boolean") \/ Is(v, "array") => ~Missing(v)
    /\ \A word : Is(Text(word), "text") /\ Text(word).text = word
    /\ Missing(Absent) /\ \A v : Missing(v) <=> v = Absent \/ v = Null
    /\ Absent # Null
BY DEF Got, Refused, Unset, Is, Missing, Absent, Null, Text

LEMMA PropertiesAre ==
    /\ String.type = {"text"} /\ ~String.required /\ DOMAIN String = {"type", "required"}
    /\ Boolean.type = {"boolean"} /\ ~Boolean.required /\ DOMAIN Boolean = {"type", "required"}
    /\ Strings.type = {"array"} /\ ~Strings.required /\ DOMAIN Strings = {"type", "required"}
    /\ Needed(String).type = {"text"} /\ Needed(String).required /\ DOMAIN Needed(String) = {"type", "required"}
    /\ \A words : /\ Enum(words).type = {"text"} /\ ~Enum(words).required /\ Enum(words).words = words
                  /\ DOMAIN Enum(words) = {"type", "required", "words"}
                  /\ Needed(Enum(words)).type = {"text"} /\ Needed(Enum(words)).required
                  /\ Needed(Enum(words)).words = words /\ DOMAIN Needed(Enum(words)) = {"type", "required", "words"}
    /\ \A low, high : /\ Integer(low, high).type = {"integer"} /\ ~Integer(low, high).required
                      /\ Integer(low, high).low = low /\ Integer(low, high).high = high
                      /\ DOMAIN Integer(low, high) = {"type", "required", "low", "high"}
<1>1. /\ String.type = {"text"} /\ ~String.required /\ DOMAIN String = {"type", "required"}
      /\ Boolean.type = {"boolean"} /\ ~Boolean.required /\ DOMAIN Boolean = {"type", "required"}
      /\ Strings.type = {"array"} /\ ~Strings.required /\ DOMAIN Strings = {"type", "required"}
  BY DEF String, Boolean, Strings
<1>2. Needed(String).type = {"text"} /\ Needed(String).required /\ DOMAIN Needed(String) = {"type", "required"}
  BY DEF String, Needed
<1>3. ASSUME NEW words
      PROVE  /\ Enum(words).type = {"text"} /\ ~Enum(words).required /\ Enum(words).words = words
             /\ DOMAIN Enum(words) = {"type", "required", "words"}
             /\ Needed(Enum(words)).type = {"text"} /\ Needed(Enum(words)).required
             /\ Needed(Enum(words)).words = words /\ DOMAIN Needed(Enum(words)) = {"type", "required", "words"}
  BY DEF Enum, Needed
<1>4. ASSUME NEW low, NEW high
      PROVE  /\ Integer(low, high).type = {"integer"} /\ ~Integer(low, high).required
             /\ Integer(low, high).low = low /\ Integer(low, high).high = high
             /\ DOMAIN Integer(low, high) = {"type", "required", "low", "high"}
  BY DEF Integer
<1>5. QED
  BY <1>1, <1>2, <1>3, <1>4, Zenon

\* What is asked of a value by each kind of property.
LEMMA ConformingIs ==
    ASSUME NEW v, IsValue(v)
    PROVE  /\ Conforms(v, String) /\ Usable(v, String) => v = Absent \/ (Is(v, "text") /\ v.text \in {"text", "padded"})
           /\ Conforms(v, Needed(String)) /\ Usable(v, Needed(String)) => Is(v, "text") /\ v.text \in {"text", "padded"}
           /\ Conforms(v, Boolean) => v = Absent \/ Is(v, "boolean")
           /\ Conforms(v, Strings) /\ Usable(v, Strings) =>
                 v = Absent \/ (Is(v, "array") /\ \A i \in DOMAIN v.array : v.array[i] = Text("text"))
           /\ \A words : /\ Conforms(v, Enum(words)) => v = Absent \/ (Is(v, "text") /\ v.text \in words)
                         /\ Conforms(v, Needed(Enum(words))) => Is(v, "text") /\ v.text \in words
           /\ \A low, high : Conforms(v, Integer(low, high)) =>
                 v = Absent \/ (Is(v, "integer") /\ v.integer \in low .. high)
<1> USE PropertiesAre DEF Conforms, Usable
<1>1. Conforms(v, String) /\ Usable(v, String) => v = Absent \/ (Is(v, "text") /\ v.text \in {"text", "padded"})
  OBVIOUS
<1>2. Conforms(v, Needed(String)) /\ Usable(v, Needed(String)) => Is(v, "text") /\ v.text \in {"text", "padded"}
  OBVIOUS
<1>3. Conforms(v, Boolean) => v = Absent \/ Is(v, "boolean")
  OBVIOUS
<1>4. Conforms(v, Strings) /\ Usable(v, Strings) =>
          v = Absent \/ (Is(v, "array") /\ \A i \in DOMAIN v.array : v.array[i] = Text("text"))
  OBVIOUS
<1>5. ASSUME NEW words
      PROVE  /\ Conforms(v, Enum(words)) => v = Absent \/ (Is(v, "text") /\ v.text \in words)
             /\ Conforms(v, Needed(Enum(words))) => Is(v, "text") /\ v.text \in words
  OBVIOUS
<1>6. ASSUME NEW low, NEW high
      PROVE  Conforms(v, Integer(low, high)) => v = Absent \/ (Is(v, "integer") /\ v.integer \in low .. high)
  OBVIOUS
<1> HIDE PropertiesAre DEF Conforms, Usable
<1>7. QED
  BY <1>1, <1>2, <1>3, <1>4, <1>5, <1>6, Zenon

-----------------------------------------------------------------------------
(* Parsers of one parameter *)

\* A text that is required, whichever way it is read.
LEMMA TextIsKept ==
    ASSUME NEW tool, NEW v, IsValue(v)
    PROVE  /\ ParameterIsKept(tool, v, Needed(String), RequiredText(v))
           /\ ParameterIsKept(tool, v, Needed(String), AnyText(v))
           /\ ParameterIsKept(tool, v, Needed(String), SearchText(v, TRUE))
           /\ ParameterIsKept(tool, v, Needed(String), SearchText(v, FALSE))
           /\ ParameterIsKept(tool, v, Needed(String),
                              IF Is(v, "text") /\ v.text = "long" THEN Refused ELSE RequiredText(v))
           /\ tool \in {"http_get", "shell_exec"} =>
                 ParameterIsKept(tool, v, Needed(String),
                                 IF Is(v, "text") /\ v.text = "text" THEN Got("text") ELSE Refused)
           /\ ParameterIsKept(tool, v, Needed(Enum({"MEMORY.md"})),
                              IF Is(v, "text") /\ v.text = "MEMORY.md" THEN Got("MEMORY.md") ELSE Refused)
<1> DEFINE text == Needed(String)
<1> DEFINE fits == Is(v, "text") /\ v.text \in {"text", "padded"}
<1>1. /\ Conforms(v, text) /\ Usable(v, text) => fits
      /\ "low" \notin DOMAIN text
  BY ConformingIs, PropertiesAre
<1>2. ASSUME NEW parsed, fits => parsed # Refused, parsed # Refused => Is(v, "text")
      PROVE  ParameterIsKept(tool, v, text, parsed)
  <2> HIDE DEF text, fits
  <2>1. QED
    BY <1>1, <1>2, ValuesDiffer DEF ParameterIsKept
<1>3. /\ Trim("text") = "text" /\ Trim("padded") = "text"
  BY DEF Trim
<1>4. ParameterIsKept(tool, v, text, RequiredText(v)) /\ ParameterIsKept(tool, v, text, AnyText(v))
  <2> HIDE DEF text
  <2>1. (fits => RequiredText(v) # Refused) /\ (RequiredText(v) # Refused => Is(v, "text"))
    BY <1>3, ValuesDiffer DEF RequiredText
  <2>2. (fits => AnyText(v) # Refused) /\ (AnyText(v) # Refused => Is(v, "text"))
    BY ValuesDiffer DEF AnyText
  <2> HIDE DEF fits
  <2>3. QED
    BY <1>2, <2>1, <2>2, Zenon
<1>5. ParameterIsKept(tool, v, text, SearchText(v, TRUE)) /\ ParameterIsKept(tool, v, text, SearchText(v, FALSE))
  <2> HIDE DEF text
  <2>1. ASSUME NEW limited \in BOOLEAN
        PROVE  (fits => SearchText(v, limited) # Refused) /\ (SearchText(v, limited) # Refused => Is(v, "text"))
    BY ValuesDiffer DEF SearchText
  <2> HIDE DEF fits
  <2>2. ASSUME NEW limited \in BOOLEAN PROVE ParameterIsKept(tool, v, text, SearchText(v, limited))
    BY <1>2, <2>1, Zenon
  <2>3. TRUE \in BOOLEAN /\ FALSE \in BOOLEAN
    OBVIOUS
  <2>4. QED
    BY <2>2, <2>3, Zenon
<1>6. ParameterIsKept(tool, v, text, IF Is(v, "text") /\ v.text = "long" THEN Refused ELSE RequiredText(v))
  <2> DEFINE parsed == IF Is(v, "text") /\ v.text = "long" THEN Refused ELSE RequiredText(v)
  <2> HIDE DEF text
  <2>1. (fits => parsed # Refused) /\ (parsed # Refused => Is(v, "text"))
    BY <1>3, ValuesDiffer DEF RequiredText
  <2> HIDE DEF fits, parsed
  <2>2. ParameterIsKept(tool, v, text, parsed)
    BY <1>2, <2>1, Zenon
  <2>3. QED
    BY <2>2, Zenon DEF parsed
<1>7. ASSUME tool \in {"http_get", "shell_exec"}
      PROVE  ParameterIsKept(tool, v, text, IF Is(v, "text") /\ v.text = "text" THEN Got("text") ELSE Refused)
  <2> DEFINE parsed == IF Is(v, "text") /\ v.text = "text" THEN Got("text") ELSE Refused
  <2>1. (parsed # Refused => Is(v, "text")) /\ (Is(v, "text") /\ v.text = "text" => parsed # Refused)
    BY ValuesDiffer
  <2>2. fits /\ v # Text("padded") => Is(v, "text") /\ v.text = "text"
    BY DEF IsValue
  <2> HIDE DEF text, fits, parsed
  <2>3. ParameterIsKept(tool, v, text, parsed)
    BY <1>1, <1>7, <2>1, <2>2, ValuesDiffer DEF ParameterIsKept
  <2>4. QED
    BY <2>3, Zenon DEF parsed
<1>8. ParameterIsKept(tool, v, Needed(Enum({"MEMORY.md"})),
                      IF Is(v, "text") /\ v.text = "MEMORY.md" THEN Got("MEMORY.md") ELSE Refused)
  <2> DEFINE parsed == IF Is(v, "text") /\ v.text = "MEMORY.md" THEN Got("MEMORY.md") ELSE Refused
  <2> DEFINE file == Needed(Enum({"MEMORY.md"}))
  <2>1. (parsed # Refused => Is(v, "text")) /\ (Is(v, "text") /\ v.text = "MEMORY.md" => parsed # Refused)
    BY ValuesDiffer
  <2>2. (Conforms(v, file) => Is(v, "text") /\ v.text = "MEMORY.md") /\ "low" \notin DOMAIN file
    BY ConformingIs, PropertiesAre
  <2> HIDE DEF file, parsed
  <2>3. ParameterIsKept(tool, v, file, parsed)
    BY <2>1, <2>2, ValuesDiffer DEF ParameterIsKept
  <2>4. QED
    BY <2>3, Zenon DEF parsed, file
<1>9. QED
  BY <1>4, <1>5, <1>6, <1>7, <1>8, Zenon DEF text

\* A parameter without a number and not required: what conforms must be taken, that is all.
LEMMA OptionalIsKept ==
    ASSUME NEW tool, NEW v, NEW property, ~property.required, "low" \notin DOMAIN property, NEW parsed,
           Conforms(v, property) /\ Usable(v, property) => parsed # Refused
    PROVE  ParameterIsKept(tool, v, property, parsed)
BY DEF ParameterIsKept

\* Paths, flags, modes and lists.
LEMMA ChoiceIsKept ==
    ASSUME NEW tool, NEW v, IsValue(v)
    PROVE  /\ ParameterIsKept(tool, v, String, PathOrRoot(v))
           /\ ParameterIsKept(tool, v, String, IF Is(v, "text") /\ v.text = "long" THEN Refused ELSE PathOrRoot(v))
           /\ ParameterIsKept(tool, v, String, LooseText(v))
           /\ ParameterIsKept(tool, v, Boolean, OptionalFlag(v, FALSE))
           /\ ParameterIsKept(tool, v, Boolean, Got(Is(v, "boolean") /\ v.boolean))
           /\ ParameterIsKept(tool, v, Strings, Paths(v))
           /\ ParameterIsKept(tool, v, Strings, LooseTexts(v))
           /\ ParameterIsKept(tool, v, Enum({"overwrite", "append"}), Mode(v, "overwrite"))
           /\ ParameterIsKept(tool, v, Enum({"overwrite", "append"}), Mode(v, "append"))
<1>1. /\ Trim("text") = "text" /\ Trim("padded") = "text" /\ Trim("overwrite") = "overwrite" /\ Trim("append") = "append"
  BY DEF Trim
<1>2. /\ ~String.required /\ "low" \notin DOMAIN String /\ ~Boolean.required /\ "low" \notin DOMAIN Boolean
      /\ ~Strings.required /\ "low" \notin DOMAIN Strings
      /\ \A words : ~Enum(words).required /\ "low" \notin DOMAIN Enum(words)
  BY PropertiesAre
<1>3. ParameterIsKept(tool, v, String, PathOrRoot(v))
  <2>1. Conforms(v, String) /\ Usable(v, String) => PathOrRoot(v) # Refused
    BY <1>1, ConformingIs, ValuesDiffer DEF PathOrRoot
  <2>2. QED
    BY <1>2, <2>1, OptionalIsKept
<1>4. ParameterIsKept(tool, v, String, IF Is(v, "text") /\ v.text = "long" THEN Refused ELSE PathOrRoot(v))
  <2> DEFINE parsed == IF Is(v, "text") /\ v.text = "long" THEN Refused ELSE PathOrRoot(v)
  <2>1. Conforms(v, String) /\ Usable(v, String) => parsed # Refused
    <3>1. Is(Absent, "text") => FALSE
      BY ValuesDiffer
    <3>2. QED
      BY <1>1, <3>1, ConformingIs, ValuesDiffer DEF PathOrRoot
  <2> HIDE DEF parsed
  <2>2. ParameterIsKept(tool, v, String, parsed)
    BY <1>2, <2>1, OptionalIsKept
  <2>3. QED
    BY <2>2, Zenon DEF parsed
<1>5. ParameterIsKept(tool, v, String, LooseText(v)) /\ ParameterIsKept(tool, v, Strings, LooseTexts(v))
  <2>1. LooseText(v) # Refused /\ LooseTexts(v) # Refused
    BY ValuesDiffer, Zenon DEF LooseText, LooseTexts
  <2>2. QED
    BY <1>2, <2>1, OptionalIsKept, Zenon
<1>6. ParameterIsKept(tool, v, Boolean, OptionalFlag(v, FALSE))
  <2>1. ASSUME NEW default \in BOOLEAN PROVE ParameterIsKept(tool, v, Boolean, OptionalFlag(v, default))
    <3>1. Conforms(v, Boolean) => OptionalFlag(v, default) # Refused
      BY ConformingIs, ValuesDiffer DEF OptionalFlag
    <3>2. QED
      BY <1>2, <3>1, OptionalIsKept, Zenon
  <2>2. FALSE \in BOOLEAN
    OBVIOUS
  <2>3. QED
    BY <2>1, <2>2, Zenon
<1>7. ParameterIsKept(tool, v, Boolean, Got(Is(v, "boolean") /\ v.boolean))
  <2> DEFINE flag == Is(v, "boolean") /\ v.boolean
  <2> HIDE DEF flag
  <2>1. Got(flag) # Refused
    BY ValuesDiffer, Zenon
  <2>2. ParameterIsKept(tool, v, Boolean, Got(flag))
    BY <1>2, <2>1, OptionalIsKept, Zenon
  <2>3. QED
    BY <2>2, Zenon DEF flag
<1>8. ParameterIsKept(tool, v, Strings, Paths(v))
  <2>1. RequiredText(Text("text")) # Refused
    BY <1>1, ValuesDiffer DEF RequiredText
  <2>2. Conforms(v, Strings) /\ Usable(v, Strings) => Paths(v) # Refused
    BY <2>1, ConformingIs, ValuesDiffer DEF Paths
  <2>3. QED
    BY <1>2, <2>2, OptionalIsKept
<1>9. ASSUME NEW default
      PROVE  ParameterIsKept(tool, v, Enum({"overwrite", "append"}), Mode(v, default))
  <2> DEFINE mode == Enum({"overwrite", "append"})
  <2>1. Conforms(v, mode) => v = Absent \/ (Is(v, "text") /\ v.text \in {"overwrite", "append"})
    BY ConformingIs
  <2>2. ~mode.required /\ "low" \notin DOMAIN mode
    BY <1>2
  <2> HIDE DEF mode
  <2>3. Conforms(v, mode) => Mode(v, default) # Refused
    BY <1>1, <2>1, ValuesDiffer DEF Mode
  <2>4. ParameterIsKept(tool, v, mode, Mode(v, default))
    BY <2>2, <2>3, OptionalIsKept
  <2>5. QED
    BY <2>4, Zenon DEF mode
<1>10. QED
  BY <1>3, <1>4, <1>5, <1>6, <1>7, <1>8, <1>9, Zenon

LEMMA ClampIs ==
    ASSUME NEW n \in Int, NEW low \in Nat, NEW high \in Nat, low <= high
    PROVE  /\ Clamp(n, low, high) \in low .. high
           /\ n \in low .. high => Clamp(n, low, high) = n
BY DEF Clamp

\* Numbers of results.
LEMMA NumberIsKept ==
    ASSUME NEW v, IsValue(v)
    PROVE  /\ ParameterIsKept("read_file", v, Integer(1, Unbounded), AtLeastOne(v, 1))
           /\ ParameterIsKept("read_file", v, Integer(1, Unbounded), AtLeastOne(v, MaxOf["read_file"]))
           /\ \A tool \in Limited \ {"read_file"}, low \in Nat \ {0} : low <= DefaultOf[tool] =>
                 /\ ParameterIsKept(tool, v, Integer(low, Unbounded), Results(v, tool, low))
                 /\ ParameterIsKept(tool, v, Integer(low, MaxOf[tool]), ResultsNotNull(v, tool, low))
<1>1. ASSUME NEW low, NEW high
      PROVE  /\ ~Integer(low, high).required /\ Integer(low, high).low = low
             /\ Conforms(v, Integer(low, high)) => v = Absent \/ (Is(v, "integer") /\ v.integer \in low .. high)
  BY PropertiesAre, ConformingIs, Zenon
<1>2. ASSUME NEW default \in Nat \ {0}
      PROVE  ParameterIsKept("read_file", v, Integer(1, Unbounded), AtLeastOne(v, default))
  <2> DEFINE number == Integer(1, Unbounded)
  <2> DEFINE parsed == AtLeastOne(v, default)
  <2>1. /\ ~number.required /\ number.low = 1
        /\ Conforms(v, number) => v = Absent \/ (Is(v, "integer") /\ v.integer \in 1 .. Unbounded)
    BY <1>1
  <2>2. v = Absent \/ (Is(v, "integer") /\ v.integer \in 1 .. Unbounded) => parsed # Refused
    <3> DEFINE high == Unbounded
    <3> HIDE DEF high
    <3>1. v.integer \in 1 .. high => v.integer >= 0
      OBVIOUS
    <3>2. v = Absent \/ (Is(v, "integer") /\ v.integer \in 1 .. high) => parsed # Refused
      BY <3>1, ValuesDiffer DEF AtLeastOne, Unsigned
    <3> HIDE DEF parsed
    <3>3. QED
      BY <3>2, Zenon DEF high
  <2>3. parsed # Refused => parsed.got >= 1 /\ (Is(v, "integer") /\ v.integer >= 1 => parsed.got = v.integer)
    BY ValuesDiffer DEF AtLeastOne, Unsigned, IsValue
  <2>4. MaxOf["read_file"] \in Nat
    BY ArgumentsAssumption DEF Limited
  <2>5. v.integer \in 1 .. MaxOf["read_file"] => v.integer >= 1
    BY <2>4
  <2> HIDE DEF number, parsed
  <2>6. ParameterIsKept("read_file", v, number, parsed)
    BY <2>1, <2>2, <2>3, <2>5 DEF ParameterIsKept
  <2>7. QED
    BY <2>6 DEF number, parsed
<1>3. MaxOf["read_file"] \in Nat \ {0} /\ 1 \in Nat \ {0}
  BY ArgumentsAssumption DEF Limited
<1>4. ASSUME NEW tool \in Limited \ {"read_file"}, NEW low \in Nat \ {0}, low <= DefaultOf[tool]
      PROVE  /\ ParameterIsKept(tool, v, Integer(low, Unbounded), Results(v, tool, low))
             /\ ParameterIsKept(tool, v, Integer(low, MaxOf[tool]), ResultsNotNull(v, tool, low))
  <2> DEFINE max == MaxOf[tool]
  <2> DEFINE default == DefaultOf[tool]
  <2>1. max \in Nat /\ default \in Nat /\ low <= default /\ default <= max /\ tool # "read_file"
    BY <1>4, ArgumentsAssumption
  <2>2. ASSUME NEW high, NEW parsed,
               v = Absent \/ (Is(v, "integer") /\ v.integer \in low .. high) => parsed # Refused,
               parsed # Refused => parsed.got \in low .. max,
               parsed # Refused /\ Is(v, "integer") /\ v.integer \in low .. max => parsed.got = v.integer
        PROVE  ParameterIsKept(tool, v, Integer(low, high), parsed)
    <3> DEFINE number == Integer(low, high)
    <3>1. /\ ~number.required /\ number.low = low
          /\ Conforms(v, number) => v = Absent \/ (Is(v, "integer") /\ v.integer \in low .. high)
      BY <1>1
    <3>2. parsed # Refused => parsed.got >= low /\ parsed.got <= MaxOf[tool]
      BY <2>1, <2>2
    <3> HIDE DEF number
    <3>3. ParameterIsKept(tool, v, number, parsed)
      BY <2>2, <3>1, <3>2 DEF ParameterIsKept
    <3>4. QED
      BY <3>3 DEF number
  <2> HIDE DEF max, default
  <2>3. Results(v, tool, low) = IF Missing(v) THEN Got(default)
                                ELSE IF Unsigned(v) THEN Got(Clamp(v.integer, low, max)) ELSE Refused
    BY DEF Results, max, default
  <2>4. Is(v, "integer") => /\ v.integer \in Int /\ Clamp(v.integer, low, max) \in low .. max
                            /\ v.integer \in low .. max => Clamp(v.integer, low, max) = v.integer
    <3>1. low \in Nat /\ max \in Nat /\ low <= max
      BY <2>1
    <3>2. \A n \in Int : Clamp(n, low, max) \in low .. max /\ (n \in low .. max => Clamp(n, low, max) = n)
      BY <3>1, ClampIs
    <3>3. QED
      BY <3>2 DEF IsValue
  <2>5. /\ Results(v, tool, low) # Refused => Results(v, tool, low).got \in low .. max
        /\ Results(v, tool, low) # Refused /\ Is(v, "integer") /\ v.integer \in low .. max
              => Results(v, tool, low).got = v.integer
    BY <2>1, <2>3, <2>4, ValuesDiffer DEF Unsigned
  <2>6. ASSUME NEW high PROVE v = Absent \/ (Is(v, "integer") /\ v.integer \in low .. high) => Results(v, tool, low) # Refused
    <3>1. v.integer \in low .. high => v.integer >= 0
      BY <2>1
    <3>2. QED
      BY <2>3, <3>1, ValuesDiffer DEF Unsigned
  <2>7. /\ ResultsNotNull(v, tool, low) # Refused => ResultsNotNull(v, tool, low) = Results(v, tool, low)
        /\ v = Absent \/ Is(v, "integer") => ResultsNotNull(v, tool, low) = Results(v, tool, low)
    BY ValuesDiffer DEF ResultsNotNull
  <2> DEFINE results == Results(v, tool, low)
  <2> DEFINE notNull == ResultsNotNull(v, tool, low)
  <2>8. ParameterIsKept(tool, v, Integer(low, Unbounded), results)
    <3> DEFINE high == Unbounded
    <3>1. v = Absent \/ (Is(v, "integer") /\ v.integer \in low .. high) => results # Refused
      BY <2>6
    <3> HIDE DEF high, results
    <3>2. ParameterIsKept(tool, v, Integer(low, high), results)
      BY <2>2, <2>5, <3>1, Zenon DEF results
    <3>3. QED
      BY <3>2 DEF high
  <2>9. ParameterIsKept(tool, v, Integer(low, MaxOf[tool]), notNull)
    <3> DEFINE high == MaxOf[tool]
    <3> HIDE DEF high
    <3>1. v = Absent \/ (Is(v, "integer") /\ v.integer \in low .. high) => notNull # Refused
      BY <2>6, <2>7
    <3>2. /\ notNull # Refused => notNull.got \in low .. max
          /\ notNull # Refused /\ Is(v, "integer") /\ v.integer \in low .. max => notNull.got = v.integer
      BY <2>5, <2>7
    <3> HIDE DEF notNull
    <3>3. ParameterIsKept(tool, v, Integer(low, high), notNull)
      BY <2>2, <3>1, <3>2, Zenon
    <3>4. QED
      BY <3>3, Zenon DEF high
  <2>10. QED
    BY <2>8, <2>9
<1>5. QED
  BY <1>2, <1>3, <1>4, Zenon

-----------------------------------------------------------------------------
(* The tools *)

\* A parser keeps to its schema if it has the same parameters and each of them is kept.
LEMMA KeptByParameters ==
    ASSUME NEW tool, NEW a, NEW schema, NEW parsed, Schemas[tool] = schema, ParseArgs(tool, a) = parsed,
           DOMAIN a = DOMAIN schema, DOMAIN parsed = DOMAIN schema,
           \A p \in DOMAIN schema : ParameterIsKept(tool, a[p], schema[p], parsed[p])
    PROVE  ParserKeepsSchema(tool, a)
BY DEF ParserKeepsSchema, ParameterIsKept

LEMMA DefaultsAre ==
    /\ \A tool \in Limited : 1 <= DefaultOf[tool]
    /\ MinChars \in Nat \ {0} /\ MinChars <= DefaultOf["web_fetch"]
<1>1. \A tool \in Limited : DefaultOf[tool] \in Nat \ {0}
  BY ArgumentsAssumption
<1>2. DefaultOf["web_fetch"] \in Nat \ {0}
  BY <1>1 DEF Limited
<1>3. QED
  BY <1>1, <1>2, ArgumentsAssumption

LEMMA ReadFileKeeps == \A a : TakesValues("read_file", a) => ParserKeepsSchema("read_file", a)
<1> SUFFICES ASSUME NEW a, TakesValues("read_file", a) PROVE ParserKeepsSchema("read_file", a)
  BY Zenon
<1> DEFINE schema == ReadFileSchema
<1> DEFINE parsed == ReadFileArgs(a)
<1>1. Schemas["read_file"] = schema /\ ParseArgs("read_file", a) = parsed
  BY DEF Schemas, ParseArgs
<1>2. DOMAIN schema = {"path", "offset", "limit"} /\ DOMAIN parsed = {"path", "offset", "limit"}
  BY DEF ReadFileSchema, ReadFileArgs
<1>3. DOMAIN a = DOMAIN schema /\ \A p \in {"path", "offset", "limit"} : IsValue(a[p])
  BY <1>1, <1>2 DEF TakesValues
<1>4. ParameterIsKept("read_file", a["path"], schema["path"], parsed["path"])
  BY <1>3, TextIsKept DEF ReadFileSchema, ReadFileArgs
<1>5. ParameterIsKept("read_file", a["offset"], schema["offset"], parsed["offset"])
  BY <1>3, NumberIsKept DEF ReadFileSchema, ReadFileArgs
<1>6. ParameterIsKept("read_file", a["limit"], schema["limit"], parsed["limit"])
  BY <1>3, NumberIsKept DEF ReadFileSchema, ReadFileArgs
<1> HIDE DEF schema, parsed
<1>7. \A p \in DOMAIN schema : ParameterIsKept("read_file", a[p], schema[p], parsed[p])
  BY <1>2, <1>4, <1>5, <1>6
<1>8. QED
  BY <1>1, <1>2, <1>3, <1>7, KeptByParameters

LEMMA ListDirKeeps == \A a : TakesValues("list_dir", a) => ParserKeepsSchema("list_dir", a)
<1> SUFFICES ASSUME NEW a, TakesValues("list_dir", a) PROVE ParserKeepsSchema("list_dir", a)
  BY Zenon
<1> DEFINE schema == ListDirSchema
<1> DEFINE parsed == ListDirArgs(a)
<1>1. Schemas["list_dir"] = schema /\ ParseArgs("list_dir", a) = parsed
  BY DEF Schemas, ParseArgs
<1>2. DOMAIN schema = {"path", "max_entries", "recursive"} /\ DOMAIN parsed = {"path", "max_entries", "recursive"}
  BY DEF ListDirSchema, ListDirArgs
<1>3. DOMAIN a = DOMAIN schema /\ \A p \in {"path", "max_entries", "recursive"} : IsValue(a[p])
  BY <1>1, <1>2 DEF TakesValues
<1>4. ParameterIsKept("list_dir", a["path"], schema["path"], parsed["path"])
  BY <1>3, ChoiceIsKept DEF ListDirSchema, ListDirArgs
<1>5. ParameterIsKept("list_dir", a["max_entries"], schema["max_entries"], parsed["max_entries"])
  <2>1. "list_dir" \in Limited \ {"read_file"} /\ 1 \in Nat \ {0} /\ 1 <= DefaultOf["list_dir"]
    BY DefaultsAre DEF Limited
  <2>2. QED
    BY <1>3, <2>1, NumberIsKept, DefaultsAre DEF ListDirSchema, ListDirArgs
<1>6. ParameterIsKept("list_dir", a["recursive"], schema["recursive"], parsed["recursive"])
  BY <1>3, ChoiceIsKept DEF ListDirSchema, ListDirArgs
<1> HIDE DEF schema, parsed
<1>7. \A p \in DOMAIN schema : ParameterIsKept("list_dir", a[p], schema[p], parsed[p])
  BY <1>2, <1>4, <1>5, <1>6
<1>8. QED
  BY <1>1, <1>2, <1>3, <1>7, KeptByParameters

LEMMA WriteFileKeeps == \A a : TakesValues("write_file", a) => ParserKeepsSchema("write_file", a)
<1> SUFFICES ASSUME NEW a, TakesValues("write_file", a) PROVE ParserKeepsSchema("write_file", a)
  BY Zenon
<1> DEFINE schema == WriteFileSchema
<1> DEFINE parsed == WriteFileArgs(a)
<1>1. Schemas["write_file"] = schema /\ ParseArgs("write_file", a) = parsed
  BY DEF Schemas, ParseArgs
<1>2. DOMAIN schema = {"path", "content", "mode"} /\ DOMAIN parsed = {"path", "content", "mode"}
  BY DEF WriteFileSchema, WriteFileArgs
<1>3. DOMAIN a = DOMAIN schema /\ \A p \in {"path", "content", "mode"} : IsValue(a[p])
  BY <1>1, <1>2 DEF TakesValues
<1>4. ParameterIsKept("write_file", a["path"], schema["path"], parsed["path"])
  BY <1>3, TextIsKept DEF WriteFileSchema, WriteFileArgs
<1>5. ParameterIsKept("write_file", a["content"], schema["content"], parsed["content"])
  BY <1>3, TextIsKept DEF WriteFileSchema, WriteFileArgs
<1>6. ParameterIsKept("write_file", a["mode"], schema["mode"], parsed["mode"])
  BY <1>3, ChoiceIsKept DEF WriteFileSchema, WriteFileArgs
<1> HIDE DEF schema, parsed
<1>7. \A p \in DOMAIN schema : ParameterIsKept("write_file", a[p], schema[p], parsed[p])
  BY <1>2, <1>4, <1>5, <1>6
<1>8. QED
  BY <1>1, <1>2, <1>3, <1>7, KeptByParameters

LEMMA DeleteFileKeeps == \A a : TakesValues("delete_file", a) => ParserKeepsSchema("delete_file", a)
<1> SUFFICES ASSUME NEW a, TakesValues("delete_file", a) PROVE ParserKeepsSchema("delete_file", a)
  BY Zenon
<1> DEFINE schema == DeleteFileSchema
<1> DEFINE parsed == DeleteFileArgs(a)
<1>1. Schemas["delete_file"] = schema /\ ParseArgs("delete_file", a) = parsed
  BY DEF Schemas, ParseArgs
<1>2. DOMAIN schema = {"path"} /\ DOMAIN parsed = {"path"}
  BY DEF DeleteFileSchema, DeleteFileArgs
<1>3. DOMAIN a = DOMAIN schema /\ \A p \in {"path"} : IsValue(a[p])
  BY <1>1, <1>2 DEF TakesValues
<1>4. ParameterIsKept("delete_file", a["path"], schema["path"], parsed["path"])
  BY <1>3, TextIsKept DEF DeleteFileSchema, DeleteFileArgs
<1> HIDE DEF schema, parsed
<1>5. \A p \in DOMAIN schema : ParameterIsKept("delete_file", a[p], schema[p], parsed[p])
  BY <1>2, <1>4
<1>6. QED
  BY <1>1, <1>2, <1>3, <1>5, KeptByParameters

LEMMA StrReplaceKeeps == \A a : TakesValues("str_replace", a) => ParserKeepsSchema("str_replace", a)
<1> SUFFICES ASSUME NEW a, TakesValues("str_replace", a) PROVE ParserKeepsSchema("str_replace", a)
  BY Zenon
<1> DEFINE schema == StrReplaceSchema
<1> DEFINE parsed == StrReplaceArgs(a)
<1>1. Schemas["str_replace"] = schema /\ ParseArgs("str_replace", a) = parsed
  BY DEF Schemas, ParseArgs
<1>2. DOMAIN schema = {"path", "old_str", "new_str", "replace_all"} /\ DOMAIN parsed = {"path", "old_str", "new_str", "replace_all"}
  BY DEF StrReplaceSchema, StrReplaceArgs
<1>3. DOMAIN a = DOMAIN schema /\ \A p \in {"path", "old_str", "new_str", "replace_all"} : IsValue(a[p])
  BY <1>1, <1>2 DEF TakesValues
<1>4. ParameterIsKept("str_replace", a["path"], schema["path"], parsed["path"])
  BY <1>3, TextIsKept DEF StrReplaceSchema, StrReplaceArgs
<1>5. ParameterIsKept("str_replace", a["old_str"], schema["old_str"], parsed["old_str"])
  BY <1>3, TextIsKept DEF StrReplaceSchema, StrReplaceArgs
<1>6. ParameterIsKept("str_replace", a["new_str"], schema["new_str"], parsed["new_str"])
  BY <1>3, TextIsKept DEF StrReplaceSchema, StrReplaceArgs
<1>7. ParameterIsKept("str_replace", a["replace_all"], schema["replace_all"], parsed["replace_all"])
  BY <1>3, ChoiceIsKept DEF StrReplaceSchema, StrReplaceArgs
<1> HIDE DEF schema, parsed
<1>8. \A p \in DOMAIN schema : ParameterIsKept("str_replace", a[p], schema[p], parsed[p])
  BY <1>2, <1>4, <1>5, <1>6, <1>7
<1>9. QED
  BY <1>1, <1>2, <1>3, <1>8, KeptByParameters

LEMMA GrepKeeps == \A a : TakesValues("grep", a) => ParserKeepsSchema("grep", a)
<1> SUFFICES ASSUME NEW a, TakesValues("grep", a) PROVE ParserKeepsSchema("grep", a)
  BY Zenon
<1> DEFINE schema == GrepSchema
<1> DEFINE parsed == GrepArgs(a)
<1>1. Schemas["grep"] = schema /\ ParseArgs("grep", a) = parsed
  BY DEF Schemas, ParseArgs
<1>2. DOMAIN schema = {"pattern", "path", "glob", "case_insensitive", "max_matches"} /\ DOMAIN parsed = {"pattern", "path", "glob", "case_insensitive", "max_matches"}
  BY DEF GrepSchema, GrepArgs
<1>3. DOMAIN a = DOMAIN schema /\ \A p \in {"pattern", "path", "glob", "case_insensitive", "max_matches"} : IsValue(a[p])
  BY <1>1, <1>2 DEF TakesValues
<1>4. ParameterIsKept("grep", a["pattern"], schema["pattern"], parsed["pattern"])
  BY <1>3, TextIsKept DEF GrepSchema, GrepArgs
<1>5. ParameterIsKept("grep", a["path"], schema["path"], parsed["path"])
  BY <1>3, ChoiceIsKept DEF GrepSchema, GrepArgs
<1>6. ParameterIsKept("grep", a["glob"], schema["glob"], parsed["glob"])
  BY <1>3, ChoiceIsKept DEF GrepSchema, GrepArgs
<1>7. ParameterIsKept("grep", a["case_insensitive"], schema["case_insensitive"], parsed["case_insensitive"])
  BY <1>3, ChoiceIsKept DEF GrepSchema, GrepArgs
<1>8. ParameterIsKept("grep", a["max_matches"], schema["max_matches"], parsed["max_matches"])
  <2>1. "grep" \in Limited \ {"read_file"} /\ 1 \in Nat \ {0} /\ 1 <= DefaultOf["grep"]
    BY DefaultsAre DEF Limited
  <2>2. QED
    BY <1>3, <2>1, NumberIsKept, DefaultsAre DEF GrepSchema, GrepArgs
<1> HIDE DEF schema, parsed
<1>9. \A p \in DOMAIN schema : ParameterIsKept("grep", a[p], schema[p], parsed[p])
  BY <1>2, <1>4, <1>5, <1>6, <1>7, <1>8
<1>10. QED
  BY <1>1, <1>2, <1>3, <1>9, KeptByParameters

LEMMA GlobKeeps == \A a : TakesValues("glob", a) => ParserKeepsSchema("glob", a)
<1> SUFFICES ASSUME NEW a, TakesValues("glob", a) PROVE ParserKeepsSchema("glob", a)
  BY Zenon
<1> DEFINE schema == GlobSchema
<1> DEFINE parsed == GlobArgs(a)
<1>1. Schemas["glob"] = schema /\ ParseArgs("glob", a) = parsed
  BY DEF Schemas, ParseArgs
<1>2. DOMAIN schema = {"pattern", "path", "max_results"} /\ DOMAIN parsed = {"pattern", "path", "max_results"}
  BY DEF GlobSchema, GlobArgs
<1>3. DOMAIN a = DOMAIN schema /\ \A p \in {"pattern", "path", "max_results"} : IsValue(a[p])
  BY <1>1, <1>2 DEF TakesValues
<1>4. ParameterIsKept("glob", a["pattern"], schema["pattern"], parsed["pattern"])
  BY <1>3, TextIsKept DEF GlobSchema, GlobArgs
<1>5. ParameterIsKept("glob", a["path"], schema["path"], parsed["path"])
  BY <1>3, ChoiceIsKept DEF GlobSchema, GlobArgs
<1>6. ParameterIsKept("glob", a["max_results"], schema["max_results"], parsed["max_results"])
  <2>1. "glob" \in Limited \ {"read_file"} /\ 1 \in Nat \ {0} /\ 1 <= DefaultOf["glob"]
    BY DefaultsAre DEF Limited
  <2>2. QED
    BY <1>3, <2>1, NumberIsKept, DefaultsAre DEF GlobSchema, GlobArgs
<1> HIDE DEF schema, parsed
<1>7. \A p \in DOMAIN schema : ParameterIsKept("glob", a[p], schema[p], parsed[p])
  BY <1>2, <1>4, <1>5, <1>6
<1>8. QED
  BY <1>1, <1>2, <1>3, <1>7, KeptByParameters

LEMMA MemoryWriteKeeps == \A a : TakesValues("memory_write", a) => ParserKeepsSchema("memory_write", a)
<1> SUFFICES ASSUME NEW a, TakesValues("memory_write", a) PROVE ParserKeepsSchema("memory_write", a)
  BY Zenon
<1> DEFINE schema == MemoryWriteSchema
<1> DEFINE parsed == MemoryWriteArgs(a)
<1>1. Schemas["memory_write"] = schema /\ ParseArgs("memory_write", a) = parsed
  BY DEF Schemas, ParseArgs
<1>2. DOMAIN schema = {"content", "mode"} /\ DOMAIN parsed = {"content", "mode"}
  BY DEF MemoryWriteSchema, MemoryWriteArgs
<1>3. DOMAIN a = DOMAIN schema /\ \A p \in {"content", "mode"} : IsValue(a[p])
  BY <1>1, <1>2 DEF TakesValues
<1>4. ParameterIsKept("memory_write", a["content"], schema["content"], parsed["content"])
  BY <1>3, TextIsKept DEF MemoryWriteSchema, MemoryWriteArgs
<1>5. ParameterIsKept("memory_write", a["mode"], schema["mode"], parsed["mode"])
  BY <1>3, ChoiceIsKept DEF MemoryWriteSchema, MemoryWriteArgs
<1> HIDE DEF schema, parsed
<1>6. \A p \in DOMAIN schema : ParameterIsKept("memory_write", a[p], schema[p], parsed[p])
  BY <1>2, <1>4, <1>5
<1>7. QED
  BY <1>1, <1>2, <1>3, <1>6, KeptByParameters

LEMMA MemoryAppendKeeps == \A a : TakesValues("memory_append", a) => ParserKeepsSchema("memory_append", a)
<1> SUFFICES ASSUME NEW a, TakesValues("memory_append", a) PROVE ParserKeepsSchema("memory_append", a)
  BY Zenon
<1> DEFINE schema == MemoryAppendSchema
<1> DEFINE parsed == MemoryAppendArgs(a)
<1>1. Schemas["memory_append"] = schema /\ ParseArgs("memory_append", a) = parsed
  BY DEF Schemas, ParseArgs
<1>2. DOMAIN schema = {"content", "replace"} /\ DOMAIN parsed = {"content", "replace"}
  BY DEF MemoryAppendSchema, MemoryAppendArgs
<1>3. DOMAIN a = DOMAIN schema /\ \A p \in {"content", "replace"} : IsValue(a[p])
  BY <1>1, <1>2 DEF TakesValues
<1>4. ParameterIsKept("memory_append", a["content"], schema["content"], parsed["content"])
  BY <1>3, TextIsKept DEF MemoryAppendSchema, MemoryAppendArgs
<1>5. ParameterIsKept("memory_append", a["replace"], schema["replace"], parsed["replace"])
  BY <1>3, ChoiceIsKept DEF MemoryAppendSchema, MemoryAppendArgs
<1> HIDE DEF schema, parsed
<1>6. \A p \in DOMAIN schema : ParameterIsKept("memory_append", a[p], schema[p], parsed[p])
  BY <1>2, <1>4, <1>5
<1>7. QED
  BY <1>1, <1>2, <1>3, <1>6, KeptByParameters

LEMMA MemorySearchKeeps == \A a : TakesValues("memory_search", a) => ParserKeepsSchema("memory_search", a)
<1> SUFFICES ASSUME NEW a, TakesValues("memory_search", a) PROVE ParserKeepsSchema("memory_search", a)
  BY Zenon
<1> DEFINE schema == MemorySearchSchema
<1> DEFINE parsed == MemorySearchArgs(a)
<1>1. Schemas["memory_search"] = schema /\ ParseArgs("memory_search", a) = parsed
  BY DEF Schemas, ParseArgs
<1>2. DOMAIN schema = {"query", "max_results", "paths"} /\ DOMAIN parsed = {"query", "max_results", "paths"}
  BY DEF MemorySearchSchema, MemorySearchArgs
<1>3. DOMAIN a = DOMAIN schema /\ \A p \in {"query", "max_results", "paths"} : IsValue(a[p])
  BY <1>1, <1>2 DEF TakesValues
<1>4. ParameterIsKept("memory_search", a["query"], schema["query"], parsed["query"])
  BY <1>3, TextIsKept DEF MemorySearchSchema, MemorySearchArgs
<1>5. ParameterIsKept("memory_search", a["max_results"], schema["max_results"], parsed["max_results"])
  <2>1. "memory_search" \in Limited \ {"read_file"} /\ 1 \in Nat \ {0} /\ 1 <= DefaultOf["memory_search"]
    BY DefaultsAre DEF Limited
  <2>2. QED
    BY <1>3, <2>1, NumberIsKept, DefaultsAre DEF MemorySearchSchema, MemorySearchArgs
<1>6. ParameterIsKept("memory_search", a["paths"], schema["paths"], parsed["paths"])
  BY <1>3, ChoiceIsKept DEF MemorySearchSchema, MemorySearchArgs
<1> HIDE DEF schema, parsed
<1>7. \A p \in DOMAIN schema : ParameterIsKept("memory_search", a[p], schema[p], parsed[p])
  BY <1>2, <1>4, <1>5, <1>6
<1>8. QED
  BY <1>1, <1>2, <1>3, <1>7, KeptByParameters

LEMMA WebSearchKeeps == \A a : TakesValues("web_search", a) => ParserKeepsSchema("web_search", a)
<1> SUFFICES ASSUME NEW a, TakesValues("web_search", a) PROVE ParserKeepsSchema("web_search", a)
  BY Zenon
<1> DEFINE schema == WebSearchSchema
<1> DEFINE parsed == WebSearchArgs(a)
<1>1. Schemas["web_search"] = schema /\ ParseArgs("web_search", a) = parsed
  BY DEF Schemas, ParseArgs
<1>2. DOMAIN schema = {"query", "max_results"} /\ DOMAIN parsed = {"query", "max_results"}
  BY DEF WebSearchSchema, WebSearchArgs
<1>3. DOMAIN a = DOMAIN schema /\ \A p \in {"query", "max_results"} : IsValue(a[p])
  BY <1>1, <1>2 DEF TakesValues
<1>4. ParameterIsKept("web_search", a["query"], schema["query"], parsed["query"])
  BY <1>3, TextIsKept DEF WebSearchSchema, WebSearchArgs
<1>5. ParameterIsKept("web_search", a["max_results"], schema["max_results"], parsed["max_results"])
  <2>1. "web_search" \in Limited \ {"read_file"} /\ 1 \in Nat \ {0} /\ 1 <= DefaultOf["web_search"]
    BY DefaultsAre DEF Limited
  <2>2. QED
    BY <1>3, <2>1, NumberIsKept, DefaultsAre DEF WebSearchSchema, WebSearchArgs
<1> HIDE DEF schema, parsed
<1>6. \A p \in DOMAIN schema : ParameterIsKept("web_search", a[p], schema[p], parsed[p])
  BY <1>2, <1>4, <1>5
<1>7. QED
  BY <1>1, <1>2, <1>3, <1>6, KeptByParameters

LEMMA WebFetchKeeps == \A a : TakesValues("web_fetch", a) => ParserKeepsSchema("web_fetch", a)
<1> SUFFICES ASSUME NEW a, TakesValues("web_fetch", a) PROVE ParserKeepsSchema("web_fetch", a)
  BY Zenon
<1> DEFINE schema == WebFetchSchema
<1> DEFINE parsed == WebFetchArgs(a)
<1>1. Schemas["web_fetch"] = schema /\ ParseArgs("web_fetch", a) = parsed
  BY DEF Schemas, ParseArgs
<1>2. DOMAIN schema = {"url", "max_chars"} /\ DOMAIN parsed = {"url", "max_chars"}
  BY DEF WebFetchSchema, WebFetchArgs
<1>3. DOMAIN a = DOMAIN schema /\ \A p \in {"url", "max_chars"} : IsValue(a[p])
  BY <1>1, <1>2 DEF TakesValues
<1>4. ParameterIsKept("web_fetch", a["url"], schema["url"], parsed["url"])
  BY <1>3, TextIsKept DEF WebFetchSchema, WebFetchArgs
<1>5. ParameterIsKept("web_fetch", a["max_chars"], schema["max_chars"], parsed["max_chars"])
  <2>1. "web_fetch" \in Limited \ {"read_file"} /\ 1 \in Nat \ {0} /\ 1 <= DefaultOf["web_fetch"]
    BY DefaultsAre DEF Limited
  <2>2. QED
    BY <1>3, <2>1, NumberIsKept, DefaultsAre DEF WebFetchSchema, WebFetchArgs
<1> HIDE DEF schema, parsed
<1>6. \A p \in DOMAIN schema : ParameterIsKept("web_fetch", a[p], schema[p], parsed[p])
  BY <1>2, <1>4, <1>5
<1>7. QED
  BY <1>1, <1>2, <1>3, <1>6, KeptByParameters

LEMMA MemoryReadKeeps == \A a : TakesValues("memory_read", a) => ParserKeepsSchema("memory_read", a)
<1> SUFFICES ASSUME NEW a, TakesValues("memory_read", a) PROVE ParserKeepsSchema("memory_read", a)
  BY Zenon
<1> DEFINE schema == MemoryReadSchema
<1> DEFINE parsed == MemoryReadArgs(a)
<1>1. Schemas["memory_read"] = schema /\ ParseArgs("memory_read", a) = parsed
  BY DEF Schemas, ParseArgs
<1>2. DOMAIN schema = {"file"} /\ DOMAIN parsed = {"file"}
  BY DEF MemoryReadSchema, MemoryReadArgs
<1>3. DOMAIN a = DOMAIN schema /\ \A p \in {"file"} : IsValue(a[p])
  BY <1>1, <1>2 DEF TakesValues
<1>4. ParameterIsKept("memory_read", a["file"], schema["file"], parsed["file"])
  BY <1>3, TextIsKept DEF MemoryReadSchema, MemoryReadArgs
<1> HIDE DEF schema, parsed
<1>5. \A p \in DOMAIN schema : ParameterIsKept("memory_read", a[p], schema[p], parsed[p])
  BY <1>2, <1>4
<1>6. QED
  BY <1>1, <1>2, <1>3, <1>5, KeptByParameters

LEMMA FileReadKeeps == \A a : TakesValues("file_read", a) => ParserKeepsSchema("file_read", a)
<1> SUFFICES ASSUME NEW a, TakesValues("file_read", a) PROVE ParserKeepsSchema("file_read", a)
  BY Zenon
<1> DEFINE schema == FileReadSchema
<1> DEFINE parsed == FileReadArgs(a)
<1>1. Schemas["file_read"] = schema /\ ParseArgs("file_read", a) = parsed
  BY DEF Schemas, ParseArgs
<1>2. DOMAIN schema = {"path"} /\ DOMAIN parsed = {"path"}
  BY DEF FileReadSchema, FileReadArgs
<1>3. DOMAIN a = DOMAIN schema /\ \A p \in {"path"} : IsValue(a[p])
  BY <1>1, <1>2 DEF TakesValues
<1>4. ParameterIsKept("file_read", a["path"], schema["path"], parsed["path"])
  BY <1>3, TextIsKept DEF FileReadSchema, FileReadArgs
<1> HIDE DEF schema, parsed
<1>5. \A p \in DOMAIN schema : ParameterIsKept("file_read", a[p], schema[p], parsed[p])
  BY <1>2, <1>4
<1>6. QED
  BY <1>1, <1>2, <1>3, <1>5, KeptByParameters

LEMMA FileWriteKeeps == \A a : TakesValues("file_write", a) => ParserKeepsSchema("file_write", a)
<1> SUFFICES ASSUME NEW a, TakesValues("file_write", a) PROVE ParserKeepsSchema("file_write", a)
  BY Zenon
<1> DEFINE schema == FileWriteSchema
<1> DEFINE parsed == FileWriteArgs(a)
<1>1. Schemas["file_write"] = schema /\ ParseArgs("file_write", a) = parsed
  BY DEF Schemas, ParseArgs
<1>2. DOMAIN schema = {"path", "content"} /\ DOMAIN parsed = {"path", "content"}
  BY DEF FileWriteSchema, FileWriteArgs
<1>3. DOMAIN a = DOMAIN schema /\ \A p \in {"path", "content"} : IsValue(a[p])
  BY <1>1, <1>2 DEF TakesValues
<1>4. ParameterIsKept("file_write", a["path"], schema["path"], parsed["path"])
  BY <1>3, TextIsKept DEF FileWriteSchema, FileWriteArgs
<1>5. ParameterIsKept("file_write", a["content"], schema["content"], parsed["content"])
  BY <1>3, TextIsKept DEF FileWriteSchema, FileWriteArgs
<1> HIDE DEF schema, parsed
<1>6. \A p \in DOMAIN schema : ParameterIsKept("file_write", a[p], schema[p], parsed[p])
  BY <1>2, <1>4, <1>5
<1>7. QED
  BY <1>1, <1>2, <1>3, <1>6, KeptByParameters

LEMMA FileListKeeps == \A a : TakesValues("file_list", a) => ParserKeepsSchema("file_list", a)
<1> SUFFICES ASSUME NEW a, TakesValues("file_list", a) PROVE ParserKeepsSchema("file_list", a)
  BY Zenon
<1> DEFINE schema == FileListSchema
<1> DEFINE parsed == FileListArgs(a)
<1>1. Schemas["file_list"] = schema /\ ParseArgs("file_list", a) = parsed
  BY DEF Schemas, ParseArgs
<1>2. DOMAIN schema = {"path"} /\ DOMAIN parsed = {"path"}
  BY DEF FileListSchema, FileListArgs
<1>3. DOMAIN a = DOMAIN schema /\ \A p \in {"path"} : IsValue(a[p])
  BY <1>1, <1>2 DEF TakesValues
<1>4. ParameterIsKept("file_list", a["path"], schema["path"], parsed["path"])
  BY <1>3, ChoiceIsKept DEF FileListSchema, FileListArgs
<1> HIDE DEF schema, parsed
<1>5. \A p \in DOMAIN schema : ParameterIsKept("file_list", a[p], schema[p], parsed[p])
  BY <1>2, <1>4
<1>6. QED
  BY <1>1, <1>2, <1>3, <1>5, KeptByParameters

LEMMA FileCopyKeeps == \A a : TakesValues("file_copy", a) => ParserKeepsSchema("file_copy", a)
<1> SUFFICES ASSUME NEW a, TakesValues("file_copy", a) PROVE ParserKeepsSchema("file_copy", a)
  BY Zenon
<1> DEFINE schema == FileCopySchema
<1> DEFINE parsed == FileCopyArgs(a)
<1>1. Schemas["file_copy"] = schema /\ ParseArgs("file_copy", a) = parsed
  BY DEF Schemas, ParseArgs
<1>2. DOMAIN schema = {"source", "destination"} /\ DOMAIN parsed = {"source", "destination"}
  BY DEF FileCopySchema, FileCopyArgs
<1>3. DOMAIN a = DOMAIN schema /\ \A p \in {"source", "destination"} : IsValue(a[p])
  BY <1>1, <1>2 DEF TakesValues
<1>4. ParameterIsKept("file_copy", a["source"], schema["source"], parsed["source"])
  BY <1>3, TextIsKept DEF FileCopySchema, FileCopyArgs
<1>5. ParameterIsKept("file_copy", a["destination"], schema["destination"], parsed["destination"])
  BY <1>3, TextIsKept DEF FileCopySchema, FileCopyArgs
<1> HIDE DEF schema, parsed
<1>6. \A p \in DOMAIN schema : ParameterIsKept("file_copy", a[p], schema[p], parsed[p])
  BY <1>2, <1>4, <1>5
<1>7. QED
  BY <1>1, <1>2, <1>3, <1>6, KeptByParameters

LEMMA HttpGetKeeps == \A a : TakesValues("http_get", a) => ParserKeepsSchema("http_get", a)
<1> SUFFICES ASSUME NEW a, TakesValues("http_get", a) PROVE ParserKeepsSchema("http_get", a)
  BY Zenon
<1> DEFINE schema == HttpGetSchema
<1> DEFINE parsed == HttpGetArgs(a)
<1>1. Schemas["http_get"] = schema /\ ParseArgs("http_get", a) = parsed
  BY DEF Schemas, ParseArgs
<1>2. DOMAIN schema = {"url"} /\ DOMAIN parsed = {"url"}
  BY DEF HttpGetSchema, HttpGetArgs
<1>3. DOMAIN a = DOMAIN schema /\ \A p \in {"url"} : IsValue(a[p])
  BY <1>1, <1>2 DEF TakesValues
<1>4. ParameterIsKept("http_get", a["url"], schema["url"], parsed["url"])
  BY <1>3, TextIsKept DEF HttpGetSchema, HttpGetArgs
<1> HIDE DEF schema, parsed
<1>5. \A p \in DOMAIN schema : ParameterIsKept("http_get", a[p], schema[p], parsed[p])
  BY <1>2, <1>4
<1>6. QED
  BY <1>1, <1>2, <1>3, <1>5, KeptByParameters

LEMMA JsonQueryKeeps == \A a : TakesValues("json_query", a) => ParserKeepsSchema("json_query", a)
<1> SUFFICES ASSUME NEW a, TakesValues("json_query", a) PROVE ParserKeepsSchema("json_query", a)
  BY Zenon
<1> DEFINE schema == JsonQuerySchema
<1> DEFINE parsed == JsonQueryArgs(a)
<1>1. Schemas["json_query"] = schema /\ ParseArgs("json_query", a) = parsed
  BY DEF Schemas, ParseArgs
<1>2. DOMAIN schema = {"json", "path"} /\ DOMAIN parsed = {"json", "path"}
  BY DEF JsonQuerySchema, JsonQueryArgs
<1>3. DOMAIN a = DOMAIN schema /\ \A p \in {"json", "path"} : IsValue(a[p])
  BY <1>1, <1>2 DEF TakesValues
<1>4. ParameterIsKept("json_query", a["json"], schema["json"], parsed["json"])
  BY <1>3, TextIsKept DEF JsonQuerySchema, JsonQueryArgs
<1>5. ParameterIsKept("json_query", a["path"], schema["path"], parsed["path"])
  BY <1>3, ChoiceIsKept DEF JsonQuerySchema, JsonQueryArgs
<1> HIDE DEF schema, parsed
<1>6. \A p \in DOMAIN schema : ParameterIsKept("json_query", a[p], schema[p], parsed[p])
  BY <1>2, <1>4, <1>5
<1>7. QED
  BY <1>1, <1>2, <1>3, <1>6, KeptByParameters

LEMMA ShellExecKeeps == \A a : TakesValues("shell_exec", a) => ParserKeepsSchema("shell_exec", a)
<1> SUFFICES ASSUME NEW a, TakesValues("shell_exec", a) PROVE ParserKeepsSchema("shell_exec", a)
  BY Zenon
<1> DEFINE schema == ShellExecSchema
<1> DEFINE parsed == ShellExecArgs(a)
<1>1. Schemas["shell_exec"] = schema /\ ParseArgs("shell_exec", a) = parsed
  BY DEF Schemas, ParseArgs
<1>2. DOMAIN schema = {"command", "args"} /\ DOMAIN parsed = {"command", "args"}
  BY DEF ShellExecSchema, ShellExecArgs
<1>3. DOMAIN a = DOMAIN schema /\ \A p \in {"command", "args"} : IsValue(a[p])
  BY <1>1, <1>2 DEF TakesValues
<1>4. ParameterIsKept("shell_exec", a["command"], schema["command"], parsed["command"])
  BY <1>3, TextIsKept DEF ShellExecSchema, ShellExecArgs
<1>5. ParameterIsKept("shell_exec", a["args"], schema["args"], parsed["args"])
  BY <1>3, ChoiceIsKept DEF ShellExecSchema, ShellExecArgs
<1> HIDE DEF schema, parsed
<1>6. \A p \in DOMAIN schema : ParameterIsKept("shell_exec", a[p], schema[p], parsed[p])
  BY <1>2, <1>4, <1>5
<1>7. QED
  BY <1>1, <1>2, <1>3, <1>6, KeptByParameters

\* An alias is taken for what it stands for: the two are the same or one of them is not given.
LEMMA AliasIs ==
    ASSUME NEW x, NEW y, NEW default, x # Refused, y # Refused, x = y \/ x = Unset \/ y = Unset,
           default # Refused \/ x # Unset \/ y # Unset
    PROVE  Alias(x, y, default) # Refused
BY DEF Alias

LEMMA AliasesAgree ==
    ASSUME NEW a, Agree(a), NEW p, NEW q, <<p, q>> \in Aliases, p \in DOMAIN a, q \in DOMAIN a
    PROVE  a[p] = a[q] \/ a[p] = Absent \/ a[q] = Absent
BY DEF Agree

LEMMA MkdirKeeps == \A a : TakesValues("mkdir", a) => ParserKeepsSchema("mkdir", a)
<1> SUFFICES ASSUME NEW a, TakesValues("mkdir", a) PROVE ParserKeepsSchema("mkdir", a)
  BY Zenon
<1> DEFINE schema == MkdirSchema
<1> DEFINE parsed == MkdirArgs(a)
<1>1. Schemas["mkdir"] = schema /\ ParseArgs("mkdir", a) = parsed
  BY DEF Schemas, ParseArgs
<1>2. DOMAIN schema = {"path", "recursive", "parents"} /\ DOMAIN parsed = {"path", "recursive"}
  BY DEF MkdirSchema, MkdirArgs
<1>3. DOMAIN a = DOMAIN schema /\ \A p \in {"path", "recursive", "parents"} : IsValue(a[p])
  BY <1>1, <1>2 DEF TakesValues
<1>4. schema["path"] = Needed(String) /\ schema["recursive"] = Boolean /\ schema["parents"] = Boolean
  BY DEF MkdirSchema
<1>5. /\ parsed["path"] = RequiredText(a["path"])
      /\ parsed["recursive"] = Alias(FlagAlias(a["recursive"]), FlagAlias(a["parents"]), Got(TRUE))
  BY DEF MkdirArgs
<1>6. ParameterIsKept("mkdir", a["path"], schema["path"], parsed["path"])
  BY <1>3, <1>4, <1>5, TextIsKept
<1>7. ASSUME Conforms(a["recursive"], Boolean), Conforms(a["parents"], Boolean), Agree(a)
      PROVE  parsed["recursive"] # Refused
  <2>1. a["recursive"] = a["parents"] \/ a["recursive"] = Absent \/ a["parents"] = Absent
    <3>1. <<"recursive", "parents">> \in Aliases
      BY DEF Aliases
    <3>2. QED
      BY <1>2, <1>3, <1>7, <3>1, AliasesAgree
  <2>2. ASSUME NEW v, IsValue(v), Conforms(v, Boolean) PROVE FlagAlias(v) # Refused /\ (v = Absent => FlagAlias(v) = Unset)
    BY <2>2, ConformingIs, ValuesDiffer DEF FlagAlias, OptionalFlag
  <2> DEFINE x == FlagAlias(a["recursive"])
  <2> DEFINE y == FlagAlias(a["parents"])
  <2> DEFINE default == Got(TRUE)
  <2>3. x # Refused /\ y # Refused /\ (x = y \/ x = Unset \/ y = Unset)
    BY <1>3, <1>7, <2>1, <2>2
  <2>4. default # Refused
    BY ValuesDiffer, Zenon
  <2> HIDE DEF x, y, default
  <2>5. Alias(x, y, default) # Refused
    BY <2>3, <2>4, AliasIs
  <2>6. QED
    BY <1>5, <2>5, Zenon DEF x, y, default
<1>8. "low" \notin DOMAIN Boolean /\ ~Boolean.required
  BY PropertiesAre
<1> HIDE DEF schema, parsed
<1>9. QED
  BY <1>1, <1>2, <1>3, <1>4, <1>6, <1>7, <1>8 DEF ParserKeepsSchema, ParameterIsKept

LEMMA MoveKeeps == \A a : TakesValues("move", a) => ParserKeepsSchema("move", a)
<1> SUFFICES ASSUME NEW a, TakesValues("move", a) PROVE ParserKeepsSchema("move", a)
  BY Zenon
<1> DEFINE schema == MoveSchema
<1> DEFINE parsed == MoveArgs(a)
<1> DEFINE names == {"from", "source", "to", "destination", "overwrite"}
<1>1. Schemas["move"] = schema /\ ParseArgs("move", a) = parsed
  BY DEF Schemas, ParseArgs
<1>2. DOMAIN schema = names /\ DOMAIN parsed = {"from", "to", "overwrite"}
  BY DEF MoveSchema, MoveArgs
<1>3. DOMAIN a = DOMAIN schema /\ \A p \in names : IsValue(a[p])
  BY <1>1, <1>2 DEF TakesValues
<1>4. /\ schema["from"] = Needed(String) /\ schema["source"] = String
      /\ schema["to"] = Needed(String) /\ schema["destination"] = String /\ schema["overwrite"] = Boolean
  BY DEF MoveSchema
<1>5. /\ parsed["from"] = Alias(PathAlias(a["from"]), PathAlias(a["source"]), Refused)
      /\ parsed["to"] = Alias(PathAlias(a["to"]), PathAlias(a["destination"]), Refused)
      /\ parsed["overwrite"] = OptionalFlag(a["overwrite"], FALSE)
  BY DEF MoveArgs
<1>6. ParameterIsKept("move", a["overwrite"], schema["overwrite"], parsed["overwrite"])
  BY <1>3, <1>4, <1>5, ChoiceIsKept
<1>7. ASSUME NEW v, IsValue(v), NEW u, IsValue(u), v = u \/ v = Absent \/ u = Absent,
             Conforms(v, Needed(String)), Usable(v, Needed(String)), Conforms(u, String), Usable(u, String)
      PROVE  Alias(PathAlias(v), PathAlias(u), Refused) # Refused
  <2>1. Trim("text") = "text" /\ Trim("padded") = "text"
    BY DEF Trim
  <2>2. Is(v, "text") /\ v.text \in {"text", "padded"} /\ (u = Absent \/ (Is(u, "text") /\ u.text \in {"text", "padded"}))
    BY <1>7, ConformingIs
  <2>3. ~Missing(v) /\ v # Absent
    BY <2>2, ValuesDiffer
  <2>4. PathAlias(v) # Refused /\ PathAlias(v) # Unset
    BY <2>1, <2>2, <2>3, ValuesDiffer DEF PathAlias, RequiredText
  <2>5. PathAlias(u) # Refused /\ (u = Absent => PathAlias(u) = Unset)
    BY <2>1, <2>2, ValuesDiffer DEF PathAlias, RequiredText
  <2>6. PathAlias(v) = PathAlias(u) \/ PathAlias(u) = Unset
    BY <1>7, <2>3, <2>5
  <2>7. QED
    BY <2>4, <2>5, <2>6, AliasIs
<1>8. <<"from", "source">> \in Aliases /\ <<"to", "destination">> \in Aliases
  BY DEF Aliases
<1>9. ASSUME Agree(a), \A p \in names : Conforms(a[p], schema[p]) /\ Usable(a[p], schema[p])
      PROVE  parsed["from"] # Refused /\ parsed["to"] # Refused
  <2>1. /\ a["from"] = a["source"] \/ a["from"] = Absent \/ a["source"] = Absent
        /\ a["to"] = a["destination"] \/ a["to"] = Absent \/ a["destination"] = Absent
    BY <1>2, <1>3, <1>8, <1>9, AliasesAgree
  <2>2. QED
    BY <1>3, <1>4, <1>5, <1>7, <1>9, <2>1
<1>10. /\ "low" \notin DOMAIN Boolean /\ "low" \notin DOMAIN String /\ "low" \notin DOMAIN Needed(String)
  BY PropertiesAre
<1> HIDE DEF schema, parsed
<1>11. \A p \in DOMAIN schema : "low" \notin DOMAIN schema[p]
  BY <1>2, <1>4, <1>10
<1>12. (\A p \in DOMAIN schema : Conforms(a[p], schema[p]) /\ Usable(a[p], schema[p])) /\ Agree(a)
          => \A p \in DOMAIN parsed : parsed[p] # Refused
  BY <1>2, <1>6, <1>9 DEF ParameterIsKept
<1> HIDE DEF names
<1>13. QED
  BY <1>1, <1>11, <1>12 DEF ParserKeepsSchema

(***************************************************************************)
(* For every tool and every JSON value of each of its parameters: the      *)
(* parser keeps to the schema. What conforms is taken, what is taken has   *)
(* what is required, and a number of results is the one that was asked for *)
(* or the nearest the tool can return (parse_*_args and parameters_schema  *)
(* of files.rs, memory.rs and tools.rs).                                   *)
(***************************************************************************)
THEOREM ParsersAlwaysKeepSchemas ==
    ASSUME NEW tool \in DOMAIN Schemas, NEW a, TakesValues(tool, a)
    PROVE  ParserKeepsSchema(tool, a)
<1>1. tool \in {"read_file", "list_dir", "write_file", "delete_file", "str_replace", "grep", "glob",
                "memory_write", "memory_append", "memory_search", "web_search", "web_fetch", "memory_read",
                "file_read", "file_write", "file_list", "file_copy", "http_get", "json_query", "shell_exec", "mkdir", "move"}
  BY DEF Schemas
<1>2. QED
  BY <1>1, ReadFileKeeps, ListDirKeeps, WriteFileKeeps, DeleteFileKeeps, StrReplaceKeeps, GrepKeeps, GlobKeeps,
     MemoryWriteKeeps, MemoryAppendKeeps, MemorySearchKeeps, WebSearchKeeps, WebFetchKeeps, MemoryReadKeeps,
     FileReadKeeps, FileWriteKeeps, FileListKeeps, FileCopyKeeps, HttpGetKeeps, JsonQueryKeeps, ShellExecKeeps, MkdirKeeps, MoveKeeps

-----------------------------------------------------------------------------
(* The arguments of MCAlgorithms *)

ArgumentsAreTyped == Asks("tool") => call.tool \in DOMAIN Schemas /\ TakesValues(call.tool, call.args)

LEMMA ArgumentInputs == \A tool \in DOMAIN Schemas : \A args \in ArgumentsOf(tool) : TakesValues(tool, args)
<1>1. /\ IsValue(Absent) /\ IsValue(Null) /\ IsValue(Other)
      /\ \A b : IsValue(Flag(b))
      /\ \A items : IsValue(Array(items))
      /\ \A word : IsValue(Text(word))
      /\ \A n \in Int : IsValue(Number(n))
  BY DEF IsValue, Is, Absent, Null, Other, Flag, Array, Text, Number
<1>2. \A v \in Values : IsValue(v)
  <2>1. {-1, 0, 1, 2, 3, 9} \subseteq Int
    OBVIOUS
  <2>2. \A v \in {Number(n) : n \in {-1, 0, 1, 2, 3, 9}} : IsValue(v)
    BY <1>1, <2>1, Zenon
  <2>3. QED
    BY <1>1, <2>2, Zenon DEF Values
<1>3. \A property : IsValue(Usual(property))
  BY <1>1 DEF Usual
<1>4. SUFFICES ASSUME NEW tool \in DOMAIN Schemas, NEW args \in ArgumentsOf(tool) PROVE TakesValues(tool, args)
  BY Zenon
<1> DEFINE names == DOMAIN Schemas[tool]
<1> DEFINE given(p1, p2, v1, v2) ==
               [p \in names |-> IF p = p1 THEN v1 ELSE IF p = p2 THEN v2 ELSE Usual(Schemas[tool][p])]
<1>5. \E p1 \in names, p2 \in names, v1 \in Values, v2 \in Values : args = given(p1, p2, v1, v2)
  <2>1. args \in {given(p1, p2, v1, v2) : p1 \in names, p2 \in names, v1 \in Values, v2 \in Values}
    BY DEF ArgumentsOf
  <2> HIDE DEF given, names
  <2>2. QED
    BY <2>1, SMT
<1>6. PICK p1 \in names, p2 \in names, v1 \in Values, v2 \in Values :
         args = [p \in names |-> IF p = p1 THEN v1 ELSE IF p = p2 THEN v2 ELSE Usual(Schemas[tool][p])]
  BY <1>5, Zenon
<1>7. DOMAIN args = names /\ \A p \in names : args[p] \in {v1, v2, Usual(Schemas[tool][p])}
  <2> HIDE DEF names
  <2>1. QED
    BY <1>6
<1> HIDE DEF names
<1>8. DOMAIN args = names /\ \A p \in names : IsValue(args[p])
  BY <1>2, <1>3, <1>7
<1>9. QED
  BY <1>8 DEF TakesValues, names

LEMMA ToolCallsAreTyped == Spec => []ArgumentsAreTyped
<1>1. Init => ArgumentsAreTyped
  BY DEF Init, ArgumentsAreTyped, Asks
<1>2. ArgumentsAreTyped /\ [Next]_call => ArgumentsAreTyped'
  <2> SUFFICES ASSUME ArgumentsAreTyped, [Next]_call PROVE ArgumentsAreTyped'
    OBVIOUS
  <2>1. CASE ToolCalls
    <3>1. CASE \E tool \in DOMAIN Schemas : \E args \in ArgumentsOf(tool) :
                  call' = [kind |-> "tool", tool |-> tool, args |-> args]
      <4>0. PICK tool \in DOMAIN Schemas : \E args \in ArgumentsOf(tool) :
                    call' = [kind |-> "tool", tool |-> tool, args |-> args]
        BY <3>1, Zenon
      <4>1. PICK args \in ArgumentsOf(tool) : call' = [kind |-> "tool", tool |-> tool, args |-> args]
        BY <4>0, Zenon
      <4>2. call'.tool = tool /\ call'.args = args
        BY <4>1
      <4>3. TakesValues(tool, args)
        BY ArgumentInputs
      <4>4. QED
        BY <4>2, <4>3 DEF ArgumentsAreTyped
    <3>2. CASE \E start \in Starts, allowPrivate \in BOOLEAN, replies \in SeqsOf(Replies, 0 .. 3) :
                  call' = [kind |-> "fetch", start |-> start, allowPrivate |-> allowPrivate, replies |-> replies]
      BY <3>2 DEF ArgumentsAreTyped, Asks
    <3>3. CASE \E parts \in Pages : call' = [kind |-> "page", parts |-> parts]
      BY <3>3 DEF ArgumentsAreTyped, Asks
    <3>4. CASE \E hits \in 0 .. 3, widths \in SeqsOf(1 .. 3, 0 .. 4) :
                  call' = [kind |-> "answer", hits |-> [i \in 1 .. hits |-> i], widths |-> widths]
      BY <3>4 DEF ArgumentsAreTyped, Asks
    <3>5. QED
      BY <2>1, <3>1, <3>2, <3>3, <3>4, Zenon DEF ToolCalls
  <2>2. CASE Next /\ ~ToolCalls
    BY <2>2, KindsAreOf DEF KindsOf, Next, ArgumentsAreTyped, Asks
  <2>3. CASE call' = call
    BY <2>3 DEF ArgumentsAreTyped, Asks
  <2>4. QED
    BY <2>1, <2>2, <2>3
<1>3. QED
  BY <1>1, <1>2, PTL DEF Spec

(***************************************************************************)
(* What MCAlgorithms checks of the parsers holds in every state, whatever  *)
(* the limits of the tools are, by ParsersAlwaysKeepSchemas.               *)
(***************************************************************************)
THEOREM ParsersKeepInCalls == Spec => []ParsersKeepSchemas
<1>1. ArgumentsAreTyped => ParsersKeepSchemas
  BY ParsersAlwaysKeepSchemas DEF ArgumentsAreTyped, ParsersKeepSchemas
<1>2. QED
  BY <1>1, ToolCallsAreTyped, PTL

=============================================================================
