----------------------------- MODULE SpeechText -----------------------------
(***************************************************************************)
(* From speech to cues, the two pure algorithms of a transcription:        *)
(* chunking.py plans chunks that overlap and merges what was heard in      *)
(* each, subtitle_formatter.py groups words into cues and times them.  The *)
(* inputs are grown one utterance, or one word, at a time.  Time is in     *)
(* whole ticks, text is its words' lengths, and two texts are similar when *)
(* they are the same.                                                      *)
(***************************************************************************)
EXTENDS Integers, FiniteSets, SequencesExt

CONSTANTS
  StLengths,    \* durations of the sound, in ticks
  StUtterances, \* bound on the utterances in it
  StWords,      \* bound on the words given to the formatter
  StChunk, StOverlap,   \* chunk_duration, overlap
  StSpeech,     \* longest utterance
  StLine, StLines,      \* FormatterConfig: characters of a line, lines of a cue
  StRate, StSecond,     \* characters a second, ticks a second
  StMin, StMax, StGap,  \* shortest and longest cue, the gap between two
  StSlack, StLong,      \* what _fits lets a line have more; a long sentence
  StSizes, StPauses, StSpans   \* words: characters, silence before, duration

StTexts == {"yes", "no"}

\* Chunks overlap, and what is said at a stretch is shorter than a chunk less
\* two overlaps: of 20 minutes less 40 seconds, where Whisper's have 30.
ASSUME StAssumption ==
  /\ StLengths \subseteq Nat \ {0} /\ StUtterances \in Nat /\ StWords \in Nat
  /\ {StChunk, StOverlap, StSpeech, StRate, StSecond, StMin, StMax} \subseteq Nat \ {0}
  /\ {StLine, StLines, StGap, StSlack, StLong} \subseteq Nat
  /\ StSizes \subseteq Nat /\ StPauses \subseteq Nat /\ StSpans \subseteq Nat \ {0}
  /\ StChunk > 2 * StOverlap + StSpeech - 1

VARIABLES
  stLen,    \* the sound's duration
  stSaid,   \* what is said in it: when, the text, and the chunks that miss it
  stScript  \* the words the formatter is given

stVars == <<stLen, stSaid, stScript>>

StLo(a, b) == IF a <= b THEN a ELSE b
StHi(a, b) == IF a >= b THEN a ELSE b
-----------------------------------------------------------------------------
(* plan_chunks: the last chunk is the first one that reaches the end. *)
StPlan(len) ==
  IF len <= StChunk + StOverlap THEN <<[start |-> 0, end |-> len, overlap |-> 0]>>
  ELSE LET step == StChunk - StOverlap
           last == CHOOSE n \in 0..len : /\ n * step + StChunk >= len
                                         /\ \A k \in 0..(n - 1) : k * step + StChunk < len
       IN [i \in 1..(last + 1) |-> [start |-> (i - 1) * step,
                                    end |-> StLo(len, (i - 1) * step + StChunk),
                                    overlap |-> IF i = 1 THEN 0 ELSE StOverlap]]

StAudible(u, chunk) == u.start < chunk.end /\ u.end > chunk.start

StPart(u, id, chunk) ==   \* of an utterance, in the chunk's own time
  [start |-> StHi(u.start, chunk.start) - chunk.start,
   end |-> StLo(u.end, chunk.end) - chunk.start, text |-> u.text, id |-> id]

StOnly(keep, seq) ==
  FoldLeft(LAMBDA acc, x : IF x \in keep THEN Append(acc, x) ELSE acc, <<>>, seq)
StUpTo(n) == [k \in 1..n |-> k]

\* A chunk's transcript.
StHeardIn(i) ==
  LET chunk == StPlan(stLen)[i]
      heard == StOnly({k \in 1..Len(stSaid) : /\ StAudible(stSaid[k], chunk)
                                              /\ i \notin stSaid[k].missed},
                      StUpTo(Len(stSaid)))
  IN [j \in 1..Len(heard) |-> StPart(stSaid[heard[j]], heard[j], chunk)]

StOffset(segments, by) ==   \* offset_transcript
  [j \in 1..Len(segments) |->
     [start |-> segments[j].start + by, end |-> segments[j].end + by,
      text |-> segments[j].text, id |-> segments[j].id]]

StInWindow(segment, from, to) ==   \* _segment_in_window
  \/ 2 * from <= segment.start + segment.end /\ segment.start + segment.end <= 2 * to
  \/ segment.start < to /\ segment.end > from

\* The overlap's duplicates: what has the text of something kept in it.
StFresh(kept, segments, from, to) ==
  StOnly({s \in Range(segments) : \/ ~StInWindow(s, from, to)
                                  \/ \A j \in 1..Len(kept) :
                                       StInWindow(kept[j], from, to) => kept[j].text # s.text},
         segments)

StHear(kept, i) ==   \* the chunk's segments after those of the chunks before
  LET chunk == StPlan(stLen)[i]
      segments == StOffset(StHeardIn(i), chunk.start)
  IN kept \o (IF i = 1 THEN segments
              ELSE StFresh(kept, segments, chunk.start, chunk.start + chunk.overlap))

StKept == FoldLeft(StHear, <<>>, StUpTo(Len(StPlan(stLen))))

StPut(segments, s) ==   \* by start, then end, after what ties
  LET later(o) == s.start < o.start \/ (s.start = o.start /\ s.end < o.end)
      place == CHOOSE n \in 0..Len(segments) :
                 \A j \in 1..Len(segments) : later(segments[j]) <=> j > n
  IN InsertAt(segments, place + 1, s)

StPush(done, s) ==   \* none starts before the one before it ends
  LET start == IF done # <<>> THEN StHi(s.start, Last(done).end) ELSE s.start
  IN IF s.end < start THEN done ELSE Append(done, [s EXCEPT !.start = start])

StMerged == FoldLeft(StPush, <<>>, FoldLeft(StPut, <<>>, StKept))
-----------------------------------------------------------------------------
(* A word: its characters, when it is spoken, and how it ends, "stop" being *)
(* . ? or !, "title" the full stop of Mr. or Dr.                            *)
StChars(words) == FoldLeft(LAMBDA n, w : n + w.chars, Len(words) - 1, words)
StSpan(words) == Last(words).end - words[1].start

StWithLine(all) == Append(all.full, all.line)

StWrapWord(acc, w) ==
  IF acc.over THEN acc
  ELSE IF acc.line = <<>> \/ StChars(Append(acc.line, w)) <= StLine
       THEN [acc EXCEPT !.line = Append(acc.line, w)]
       ELSE [full |-> Append(acc.full, acc.line), line |-> <<w>>,
             over |-> Len(acc.full) + 1 >= StLines]

StWrap(words) ==   \* _wrap_lines: beyond the last line it takes one more word
  StWithLine(FoldLeft(StWrapWord, [full |-> <<>>, line |-> <<>>, over |-> FALSE], words))

StLinesFit(lines) ==
  Len(lines) <= StLines /\ \A j \in 1..Len(lines) : StChars(lines[j]) <= StLine + StSlack

StFits(words) ==
  /\ StSpan(words) <= StMax
  /\ StLinesFit(StWrap(words))
  /\ ~(StSecond * StChars(words) > StRate * StSpan(words) /\ StSpan(words) >= StMax)

\* _group_words.  It gives _split_oversize only what fits or is one word,
\* which comes back whole; its test of name pairs changes nothing.
StTaken(done, open) ==
  IF \/ Len(open) = 1 /\ ~StFits(open)
     \/ Last(open).mark = "stop" /\ (StChars(open) >= StLine \/ StSpan(open) >= StLong)
  THEN [done |-> Append(done, open), open |-> <<>>]
  ELSE [done |-> done, open |-> open]

StTake(acc, w) ==
  IF acc.open # <<>> /\ ~StFits(Append(acc.open, w))
  THEN StTaken(Append(acc.done, acc.open), <<w>>)
  ELSE StTaken(acc.done, Append(acc.open, w))

StClosed(all) == IF all.open = <<>> THEN all.done ELSE Append(all.done, all.open)

StAbsorb(groups, g) ==   \* a group of one word joins the one before it
  IF groups # <<>> /\ Len(g) = 1 /\ StFits(Last(groups) \o g)
  THEN Append(Front(groups), Last(groups) \o g) ELSE Append(groups, g)

StGroups(words) ==
  FoldLeft(StAbsorb, <<>>, StClosed(FoldLeft(StTake, [done |-> <<>>, open |-> <<>>], words)))

StBrief(g) == StSpan(g) < StMin

StMergeShort(groups, g) ==
  IF groups # <<>> /\ (StBrief(Last(groups)) \/ StBrief(g)) /\ StFits(Last(groups) \o g)
  THEN Append(Front(groups), Last(groups) \o g) ELSE Append(groups, g)

StNeeded(words) ==   \* _needed_duration
  LET reading == (StSecond * StChars(words) + StRate - 1) \div StRate
  IN StLo(StMax, StHi(StMin, StHi(StHi(1, StSpan(words)), reading)))

StEnd(start, end) == IF end <= start THEN start + StMin ELSE end

\* Mutant: the cue before is cut at the start, whatever is left of it.
StCueCuts(cues, words) ==
  LET start == words[1].start
      cut == IF cues = <<>> \/ Last(cues).end + StGap <= start THEN cues
             ELSE Append(Front(cues), [Last(cues) EXCEPT !.end = start - StGap])
  IN Append(cut, [start |-> start, end |-> start + StNeeded(words), words |-> words])

\* A cue too near the one before cuts it, if that leaves it the minimum, or
\* starts later itself; then the pass that keeps starts after ends.
StCue(cues, words) ==
  LET start == words[1].start   end == start + StNeeded(words)
      near == cues # <<>> /\ start < Last(cues).end + StGap
      cut == near /\ start - StGap - Last(cues).start >= StMin
      later == IF near /\ ~cut THEN Last(cues).end + StGap ELSE start
      before == IF cut THEN Append(Front(cues), [Last(cues) EXCEPT !.end = start - StGap])
                ELSE cues
  IN Append(before, [start |-> later, end |-> StEnd(later, end), words |-> words])

StCues(words) ==   \* SubtitleFormatter.format up to its timing
  FoldLeft(StCue, <<>>, FoldLeft(StMergeShort, <<>>, StGroups(words)))

StInOne(lines) == FoldLeft(LAMBDA text, line : text \o line, <<>>, lines)
\* format_lines: the lines too many go on the last one.
StText(cue) == StInOne(StWrap(cue.words))
-----------------------------------------------------------------------------
StInit == stLen \in StLengths /\ stSaid = <<>> /\ stScript = <<>>

StSpoken(said) == IF said = <<>> THEN 0 ELSE Last(said).end

StSay ==
  /\ stScript = <<>> /\ Len(stSaid) < StUtterances
  /\ \E start \in StSpoken(stSaid)..(stLen - 1), length \in 1..StSpeech, text \in StTexts,
        missed \in SUBSET (1..Len(StPlan(stLen))) :
       LET u == [start |-> start, end |-> start + length, text |-> text, missed |-> missed]
       IN /\ u.end <= stLen
          /\ \A i \in missed : StAudible(u, StPlan(stLen)[i])
          /\ stSaid' = Append(stSaid, u)
  /\ UNCHANGED <<stLen, stScript>>

StSpeak ==
  /\ stSaid = <<>> /\ Len(stScript) < StWords
  /\ stLen = CHOOSE l \in StLengths : TRUE
  /\ \E chars \in StSizes, pause \in StPauses, length \in StSpans, mark \in {"none", "stop", "title"} :
       LET start == StSpoken(stScript) + pause
       IN stScript' = Append(stScript, [chars |-> chars, start |-> start,
                                        end |-> start + length, mark |-> mark])
  /\ UNCHANGED <<stLen, stSaid>>

StNext == StSay \/ StSpeak
StSpec == StInit /\ [][StNext]_stVars
-----------------------------------------------------------------------------
StTypeOK ==
  /\ stLen \in StLengths
  /\ \A k \in 1..Len(stSaid) : /\ stSaid[k].start < stSaid[k].end /\ stSaid[k].end <= stLen
                               /\ stSaid[k].text \in StTexts
                               /\ stSaid[k].missed \subseteq 1..Len(StPlan(stLen))
  /\ Len(stScript) <= StWords
  /\ \A k \in 1..Len(stScript) : stScript[k].start < stScript[k].end

StHeard(k) == \E i \in 1..Len(StPlan(stLen)) :
                 StAudible(stSaid[k], StPlan(stLen)[i]) /\ i \notin stSaid[k].missed
StInMerged(k) == {j \in 1..Len(StMerged) : StMerged[j].id = k}

(* What some chunk heard is in the transcript, unless the same words were  *)
(* heard in the same overlap (merge_chunk_transcripts compares texts, so   *)
(* of a line said twice there, once unheard by the earlier chunk, one      *)
(* goes).                                                                  *)
StHeardKept ==
  \A k \in 1..Len(stSaid) : StHeard(k) =>
    \/ StInMerged(k) # {}
    \/ \E o \in (1..Len(stSaid)) \ {k}, i \in 2..Len(StPlan(stLen)) :
         LET c == StPlan(stLen)[i]
             overlap == [start |-> c.start, end |-> c.start + c.overlap]
         IN /\ stSaid[o].text = stSaid[k].text /\ StHeard(o)
            /\ StAudible(stSaid[o], overlap) /\ StAudible(stSaid[k], overlap)

(* What both chunks heard in their overlap is in the transcript once, even *)
(* when the chunk's end cut it in two.                                     *)
StHeardOnce == \A k \in 1..Len(stSaid) : Cardinality(StInMerged(k)) <= 1

(* The cues' lines hold every word of the transcript, in order: wrapping   *)
(* drops what follows the first word too many, and only the grouping keeps *)
(* a cue from needing that.                                                *)
StWordsKept ==
  LET cues == StCues(stScript)
  IN StInOne([j \in 1..Len(cues) |-> StText(cues[j])]) = stScript

StApart(cues) ==
  \A j \in 1..Len(cues) :
    /\ cues[j].start < cues[j].end /\ cues[j].start >= cues[j].words[1].start
    /\ j > 1 => cues[j].start >= cues[j - 1].end + StGap

(* Whatever the cuts and delays, cues follow each other with the gap       *)
(* between them, each on screen for some time and none before its speech.  *)
StCuesApart == StApart(StCues(stScript))

(* What was heard is in the transcript, once, and what the transcript says  *)
(* is shown, whole and in its time.                                        *)
StSafe == StHeardKept /\ StHeardOnce /\ StWordsKept /\ StCuesApart

(* FormatterConfig.min_duration: no run states it, a cue that had to start *)
(* later may end at its own time and only flash.                           *)
StCueLasts == LET cues == StCues(stScript)
              IN \A j \in 1..Len(cues) : cues[j].end - cues[j].start >= StMin
=============================================================================
