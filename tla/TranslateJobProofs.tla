------------------------- MODULE TranslateJobProofs -------------------------
(***************************************************************************)
(* Theorems about TranslateJob, for every number of cues, batch size,      *)
(* number of candidates and restarts: what is written is complete, what is *)
(* completed is written, what was translated is not sent again after a     *)
(* transient failure of a batch, and a cancellation is respected.          *)
(*                                                                         *)
(* The proof goes along the modules: the steps of translate_document       *)
(* preserve DocOK and DocResume whatever the job does; the job's steps     *)
(* preserve the rest.                                                      *)
(***************************************************************************)
EXTENDS TranslateJob, FiniteInduction, FiniteSetTheorems, TLAPS

\* What concerns a call of translate_document only.
DocOK == TypeOK /\ DocInv

DocResume ==
  OnlyEarlyFaults =>
    /\ stage \in {"batches", "poll", "chunks", "progress"} => applied \subseteq Upto(pos)
    /\ stage = "raised" => error = "fatal"
         \/ (error = "retryable" /\ applied \subseteq Upto(batch))
-----------------------------------------------------------------------------
(* Batches and payloads.                                                   *)

\* No cue comes before the first batch.
LEMMA UptoZero == Upto(0) = {}
  BY TranslateDocumentAssumption DEF Upto, Cues

\* What is done with a batches is done with b batches.
LEMMA UptoMonotone ==
  ASSUME NEW a \in Nat, NEW b \in Nat, a <= b
  PROVE  Upto(a) \subseteq Upto(b)
<1>1. PICK d \in Nat : b = a + d
  OBVIOUS
<1>2. d * BatchSize >= 0
  BY TranslateDocumentAssumption
<1>3. b * BatchSize = a * BatchSize + d * BatchSize
  BY <1>1, TranslateDocumentAssumption
<1>. QED BY <1>2, <1>3, TranslateDocumentAssumption DEF Upto, Cues

\* One batch more: what was done and the batch, which are disjoint.
LEMMA UptoNext ==
  ASSUME NEW b \in Nat
  PROVE  /\ Upto(b + 1) = Upto(b) \cup BatchOf(b + 1)
         /\ Upto(b) \cap BatchOf(b + 1) = {}
         /\ BatchOf(b + 1) \subseteq Cues
<1>1. Upto(b) \subseteq Upto(b + 1)
  BY UptoMonotone
<1>2. BatchOf(b + 1) = Upto(b + 1) \ Upto(b)
  BY DEF BatchOf
<1>3. Upto(b + 1) \subseteq Cues
  BY DEF Upto
<1>. QED BY <1>1, <1>2, <1>3

LEMMA LowerIn == ASSUME NEW p PROVE Lower(p) \subseteq p
  BY DEF Lower

LEMMA CrowdedIn == ASSUME NEW t PROVE Crowded(t) \subseteq Cues
  BY DEF Crowded, Long

\* Taking an answer keeps what was there, and adds only what was asked for.
LEMMA TakenType ==
  ASSUME TypeOK, NEW r \in [asked -> Texts]
  PROVE  /\ Taken(r) \in [Cues -> Texts]
         /\ \A c \in Cues : Taken(r)[c] # "missing" => got[c] # "missing" \/ c \in now
         /\ \A c \in Cues : got[c] # "missing" => Taken(r)[c] # "missing"
         /\ \A c \in now : Incomplete(Taken(r)) = {} => Taken(r)[c] # "missing"
         /\ Incomplete(Taken(r)) \subseteq now
  BY DEF TypeOK, Taken, Incomplete

\* The types of what belongs to the batch in hand.
BatchTypeOK ==
  /\ got \in [Cues -> Texts] /\ now \subseteq Cues /\ asked \subseteq now
  /\ rest \subseteq SUBSET Cues
  /\ tries \in 0..MaxTries /\ sent \in BOOLEAN /\ calls \in Nat

LEMMA NothingType ==
  Nothing \in [Cues -> Texts] /\ \A c \in Cues : Nothing[c] = "missing"
  BY DEF Nothing, Texts

LEMMA NoBatchType == ASSUME NoBatch PROVE BatchTypeOK'
<1>1. tries' \in 0..MaxTries /\ calls' \in Nat
  <2>1. tries' = 0 /\ calls' = 0
    BY Zenon DEF NoBatch
  <2>. QED BY <2>1 DEF MaxTries
<1>2. sent' \in BOOLEAN
  BY Zenon DEF NoBatch
<1>3. /\ got' \in [Cues -> Texts] /\ now' \subseteq Cues /\ asked' \subseteq now'
      /\ rest' \subseteq SUBSET Cues
  BY NothingType DEF NoBatch
<1>. QED BY <1>1, <1>2, <1>3 DEF BatchTypeOK

LEMMA AskType ==
  ASSUME NEW p \in SUBSET Cues, NEW q \in SUBSET SUBSET Cues, NEW g \in [Cues -> Texts],
         NEW n \in Nat, NEW isSent \in BOOLEAN, Ask(p, q, g, n, isSent)
  PROVE  BatchTypeOK'
<1>1. tries' \in 0..MaxTries /\ calls' \in Nat
  <2>1. tries' = 0 /\ calls' = n
    BY Zenon DEF Ask
  <2>. QED BY <2>1 DEF MaxTries
<1>2. sent' \in BOOLEAN
  BY Zenon DEF Ask
<1>3. /\ got' \in [Cues -> Texts] /\ now' \subseteq Cues /\ asked' \subseteq now'
      /\ rest' \subseteq SUBSET Cues
  BY DEF Ask
<1>. QED BY <1>1, <1>2, <1>3 DEF BatchTypeOK

LEMMA TypeOf ==
  ASSUME BatchTypeOK', stage' \in Stages, text' \in [Cues -> Texts],
         batch' \in Nat, pos' \in Nat, batch' <= pos',
         error' \in Errors, applied' \subseteq Cues, faults' \subseteq Faults
  PROVE  TypeOK'
  BY DEF TypeOK, BatchTypeOK
-----------------------------------------------------------------------------
(* The steps of a call.                                                    *)

\* Going on with the next batch, or beyond the last.
LEMMA OnwardStep ==
  ASSUME NEW t \in [Cues -> Texts], NEW b \in Nat, NEW m,
         TypeOK, Onward(t, b, m), text' = t, batch' = b, pos' = b,
         UNCHANGED <<error, applied, faults>>,
         Filled(t, Upto(b)), OnlyEarlyFaults => applied \subseteq Upto(b)
  PROVE  DocOK' /\ DocResume' /\ stage' # "idle"
<1>1. /\ BatchOf(b + 1) \subseteq Cues /\ Crowded(t) \subseteq Cues
      /\ Upto(b) \subseteq Cues
  BY UptoNext, CrowdedIn DEF Upto
<1>2. /\ text' \in [Cues -> Texts] /\ batch' \in Nat /\ pos' \in Nat /\ batch' <= pos'
      /\ error' \in Errors /\ applied' \subseteq Cues /\ faults' \subseteq Faults
  BY DEF TypeOK
<1>3. CASE Remaining(b) # {} /\ m \in BatchModels
  <2>1. stage' = "poll" /\ NoBatch
    BY <1>3 DEF Onward
  <2>2. TypeOK'
    BY <2>1, <1>2, NoBatchType, TypeOf DEF Stages
  <2>3. DocInv'
    BY <2>1 DEF DocInv, Filled
  <2>4. DocResume'
    BY <2>1 DEF DocResume, OnlyEarlyFaults
  <2>. QED BY <2>1, <2>2, <2>3, <2>4 DEF DocOK
<1>4. CASE Remaining(b) # {} /\ m \notin BatchModels
  <2>1. stage' = "batches" /\ Ask(BatchOf(b + 1), {}, Nothing, 1, TRUE)
    BY <1>4 DEF Onward
  <2>2. TypeOK'
    BY <2>1, <1>1, <1>2, NothingType, AskType, TypeOf DEF Stages, Working
  <2>3. DocInv'
    BY <2>1, <1>1, NothingType DEF DocInv, Filled, InBatch, Ask
  <2>4. DocResume'
    BY <2>1 DEF DocResume, OnlyEarlyFaults
  <2>. QED BY <2>1, <2>2, <2>3, <2>4 DEF DocOK
<1>5. CASE Remaining(b) = {}
  <2>1. Filled(t, Cues)
    BY <1>5 DEF Remaining, Filled
  <2>2. \/ stage' = "reading" /\ Ask(Crowded(t), {}, Nothing, 1, TRUE)
        \/ stage' = "done" /\ NoBatch
    BY <1>5 DEF Onward
  <2>3. TypeOK'
    BY <2>2, <1>1, <1>2, NothingType, AskType, NoBatchType, TypeOf DEF Stages, Working
  <2>4. DocInv'
    BY <2>1, <2>2 DEF DocInv, Filled
  <2>5. DocResume'
    BY <2>2 DEF DocResume
  <2>. QED BY <2>2, <2>3, <2>4, <2>5 DEF DocOK
<1>. QED BY <1>3, <1>4, <1>5

\* The first await of a call that resumes from a checkpoint.
LEMMA BeginStep ==
  ASSUME NEW m, TypeOK, Begin(m, checkpoint),
         checkpoint \in [text : [Cues -> Texts], batch : Nat], CheckpointInv,
         OnlyEarlyFaults => applied \subseteq Upto(checkpoint.batch)
  PROVE  DocOK' /\ DocResume' /\ stage' # "idle"
<1>. DEFINE t == checkpoint.text
            b == checkpoint.batch
<1>1. t \in [Cues -> Texts] /\ b \in Nat
  OBVIOUS
<1>2. Onward(t, b, m) /\ text' = t /\ batch' = b /\ pos' = b /\ UNCHANGED <<error, applied, faults>>
  BY DEF Begin
<1>3. Filled(t, Upto(b))
  BY DEF CheckpointInv
<1>4. OnlyEarlyFaults => applied \subseteq Upto(b)
  OBVIOUS
<1>. HIDE DEF t, b
<1>. QED BY <1>1, <1>2, <1>3, <1>4, OnwardStep

LEMMA ContinueStep ==
  ASSUME NEW m, DocOK, DocResume, Continue(m)
  PROVE  DocOK' /\ DocResume' /\ stage' # "idle"
<1>1. text \in [Cues -> Texts] /\ batch \in Nat /\ TypeOK
  BY DEF DocOK, TypeOK
<1>2. stage = "progress" /\ batch = pos /\ Filled(text, Upto(batch))
  BY DEF DocOK, DocInv, Continue
<1>3. OnlyEarlyFaults => applied \subseteq Upto(batch)
  BY <1>2 DEF DocResume
<1>4. /\ Onward(text, batch, m) /\ text' = text /\ batch' = batch /\ pos' = batch
      /\ UNCHANGED <<error, applied, faults>>
  BY <1>2 DEF Continue
<1>. QED BY <1>1, <1>2, <1>3, <1>4, OnwardStep

LEMMA PollEndsStep ==
  ASSUME DocOK, DocResume, PollEnds
  PROVE  DocOK' /\ DocResume' /\ stage' # "idle"
<1>1. BatchOf(pos + 1) \subseteq Cues /\ pos \in Nat
  BY UptoNext DEF DocOK, TypeOK
<1>2. BatchTypeOK'
  BY <1>1, NothingType, AskType DEF PollEnds
<1>3. TypeOK'
  BY <1>2, TypeOf DEF DocOK, TypeOK, PollEnds, Stages, Working
<1>4. DocInv'
  BY <1>1, NothingType DEF DocOK, DocInv, Filled, InBatch, PollEnds, Ask
<1>5. DocResume'
  BY DEF DocResume, OnlyEarlyFaults, PollEnds
<1>. QED BY <1>3, <1>4, <1>5 DEF DocOK, PollEnds

\* The request of a batch that another failure than "refused" hits leaves a
\* checkpoint with all that was applied, if it is the first such failure.
LEMMA RequestFailsStep ==
  ASSUME NEW kind \in Failures, DocOK, DocResume, RequestFails(kind)
  PROVE  DocOK' /\ DocResume' /\ stage' # "idle"
<1>1. BatchTypeOK'
  BY NoBatchType DEF RequestFails
<1>2. error' \in {"fatal", "retryable", "technical"} /\ error' \in Errors
  BY DEF RequestFails, Errors
<1>3. faults' \subseteq Faults
  <2>1. kind # "refused" => <<kind, stage>> \in Faults
    BY DEF RequestFails, Failures, Faults, Working
  <2>. QED BY <2>1 DEF DocOK, TypeOK, RequestFails
<1>4. TypeOK'
  BY <1>1, <1>2, <1>3, TypeOf DEF DocOK, TypeOK, RequestFails, Stages
<1>5. DocInv'
  BY <1>2 DEF DocOK, DocInv, Filled, RequestFails
<1>6. DocResume'
  <2>1. stage' = "raised"
    BY DEF RequestFails
  <2>2. CASE kind = "refused"
    BY <2>1, <2>2 DEF DocResume, RequestFails
  <2>3. CASE kind # "refused"
    <3>1. SUFFICES ASSUME OnlyEarlyFaults'
                   PROVE  error' = "retryable" /\ applied' \subseteq Upto(batch')
      BY <2>1 DEF DocResume
    <3>2. faults' = faults \cup {<<kind, stage>>}
      BY <2>3 DEF RequestFails
    <3>3. OnlyEarlyFaults /\ kind = "transient" /\ stage \in {"batches", "poll"}
      BY <3>1, <3>2 DEF OnlyEarlyFaults
    <3>4. applied \subseteq Upto(pos) /\ batch = pos
      BY <3>3 DEF DocResume, DocOK, DocInv
    <3>. QED BY <3>3, <3>4 DEF RequestFails
  <2>. QED BY <2>2, <2>3
<1>. QED BY <1>4, <1>5, <1>6 DEF DocOK, RequestFails

\* The steps that stay in the batch: what is in hand remains what the batch is.
LEMMA SameBatch ==
  ASSUME DocOK, DocResume, BatchTypeOK', stage \in Working,
         \A c \in Cues : InBatch(c)' <=> InBatch(c),
         UNCHANGED <<stage, text, batch, pos, error, applied, faults>>
  PROVE  DocOK' /\ DocResume' /\ stage' # "idle"
<1>1. TypeOK'
  BY TypeOf DEF DocOK, TypeOK
<1>2. \A c \in Cues : c \in BatchOf(pos' + 1) <=> c \in BatchOf(pos + 1)
  OBVIOUS
<1>3. DocInv'
  BY <1>2 DEF DocOK, DocInv, Filled, Working
<1>4. DocResume'
  BY DEF DocResume, OnlyEarlyFaults
<1>. QED BY <1>1, <1>3, <1>4 DEF DocOK, Working

LEMMA NextHalfStep ==
  ASSUME NEW r \in [asked -> Texts], DocOK, DocResume, NextHalf(r)
  PROVE  DocOK' /\ DocResume' /\ stage' # "idle"
<1>. DEFINE g == Taken(r)
<1>1. PICK p \in rest : Ask(p, rest \ {p}, g, calls + 1, TRUE)
  BY DEF NextHalf
<1>2. TypeOK /\ p \subseteq Cues /\ rest \ {p} \subseteq SUBSET Cues /\ calls + 1 \in Nat
  BY DEF DocOK, TypeOK
<1>3. /\ g \in [Cues -> Texts]
      /\ \A c \in Cues : g[c] # "missing" => got[c] # "missing" \/ c \in now
      /\ \A c \in Cues : got[c] # "missing" => g[c] # "missing"
      /\ \A c \in now : g[c] # "missing"
  BY <1>2, TakenType DEF NextHalf
<1>. HIDE DEF g
<1>4. BatchTypeOK'
  BY <1>1, <1>2, <1>3, AskType
<1>5. now' = p /\ rest' = rest \ {p} /\ got' = g
  BY <1>1, Zenon DEF Ask
<1>6. ASSUME NEW c \in Cues PROVE InBatch(c)' <=> InBatch(c)
  BY <1>3, <1>5 DEF InBatch
<1>7. stage \in Working /\ UNCHANGED <<stage, text, batch, pos, error, applied, faults>>
  BY DEF NextHalf
<1>. QED BY <1>4, <1>6, <1>7, SameBatch

LEMMA RepairStep ==
  ASSUME NEW r \in [asked -> Texts], DocOK, DocResume, Repair(r)
  PROVE  DocOK' /\ DocResume' /\ stage' # "idle"
<1>. DEFINE g == Taken(r)
<1>1. TypeOK /\ tries \in 0..MaxTries /\ calls \in Nat
  BY DEF DocOK, TypeOK
<1>2. /\ g \in [Cues -> Texts]
      /\ \A c \in Cues : g[c] # "missing" => got[c] # "missing" \/ c \in now
      /\ \A c \in Cues : got[c] # "missing" => g[c] # "missing"
      /\ Incomplete(g) \subseteq now
  BY <1>1, TakenType
<1>3. /\ got' = g /\ asked' = Incomplete(g) /\ now' = now /\ rest' = rest
      /\ stage \in Working /\ UNCHANGED <<stage, text, batch, pos, error, applied, faults>>
  BY DEF Repair
<1>4. BatchTypeOK'
  <2>1. tries' \in 0..MaxTries /\ calls' \in Nat
    <3>1. tries' = tries + 1 /\ calls' = calls + 1 /\ tries < MaxTries
      BY Zenon DEF Repair
    <3>. QED BY <1>1, <3>1 DEF MaxTries
  <2>2. sent' \in BOOLEAN
    BY Zenon DEF Repair
  <2>3. now \subseteq Cues /\ rest \subseteq SUBSET Cues
    BY <1>1 DEF TypeOK
  <2>. HIDE DEF g
  <2>. QED BY <1>2, <1>3, <2>1, <2>2, <2>3 DEF BatchTypeOK
<1>. HIDE DEF g
<1>5. ASSUME NEW c \in Cues PROVE InBatch(c)' <=> InBatch(c)
  BY <1>2, <1>3 DEF InBatch
<1>. QED BY <1>3, <1>4, <1>5, SameBatch

LEMMA ShrinkStep ==
  ASSUME NEW r \in [asked -> Texts], DocOK, DocResume, Shrink(r)
  PROVE  DocOK' /\ DocResume' /\ stage' # "idle"
<1>. DEFINE h == now \ Lower(now)
            q == rest \cup {h}
            g == Without(now)
<1>1. /\ Ask(Lower(now), q, g, calls + 1, TRUE) /\ stage \in Working
      /\ UNCHANGED <<stage, text, batch, pos, error, applied, faults>>
  BY DEF Shrink
<1>2. TypeOK /\ now \subseteq Cues /\ rest \subseteq SUBSET Cues /\ calls + 1 \in Nat
  BY DEF DocOK, TypeOK
<1>3. Lower(now) \subseteq now
  BY LowerIn
<1>4. Lower(now) \in SUBSET Cues /\ q \in SUBSET SUBSET Cues
  BY <1>2, <1>3
<1>5. g \in [Cues -> Texts] /\ \A c \in Cues : g[c] # "missing" <=> c \notin now /\ got[c] # "missing"
  BY <1>2 DEF TypeOK, Without, Texts
<1>6. now' = Lower(now) /\ rest' = q /\ got' = g
  BY <1>1, Zenon DEF Ask
<1>7. ASSUME NEW c \in Cues PROVE InBatch(c)' <=> InBatch(c)
  <2>1. (\E p \in rest' : c \in p) <=> (\E p \in rest : c \in p) \/ c \in h
    BY <1>6
  <2>2. got'[c] # "missing" <=> c \notin now /\ got[c] # "missing"
    BY <1>5, <1>6
  <2>3. c \in now <=> c \in now' \/ c \in h
    BY <1>3, <1>6
  <2>. QED BY <2>1, <2>2, <2>3 DEF InBatch
<1>. HIDE DEF q, g
<1>8. BatchTypeOK'
  BY <1>1, <1>2, <1>4, <1>5, AskType
<1>. QED BY <1>1, <1>7, <1>8, SameBatch

LEMMA RejectStep ==
  ASSUME NEW r, DocOK, DocResume, Reject(r)
  PROVE  DocOK' /\ DocResume' /\ stage' # "idle"
<1>1. BatchTypeOK'
  BY NoBatchType DEF Reject
<1>2. TypeOK'
  BY <1>1, TypeOf DEF DocOK, TypeOK, Reject, Stages, Errors
<1>. QED BY <1>2 DEF DocOK, DocInv, DocResume, Filled, Reject

\* A complete payload is applied: the text is filled a batch further, and all
\* that is applied is behind that batch.
LEMMA BatchDoneStep ==
  ASSUME NEW r \in [asked -> Texts], DocOK, DocResume, BatchDone(r)
  PROVE  DocOK' /\ DocResume' /\ stage' # "idle"
<1>. DEFINE g == Taken(r)
            t == TextWith(g)
<1>1. TypeOK /\ pos \in Nat /\ batch \in Nat /\ text \in [Cues -> Texts] /\ applied \subseteq Cues
  BY DEF DocOK, TypeOK
<1>2. /\ g \in [Cues -> Texts]
      /\ \A c \in Cues : g[c] # "missing" => got[c] # "missing" \/ c \in now
      /\ \A c \in Cues : got[c] # "missing" => g[c] # "missing"
      /\ \A c \in now : g[c] # "missing"
  BY <1>1, TakenType DEF BatchDone
<1>3. /\ text' = t /\ applied' = applied \cup {c \in Cues : g[c] # "missing"} /\ rest = {}
      /\ stage \in Working /\ UNCHANGED <<error, faults>>
  BY DEF BatchDone, AppliedWith
<1>4. /\ t \in [Cues -> Texts]
      /\ \A c \in Cues : text[c] # "missing" \/ g[c] # "missing" => t[c] # "missing"
  BY <1>1, <1>2 DEF TextWith
<1>. HIDE DEF g, t
<1>5. /\ text' \in [Cues -> Texts] /\ applied' \subseteq Cues
      /\ error' \in Errors /\ faults' \subseteq Faults
  BY <1>1, <1>3, <1>4 DEF TypeOK
<1>6. OnlyEarlyFaults' <=> OnlyEarlyFaults
  BY <1>3 DEF OnlyEarlyFaults
<1>7. CASE stage \in {"batches", "chunks"}
  <2>1. \A c \in Cues : g[c] # "missing" <=> c \in BatchOf(pos + 1)
    <3>1. \A c \in Cues : InBatch(c) <=> c \in BatchOf(pos + 1)
      BY <1>7 DEF DocOK, DocInv
    <3>. QED BY <1>2, <1>3, <3>1 DEF InBatch
  <2>2. Filled(text, Upto(pos)) /\ Upto(pos) \subseteq Cues
    BY DEF DocOK, DocInv, Upto
  <2>3. Filled(text', Upto(pos + 1))
    BY <1>1, <1>3, <1>4, <2>1, <2>2, UptoNext DEF Filled
  <2>4. OnlyEarlyFaults => applied' \subseteq Upto(pos + 1)
    <3>1. OnlyEarlyFaults => applied \subseteq Upto(pos)
      BY <1>7 DEF DocResume
    <3>. QED BY <1>1, <1>3, <2>1, <3>1, UptoNext
  <2>5. CASE pos' = pos + 1 /\ batch' = pos + 1 /\ stage' = "progress" /\ NoBatch
    <3>1. TypeOK'
      BY <1>1, <1>5, <2>5, NoBatchType, TypeOf DEF Stages
    <3>2. DocInv'
      BY <2>3, <2>5 DEF DocInv
    <3>3. DocResume'
      BY <1>6, <2>4, <2>5 DEF DocResume
    <3>. QED BY <2>5, <3>1, <3>2, <3>3 DEF DocOK
  <2>6. CASE /\ stage = "chunks" /\ pos' = pos + 1 /\ UNCHANGED <<stage, batch>>
             /\ Ask(BatchOf(pos + 2), {}, Nothing, 1, FALSE)
    <3>1. pos + 1 \in Nat /\ pos + 2 = (pos + 1) + 1 /\ batch <= pos'
      BY <1>1, <2>6 DEF TypeOK
    <3>2. BatchOf(pos + 2) \subseteq Cues
      BY <3>1, UptoNext
    <3>3. BatchTypeOK'
      BY <2>6, <3>2, NothingType, AskType
    <3>4. TypeOK'
      BY <1>1, <1>5, <2>6, <3>1, <3>3, TypeOf DEF Stages, Working
    <3>5. now' = BatchOf(pos + 2) /\ rest' = {} /\ got' = Nothing
      BY <2>6, Zenon DEF Ask
    <3>6. \A c \in Cues : InBatch(c)' <=> c \in BatchOf(pos' + 1)
      BY <2>6, <3>1, <3>5, NothingType DEF InBatch
    <3>7. DocInv'
      BY <2>3, <2>6, <3>6 DEF DocInv
    <3>8. DocResume'
      BY <1>6, <2>4, <2>6 DEF DocResume
    <3>. QED BY <2>6, <3>4, <3>7, <3>8 DEF DocOK
  <2>. QED BY <1>7, <2>5, <2>6 DEF BatchDone
<1>8. CASE stage = "reading"
  <2>1. stage' = "done" /\ NoBatch /\ UNCHANGED <<pos, batch>>
    BY <1>8 DEF BatchDone
  <2>2. TypeOK'
    BY <1>1, <1>5, <2>1, NoBatchType, TypeOf DEF Stages, TypeOK
  <2>3. Filled(text', Cues)
    <3>1. Filled(text, Cues)
      BY <1>8 DEF DocOK, DocInv
    <3>. QED BY <1>3, <1>4, <3>1 DEF Filled
  <2>4. Upto(pos) \subseteq Cues
    BY DEF Upto
  <2>5. DocInv'
    BY <2>1, <2>3, <2>4 DEF DocInv, Filled
  <2>6. DocResume'
    BY <2>1 DEF DocResume
  <2>. QED BY <2>1, <2>2, <2>5, <2>6 DEF DocOK
<1>. QED BY <1>3, <1>7, <1>8 DEF Working

\* Any step of a call.
LEMMA DocStep ==
  ASSUME NEW m, DocOK, DocResume, Answered \/ Failed \/ PollEnds \/ Continue(m)
  PROVE  DocOK' /\ DocResume' /\ stage' # "idle"
<1>1. CASE Answered
  <2>1. PICK r \in [asked -> Texts] : NextHalf(r) \/ BatchDone(r) \/ Repair(r) \/ Shrink(r) \/ Reject(r)
    BY <1>1 DEF Answered
  <2>. QED BY <2>1, NextHalfStep, BatchDoneStep, RepairStep, ShrinkStep, RejectStep
<1>2. CASE Failed
  BY <1>2, RequestFailsStep DEF Failed
<1>3. CASE PollEnds
  BY <1>3, PollEndsStep
<1>4. CASE Continue(m)
  BY <1>4, ContinueStep
<1>. QED BY <1>1, <1>2, <1>3, <1>4

\* A step that leaves the call and its history alone.
LEMMA DocUnchanged ==
  ASSUME DocOK, DocResume, UNCHANGED docVars
  PROVE  DocOK' /\ DocResume' /\ UNCHANGED <<stage, applied, faults, text, error, batch>>
<1>1. /\ UNCHANGED <<stage, text, batch, pos, now, rest, got, asked>>
      /\ UNCHANGED <<tries, sent, calls, error, applied, faults>>
  BY DEF docVars, batchVars
<1>2. TypeOK'
  BY <1>1 DEF DocOK, TypeOK
<1>3. DocInv'
  BY <1>1 DEF DocOK, DocInv, Filled, InBatch
<1>4. DocResume'
  BY <1>1 DEF DocResume, OnlyEarlyFaults
<1>. QED BY <1>1, <1>2, <1>3, <1>4 DEF DocOK

\* No call: nothing is claimed of what it left.
LEMMA DocIdle ==
  ASSUME NoBatch, stage' = "idle", error' = "none", text' = Nothing, batch' = 0, pos' = 0,
         applied' \subseteq Cues, faults' \subseteq Faults
  PROVE  DocOK' /\ DocResume'
<1>1. TypeOK'
  BY NothingType, NoBatchType, TypeOf DEF Stages, Errors
<1>2. DocInv'
  BY UptoZero DEF DocInv, Filled
<1>3. DocResume'
  BY DEF DocResume
<1>. QED BY <1>1, <1>2, <1>3 DEF DocOK

LEMMA CallOverStep ==
  ASSUME DocOK, CallOver
  PROVE  DocOK' /\ DocResume' /\ stage' = "idle" /\ UNCHANGED <<applied, faults>>
  BY DocIdle DEF DocOK, TypeOK, CallOver
-----------------------------------------------------------------------------
(* The steps of the job.  The invariant in two parts: the call and the job.  *)

JobTypes ==
  /\ status \in {"pending", "processing", "completed", "failed", "cancelled"}
  /\ target \in {"none", "ours", "other"} /\ content \in [Cues -> Texts]
  /\ at \in Places
  /\ checkpoint \in [text : [Cues -> Texts], batch : Nat]
  /\ at \in {"translate", "check", "replace"} <=> stage # "idle"
  /\ at \in {"check", "replace"} => stage = "done"

Counters ==
  /\ restarts \in 0..MaxRestarts /\ cand \in 1..(Candidates + 1)
  /\ checks \in 0..MaxChecks
  /\ at \notin {"verify", "ended"} => checks = 0
  /\ at = "verify" => checks < MaxChecks

\* Where the next call resumes.
Resume ==
  /\ CheckpointInv
  /\ at = "queued" => applied = {}
  /\ OnlyEarlyFaults => (at = "attempt" => applied \subseteq Upto(checkpoint.batch))

Delivery ==
  /\ at \in {"commit", "rescan", "verify"} => target = "ours"
  /\ at \in {"rescan", "verify"} => status = "completed"
  /\ status = "completed" => at \in {"rescan", "verify", "ended"}
  /\ status = "completed" => target = "ours"
  /\ WrittenComplete

Removal == source \in BOOLEAN /\ (~source => status = "completed" /\ at = "ended")

JobPart == JobTypes /\ Counters /\ Resume /\ Delivery /\ Removal

LEMMA IInvParts == TranslateIInv <=> DocOK /\ DocResume /\ JobPart
<1>1. JobTypeOK /\ DeliveryInv /\ (~source => status = "completed" /\ at = "ended")
      /\ (status = "completed" => target = "ours") /\ WrittenComplete
      <=> TypeOK /\ JobTypes /\ Counters /\ Delivery /\ Removal
  BY DEF JobTypeOK, DeliveryInv, JobTypes, Counters, Delivery, Removal
<1>2. CheckpointInv /\ ResumeInv <=> DocResume /\ Resume
  BY DEF ResumeInv, DocResume, Resume
<1>. QED BY <1>1, <1>2 DEF TranslateIInv, DocOK, JobPart

LEMMA InitIInv == ASSUME Init PROVE TranslateIInv
<1>1. DocOK /\ DocResume
  <2>1. TypeOK
    <3>1. tries \in 0..MaxTries /\ calls \in Nat /\ batch \in Nat /\ pos \in Nat /\ batch <= pos
      <4>1. tries = 0 /\ calls = 0 /\ batch = 0 /\ pos = 0
        BY Zenon DEF Init, DocInit
      <4>. QED BY <4>1 DEF MaxTries
    <3>2. sent \in BOOLEAN
      BY Zenon DEF Init, DocInit
    <3>. QED BY <3>1, <3>2, NothingType DEF TypeOK, Init, DocInit, Stages, Errors
  <2>2. DocInv
    BY UptoZero DEF DocInv, Filled, Init, DocInit
  <2>. QED BY <2>1, <2>2 DEF DocOK, DocResume, Init, DocInit
<1>2. JobTypes
  BY NothingType DEF JobTypes, Init, DocInit, Places, Empty
<1>3. Counters
  <2>1. restarts = 0 /\ cand = 1 /\ checks = 0 /\ at = "queued"
    BY Zenon DEF Init
  <2>. QED BY <2>1, TranslateJobAssumption DEF Counters, MaxChecks
<1>4. Resume
  BY UptoZero DEF Resume, CheckpointInv, Filled, Init, DocInit, Empty
<1>5. Delivery /\ Removal
  BY Zenon DEF Delivery, Removal, WrittenComplete, Init
<1>. QED BY <1>1, <1>2, <1>3, <1>4, <1>5, IInvParts DEF JobPart

\* A step of the coroutine to a place without a call.
LEMMA GotoStep ==
  ASSUME NEW place \in {"ended", "verify", "failing", "fail"},
         JobPart, Goto(place), stage' = "idle", UNCHANGED <<applied, faults>>,
         at # "ended", place = "verify" => at = "rescan",
         status = "completed" => place \in {"verify", "ended"}
  PROVE  JobPart'
<1>1. UNCHANGED <<status, target, content, source, restarts, cand, checkpoint, checks>> /\ at' = place
  BY DEF Goto, fileVars
<1>2. JobTypes'
  BY <1>1 DEF JobPart, JobTypes, Places
<1>3. Counters'
  <2>1. at # "verify" \/ place = "ended"
    BY DEF JobPart, Delivery
  <2>. QED BY <1>1, <2>1 DEF JobPart, Counters, MaxChecks
<1>4. Resume'
  BY <1>1 DEF JobPart, Resume, CheckpointInv, Filled
<1>5. Delivery'
  BY <1>1 DEF JobPart, Delivery, WrittenComplete
<1>6. Removal'
  BY <1>1, Zenon DEF JobPart, Removal
<1>. QED BY <1>2, <1>3, <1>4, <1>5, <1>6 DEF JobPart

\* A step of the job that leaves the call and its history alone.
LEMMA AloneStep ==
  ASSUME JobPart, DocOK, DocResume, UNCHANGED docVars
  PROVE  /\ DocOK' /\ DocResume' /\ UNCHANGED <<stage, applied, faults>>
         /\ at \notin {"translate", "check", "replace"} => stage' = "idle"
  BY DocUnchanged DEF JobPart, JobTypes

Parts == DocOK /\ DocResume /\ JobPart

LEMMA StartStep == ASSUME Parts, Start PROVE Parts'
<1>1. DocOK' /\ DocResume' /\ stage' = "idle" /\ UNCHANGED <<stage, applied, faults>>
  BY AloneStep DEF Parts, Start
<1>2. /\ at = "queued" /\ status = "pending" /\ status' = "processing" /\ at' = "attempt"
      /\ checkpoint' = Empty /\ UNCHANGED <<target, content>>
  BY DEF Start, fileVars
<1>3. cand' = 1 /\ checks' = 0 /\ restarts' = restarts
  BY Zenon DEF Start
<1>4. JobTypes'
  BY <1>1, <1>2, NothingType DEF Parts, JobPart, JobTypes, Places, Empty
<1>5. Counters'
  BY <1>2, <1>3, TranslateJobAssumption DEF Parts, JobPart, Counters, MaxChecks
<1>6. Resume'
  BY <1>1, <1>2, UptoZero DEF Parts, JobPart, Resume, CheckpointInv, Filled, Empty
<1>7. Delivery'
  BY <1>2 DEF Parts, JobPart, Delivery, WrittenComplete
<1>8. Removal'
  BY <1>2, Zenon DEF Parts, JobPart, Removal, Start, fileVars
<1>. QED BY <1>1, <1>4, <1>5, <1>6, <1>7, <1>8 DEF Parts, JobPart

LEMMA BudgetBlockedStep == ASSUME Parts, BudgetBlocked PROVE Parts'
<1>1. DocOK' /\ DocResume' /\ UNCHANGED <<stage, applied, faults>>
  BY AloneStep DEF Parts, BudgetBlocked
<1>2. UNCHANGED <<status, at, checkpoint, target, content>>
  BY DEF BudgetBlocked, fileVars
<1>3. cand' = cand + 1 /\ cand <= Candidates /\ UNCHANGED <<restarts, checks, at>>
  BY Zenon DEF BudgetBlocked
<1>4. JobTypes'
  BY <1>1, <1>2 DEF Parts, JobPart, JobTypes
<1>5. Counters'
  BY <1>3, TranslateJobAssumption DEF Parts, JobPart, Counters
<1>6. Resume'
  BY <1>1, <1>2 DEF Parts, JobPart, Resume, CheckpointInv, Filled, OnlyEarlyFaults
<1>7. Delivery'
  BY <1>2 DEF Parts, JobPart, Delivery, WrittenComplete
<1>8. Removal'
  BY <1>2, Zenon DEF Parts, JobPart, Removal, BudgetBlocked, fileVars
<1>. QED BY <1>1, <1>4, <1>5, <1>6, <1>7, <1>8 DEF Parts, JobPart

LEMMA AttemptStep == ASSUME Parts, Attempt PROVE Parts'
<1>1. /\ at = "attempt" /\ Begin(cand, checkpoint) /\ at' = "translate"
      /\ UNCHANGED <<status, target, content, source, restarts, cand, checkpoint, checks>>
  BY DEF Attempt, Goto, fileVars
<1>2. DocOK' /\ DocResume' /\ stage' # "idle"
  BY <1>1, BeginStep DEF Parts, DocOK, JobPart, JobTypes, Resume
<1>3. JobTypes'
  BY <1>1, <1>2 DEF Parts, JobPart, JobTypes, Places
<1>4. Counters'
  BY <1>1 DEF Parts, JobPart, Counters
<1>5. Resume'
  BY <1>1 DEF Parts, JobPart, Resume, CheckpointInv, Filled
<1>6. Delivery'
  BY <1>1 DEF Parts, JobPart, Delivery, WrittenComplete
<1>7. Removal'
  BY <1>1, Zenon DEF Parts, JobPart, Removal
<1>. QED BY <1>2, <1>3, <1>4, <1>5, <1>6, <1>7 DEF Parts, JobPart

LEMMA TranslateStep == ASSUME Parts, Translate PROVE Parts'
<1>1. /\ at = "translate" /\ UNCHANGED <<status, at, target, content, checkpoint>>
      /\ UNCHANGED <<source, restarts, cand, checks>>
  BY DEF Translate, jobVars
<1>2. DocOK' /\ DocResume' /\ stage' # "idle"
  BY DocStep DEF Parts, Translate
<1>3. JobTypes'
  BY <1>1, <1>2 DEF Parts, JobPart, JobTypes, Places
<1>4. Counters'
  BY <1>1 DEF Parts, JobPart, Counters
<1>5. Resume'
  BY <1>1 DEF Parts, JobPart, Resume, CheckpointInv, Filled
<1>6. Delivery'
  BY <1>1 DEF Parts, JobPart, Delivery, WrittenComplete
<1>7. Removal'
  BY <1>1, Zenon DEF Parts, JobPart, Removal
<1>. QED BY <1>2, <1>3, <1>4, <1>5, <1>6, <1>7 DEF Parts, JobPart

\* The checkpoint of a retryable failure has all that was applied; so has the
\* former one, when nothing but retryable failures has happened.
LEMMA FallBackStep == ASSUME Parts, FallBack PROVE Parts'
<1>1. DocOK' /\ DocResume' /\ stage' = "idle" /\ UNCHANGED <<applied, faults>>
  BY CallOverStep DEF Parts, FallBack
<1>2. /\ at = "translate" /\ stage = "raised" /\ error # "fatal" /\ at' = "attempt"
      /\ checkpoint' = IF error = "retryable" THEN [text |-> text, batch |-> batch] ELSE checkpoint
      /\ UNCHANGED <<status, target, content, source>>
  BY DEF FallBack, fileVars
<1>3. cand' = cand + 1 /\ cand < Candidates /\ UNCHANGED <<restarts, checks>>
  BY Zenon DEF FallBack
<1>4. TypeOK /\ text \in [Cues -> Texts] /\ batch \in Nat /\ pos \in Nat /\ batch <= pos
  BY DEF Parts, DocOK, TypeOK
<1>5. Filled(text, Upto(batch))
  BY <1>4, UptoMonotone DEF Parts, DocOK, DocInv, Filled
<1>6. JobTypes'
  BY <1>1, <1>2, <1>4 DEF Parts, JobPart, JobTypes, Places
<1>7. Counters'
  BY <1>2, <1>3, TranslateJobAssumption DEF Parts, JobPart, Counters
<1>8. Resume'
  <2>1. CheckpointInv'
    BY <1>2, <1>5 DEF Parts, JobPart, Resume, CheckpointInv, Filled
  <2>2. ASSUME OnlyEarlyFaults' PROVE applied' \subseteq Upto(checkpoint'.batch)
    BY <1>1, <1>2, <2>2 DEF Parts, DocResume, OnlyEarlyFaults
  <2>. QED BY <1>2, <2>1, <2>2 DEF Resume
<1>9. Delivery'
  BY <1>2 DEF Parts, JobPart, Delivery, WrittenComplete
<1>10. Removal'
  BY <1>2, Zenon DEF Parts, JobPart, Removal
<1>. QED BY <1>1, <1>6, <1>7, <1>8, <1>9, <1>10 DEF Parts, JobPart

\* The document is complete when it is written.
LEMMA ReplaceTargetStep == ASSUME Parts, ReplaceTarget PROVE Parts'
<1>1. DocOK' /\ DocResume' /\ stage' = "idle" /\ UNCHANGED <<applied, faults>>
  BY CallOverStep DEF Parts, ReplaceTarget
<1>2. /\ at = "replace" /\ at' = "commit" /\ target' = "ours" /\ content' = text
      /\ UNCHANGED <<status, source, restarts, cand, checkpoint, checks>>
  BY DEF ReplaceTarget
<1>3. stage = "done" /\ text \in [Cues -> Texts]
  BY <1>2 DEF Parts, JobPart, JobTypes, DocOK, TypeOK
<1>4. Filled(text, Cues)
  BY <1>3 DEF Parts, DocOK, DocInv
<1>5. JobTypes'
  BY <1>1, <1>2, <1>3 DEF Parts, JobPart, JobTypes, Places
<1>6. Counters'
  BY <1>2 DEF Parts, JobPart, Counters
<1>7. Resume'
  BY <1>2 DEF Parts, JobPart, Resume, CheckpointInv, Filled
<1>8. Delivery'
  BY <1>2, <1>4 DEF Parts, JobPart, Delivery, WrittenComplete, Filled
<1>9. Removal'
  BY <1>2, Zenon DEF Parts, JobPart, Removal
<1>. QED BY <1>1, <1>5, <1>6, <1>7, <1>8, <1>9 DEF Parts, JobPart

\* The steps that only go elsewhere.
LEMMA LeaveStep ==
  ASSUME Parts, \/ StartFails \/ SeeCancelled \/ NoCandidateLeft \/ ProgressStops \/ GiveUp
                \/ WriteFails \/ CommitRefused \/ Rescan \/ Failing
  PROVE  Parts'
<1>1. CASE SeeCancelled \/ ProgressStops \/ GiveUp \/ WriteFails
  <2>1. DocOK' /\ DocResume' /\ stage' = "idle" /\ UNCHANGED <<applied, faults>>
    BY <1>1, CallOverStep DEF Parts, SeeCancelled, ProgressStops, GiveUp, WriteFails
  <2>2. PICK place \in {"ended", "failing"} : Goto(place)
    BY <1>1 DEF SeeCancelled, ProgressStops, GiveUp, WriteFails
  <2>3. at \in {"attempt", "failing", "translate", "replace"}
    BY <1>1 DEF SeeCancelled, ProgressStops, GiveUp, WriteFails
  <2>4. status # "completed"
    BY <2>3 DEF Parts, JobPart, Delivery
  <2>5. JobPart'
    BY <2>1, <2>2, <2>3, <2>4, GotoStep DEF Parts
  <2>. QED BY <2>1, <2>5 DEF Parts
<1>2. CASE StartFails \/ NoCandidateLeft \/ CommitRefused \/ Rescan \/ Failing
  <2>1. UNCHANGED docVars /\ at \in {"attempt", "commit", "rescan", "failing"}
    BY <1>2 DEF StartFails, NoCandidateLeft, CommitRefused, Rescan, Failing
  <2>2. DocOK' /\ DocResume' /\ stage' = "idle" /\ UNCHANGED <<applied, faults>>
    BY <2>1, AloneStep DEF Parts
  <2>3. PICK place \in {"ended", "verify", "failing", "fail"} :
           /\ Goto(place)
           /\ place = "verify" => at = "rescan"
           /\ at = "rescan" => place \in {"verify", "ended"}
    BY <1>2 DEF StartFails, NoCandidateLeft, CommitRefused, Rescan, Failing
  <2>4. status = "completed" => at = "rescan"
    BY <2>1 DEF Parts, JobPart, Delivery
  <2>5. JobPart'
    BY <2>1, <2>2, <2>3, <2>4, GotoStep DEF Parts
  <2>. QED BY <2>2, <2>5 DEF Parts
<1>. QED BY <1>1, <1>2

\* From the outcome of the translation to the write.
LEMMA DecideStep == ASSUME Parts, Decide \/ CheckTarget PROVE Parts'
<1>1. CASE at = "check" /\ target # "none"
  <2>1. CallOver /\ Goto("failing")
    BY <1>1 DEF Decide, CheckTarget
  <2>2. DocOK' /\ DocResume' /\ stage' = "idle" /\ UNCHANGED <<applied, faults>>
    BY <2>1, CallOverStep DEF Parts
  <2>3. status # "completed"
    BY <1>1 DEF Parts, JobPart, Delivery
  <2>4. JobPart'
    BY <1>1, <2>1, <2>2, <2>3, GotoStep DEF Parts
  <2>. QED BY <2>2, <2>4 DEF Parts
<1>2. CASE ~(at = "check" /\ target # "none")
  <2>1. /\ UNCHANGED docVars /\ at \in {"translate", "check"} /\ at' \in {"check", "replace"}
        /\ UNCHANGED <<status, target, content, source, restarts, cand, checkpoint, checks>>
    BY <1>2 DEF Decide, CheckTarget, Goto, fileVars
  <2>2. DocOK' /\ DocResume' /\ UNCHANGED <<stage, applied, faults>>
    BY <2>1, AloneStep DEF Parts
  <2>3. stage = "done"
    BY <1>2 DEF Decide, CheckTarget, Parts, JobPart, JobTypes
  <2>4. JobTypes'
    BY <2>1, <2>2, <2>3 DEF Parts, JobPart, JobTypes, Places
  <2>5. Counters'
    BY <2>1 DEF Parts, JobPart, Counters
  <2>6. Resume'
    BY <2>1 DEF Parts, JobPart, Resume, CheckpointInv, Filled
  <2>7. Delivery'
    BY <2>1 DEF Parts, JobPart, Delivery, WrittenComplete
  <2>8. Removal'
    BY <2>1, Zenon DEF Parts, JobPart, Removal
  <2>. QED BY <2>2, <2>4, <2>5, <2>6, <2>7, <2>8 DEF Parts, JobPart
<1>. QED BY <1>1, <1>2

\* Completed and failed are committed, the target is verified.
LEMMA TailStep ==
  ASSUME Parts, CommitCompleted \/ CommitFailed \/ Verified \/ NotVerified
  PROVE  Parts'
<1>1. /\ UNCHANGED docVars /\ at \in {"commit", "fail", "verify"} /\ at' \in {"rescan", "verify", "ended"}
      /\ UNCHANGED <<target, content, checkpoint>>
  BY DEF CommitCompleted, CommitFailed, Verified, NotVerified, fileVars
<1>2. DocOK' /\ DocResume' /\ stage' = "idle" /\ UNCHANGED <<stage, applied, faults>>
  BY <1>1, AloneStep DEF Parts
<1>3. \/ at = "commit" /\ at' = "rescan" /\ status' = "completed"
      \/ at = "fail" /\ at' = "ended" /\ status' = "failed"
      \/ at = "verify" /\ at' \in {"verify", "ended"} /\ status' = status
  BY DEF CommitCompleted, CommitFailed, Verified, NotVerified
<1>4. JobTypes'
  BY <1>1, <1>2, <1>3 DEF Parts, JobPart, JobTypes, Places
<1>5. Counters'
  <2>1. UNCHANGED <<restarts, cand>>
    BY Zenon DEF CommitCompleted, CommitFailed, Verified, NotVerified
  <2>2. \/ checks' = checks
        \/ at = "verify" /\ checks' = checks + 1 /\ at' = IF checks + 1 = MaxChecks THEN "ended" ELSE at
    BY Zenon DEF CommitCompleted, CommitFailed, Verified, NotVerified
  <2>. QED BY <1>3, <2>1, <2>2 DEF Parts, JobPart, Counters, MaxChecks
<1>6. Resume'
  BY <1>1 DEF Parts, JobPart, Resume, CheckpointInv, Filled
<1>7. Delivery'
  BY <1>1, <1>3 DEF Parts, JobPart, Delivery, WrittenComplete
<1>8. Removal'
  <2>1. CASE at = "verify"
    <3>1. status = "completed" /\ status' = status
      BY <1>3, <2>1 DEF Parts, JobPart, Delivery
    <3>2. source' = source \/ (source' \in BOOLEAN /\ at' = "ended")
      BY <2>1, Zenon DEF CommitCompleted, CommitFailed, Verified, NotVerified, fileVars, Parts, JobPart, Removal
    <3>. QED BY <2>1, <3>1, <3>2, Zenon DEF Parts, JobPart, Removal
  <2>2. CASE at # "verify"
    <3>1. source' = source
      BY <2>2, Zenon DEF CommitCompleted, CommitFailed, Verified, NotVerified, fileVars
    <3>. QED BY <1>1, <2>2, <3>1, Zenon DEF Parts, JobPart, Removal
  <2>. QED BY <2>1, <2>2
<1>. QED BY <1>2, <1>4, <1>5, <1>6, <1>7, <1>8 DEF Parts, JobPart

LEMMA CutOffStep == ASSUME Parts, CutOff PROVE Parts'
<1>1. DocOK' /\ DocResume' /\ stage' = "idle" /\ UNCHANGED <<applied, faults>>
  BY CallOverStep DEF Parts, CutOff
<1>2. /\ at \in {"rescan", "verify", "translate"} /\ at' = "ended"
      /\ status' = IF status = "processing" THEN "failed" ELSE status
      /\ UNCHANGED <<target, content, source, restarts, cand, checkpoint, checks>>
  BY DEF CutOff, AtAwait, fileVars
<1>3. JobTypes'
  BY <1>1, <1>2 DEF Parts, JobPart, JobTypes, Places
<1>4. Counters'
  BY <1>2 DEF Parts, JobPart, Counters
<1>5. Resume'
  BY <1>2 DEF Parts, JobPart, Resume, CheckpointInv, Filled
<1>6. Delivery'
  BY <1>2 DEF Parts, JobPart, Delivery, WrittenComplete
<1>7. Removal'
  BY <1>2, Zenon DEF Parts, JobPart, Removal
<1>. QED BY <1>1, <1>3, <1>4, <1>5, <1>6, <1>7 DEF Parts, JobPart

\* Users and other writers: the row and the file change under the coroutine.
LEMMA OutsideStep == ASSUME Parts, Cancel \/ TargetAppears PROVE Parts'
<1>1. UNCHANGED docVars
  BY DEF Cancel, TargetAppears
<1>2. DocOK' /\ DocResume' /\ UNCHANGED <<stage, applied, faults>>
  BY <1>1, AloneStep DEF Parts
<1>3. UNCHANGED <<content, source, restarts, cand, checkpoint, checks>>
  BY DEF Cancel, TargetAppears, fileVars
<1>4. \/ /\ status \in {"pending", "processing"} /\ status' = "cancelled" /\ target' = target
         /\ at' = at \/ (at = "queued" /\ at' = "ended")
      \/ UNCHANGED <<status, at>> /\ target = "none" /\ target' = "other"
  BY DEF Cancel, TargetAppears, fileVars
<1>5. JobTypes'
  BY <1>2, <1>3, <1>4 DEF Parts, JobPart, JobTypes, Places
<1>6. Counters'
  BY <1>3, <1>4 DEF Parts, JobPart, Counters
<1>7. Resume'
  BY <1>2, <1>3, <1>4 DEF Parts, JobPart, Resume, CheckpointInv, Filled, OnlyEarlyFaults
<1>8. Delivery'
  BY <1>3, <1>4 DEF Parts, JobPart, Delivery, WrittenComplete
<1>9. Removal'
  BY <1>3, <1>4, Zenon DEF Parts, JobPart, Removal
<1>. QED BY <1>2, <1>5, <1>6, <1>7, <1>8, <1>9 DEF Parts, JobPart

\* The coroutine is gone, and its history with it.
LEMMA RequeueStep == ASSUME Parts, Restart \/ RecoverOrphan PROVE Parts'
<1>1. Requeue
  BY DEF Restart, RecoverOrphan
<1>2. DocOK' /\ DocResume' /\ stage' = "idle" /\ applied' = {}
  BY <1>1, DocIdle DEF Requeue
<1>3. /\ checkpoint' = Empty /\ UNCHANGED <<target, content, source>>
      /\ status' = IF status = "processing" THEN "pending" ELSE status
      /\ at' = IF status \in {"pending", "processing"} THEN "queued" ELSE "ended"
  BY <1>1 DEF Requeue, fileVars
<1>4. JobTypes'
  BY <1>2, <1>3, NothingType DEF Parts, JobPart, JobTypes, Places, Empty
<1>5. Counters'
  <2>1. cand' = 1 /\ checks' = 0
    BY <1>1, Zenon DEF Requeue
  <2>2. restarts' = restarts \/ (restarts < MaxRestarts /\ restarts' = restarts + 1)
    BY Zenon DEF Restart, RecoverOrphan
  <2>. QED BY <1>3, <2>1, <2>2, TranslateJobAssumption DEF Parts, JobPart, Counters, MaxChecks
<1>6. Resume'
  BY <1>2, <1>3, UptoZero DEF Resume, CheckpointInv, Filled, Empty
<1>7. Delivery'
  BY <1>3 DEF Parts, JobPart, Delivery, WrittenComplete
<1>8. Removal'
  BY <1>3, Zenon DEF Parts, JobPart, Removal
<1>. QED BY <1>2, <1>4, <1>5, <1>6, <1>7, <1>8 DEF Parts, JobPart

\* Every step preserves the invariant.
LEMMA NextParts == ASSUME Parts, [Next]_vars PROVE Parts'
<1>1. CASE Coroutine
  BY <1>1, StartStep, BudgetBlockedStep, AttemptStep, TranslateStep, FallBackStep,
     ReplaceTargetStep, LeaveStep, DecideStep, TailStep DEF Coroutine
<1>2. CASE Environment
  BY <1>2, CutOffStep, OutsideStep, RequeueStep DEF Environment
<1>3. CASE UNCHANGED vars
  <2>1. UNCHANGED docVars /\ UNCHANGED <<status, at, target, content, source, checkpoint>>
        /\ UNCHANGED <<restarts, cand, checks>>
    BY <1>3 DEF vars, jobVars
  <2>2. DocOK' /\ DocResume' /\ UNCHANGED <<stage, applied, faults>>
    BY <2>1, AloneStep DEF Parts
  <2>3. JobTypes'
    BY <2>1, <2>2 DEF Parts, JobPart, JobTypes
  <2>4. Counters'
    BY <2>1 DEF Parts, JobPart, Counters
  <2>5. Resume'
    BY <2>1, <2>2 DEF Parts, JobPart, Resume, CheckpointInv, Filled, OnlyEarlyFaults
  <2>6. Delivery'
    BY <2>1 DEF Parts, JobPart, Delivery, WrittenComplete
  <2>7. Removal'
    BY <2>1, Zenon DEF Parts, JobPart, Removal
  <2>. QED BY <2>2, <2>3, <2>4, <2>5, <2>6, <2>7 DEF Parts, JobPart
<1>. QED BY <1>1, <1>2, <1>3 DEF Next
-----------------------------------------------------------------------------
(* How many requests a batch takes.                                        *)

LEMMA CuesFinite ==
  ASSUME NEW p \in SUBSET Cues
  PROVE  IsFiniteSet(p) /\ Cardinality(p) \in Nat /\ (p # {} => Cardinality(p) > 0)
<1>1. 1 \in Int /\ NCues \in Int
  BY TranslateDocumentAssumption
<1>2. IsFiniteSet(Cues)
  BY <1>1, FS_Interval DEF Cues
<1>3. IsFiniteSet(p)
  BY <1>2, FS_Subset
<1> QED
  BY <1>3, FS_CardinalityType, FS_EmptySet

LEMMA PayloadsFinite ==
  ASSUME NEW q \in SUBSET SUBSET Cues
  PROVE  /\ IsFiniteSet(q) /\ Cardinality(q) \in Nat
         /\ UNION q \in SUBSET Cues
<1>1. 1 \in Int /\ NCues \in Int
  BY TranslateDocumentAssumption
<1>2. IsFiniteSet(SUBSET Cues)
  BY <1>1, FS_Interval, FS_SUBSET DEF Cues
<1> QED
  BY <1>2, FS_Subset, FS_CardinalityType

LEMMA DisjointCount ==
  ASSUME NEW p \in SUBSET Cues, NEW q \in SUBSET Cues, p \cap q = {}
  PROVE  Cardinality(p \cup q) = Cardinality(p) + Cardinality(q)
<1>1. Cardinality(p \cup q) = Cardinality(p) + Cardinality(q) - Cardinality(p \cap q)
  BY CuesFinite, FS_Union
<1> QED
  BY <1>1, CuesFinite, FS_EmptySet

\* The next batch is not empty while cues remain.
LEMMA BatchNotEmpty ==
  ASSUME NEW b \in Nat, Remaining(b) # {}
  PROVE  BatchOf(b + 1) # {} /\ BatchOf(b + 1) \subseteq Cues
<1> DEFINE x == b * BatchSize
<1>1. x \in Nat /\ (b + 1) * BatchSize = x + BatchSize /\ ((b + 1) - 1) * BatchSize = x
  BY TranslateDocumentAssumption
<1>2. PICK c \in Cues : ~(c <= x)
  BY DEF Remaining, Upto
<1> HIDE DEF x
<1>3. x + 1 \in Cues /\ x + 1 <= x + BatchSize /\ ~(x + 1 <= x)
  BY <1>1, <1>2, TranslateDocumentAssumption DEF Cues
<1>4. x + 1 \in BatchOf(b + 1)
  BY <1>1, <1>3 DEF BatchOf, Upto
<1> QED
  BY <1>4, UptoNext

\* Both halves of a payload of two cues or more have a cue.
LEMMA HalvesNotEmpty ==
  ASSUME NEW p \in SUBSET Cues, Cardinality(p) > 1
  PROVE  Lower(p) # {} /\ p \ Lower(p) # {}
<1>1. IsFiniteSet(p) /\ Cardinality(p) \in Nat /\ p # {} /\ \A c \in p : c \in Int
  BY CuesFinite, FS_EmptySet DEF Cues
<1>2. PICK l, m \in p : \A c \in p : l <= c /\ c <= m
  BY <1>1, ExtremesExist
<1>3. Cardinality(p) \div 2 > 0 /\ Cardinality(p) \div 2 <= Cardinality(p) - 1
  BY <1>1
<1>4. l \in Lower(p)
  <2>1. {d \in p : d < l} = {}
    BY <1>1, <1>2
  <2> QED
    BY <1>3, <2>1, FS_EmptySet DEF Lower
<1>5. m \notin Lower(p)
  <2>1. {d \in p : d < m} = p \ {m}
    BY <1>1, <1>2
  <2>2. Cardinality(p \ {m}) = Cardinality(p) - 1
    BY <1>1, FS_RemoveElement
  <2>3. ~(Cardinality({d \in p : d < m}) < Cardinality(p) \div 2)
    BY <1>1, <1>3, <2>1, <2>2
  <2> QED
    BY <2>3 DEF Lower
<1> QED
  BY <1>4, <1>5

\* As many payloads as there are cues at most, when none is empty and none shares
\* a cue with another.
LEMMA NoMorePayloads ==
  ASSUME NEW q \in SUBSET SUBSET Cues, \A p \in q : p # {},
         \A p, s \in q : p = s \/ p \cap s = {}
  PROVE  Cardinality(q) <= Cardinality(UNION q)
<1> DEFINE f == [p \in q |-> CHOOSE c \in p : TRUE]
<1>1. \A p \in q : f[p] \in p
  OBVIOUS
<1>2. f \in [q -> UNION q]
  BY <1>1
<1>3. \A p, s \in q : f[p] = f[s] => p = s
  BY <1>1
<1>4. f \in Injection(q, UNION q)
  <2> HIDE DEF f
  <2> QED
    BY <1>2, <1>3 DEF Injection, IsInjective
<1>5. IsFiniteSet(UNION q)
  BY PayloadsFinite, CuesFinite
<1> HIDE DEF f
<1> QED
  BY <1>4, <1>5, FS_Injection

\* The payloads of the batch in hand, and the requests they leave.
Payloads ==
  /\ now # {} /\ \A p \in rest : p # {} /\ p \cap now = {}
  /\ \A p, q \in rest : p = q \/ p \cap q = {}
Fuel ==
  calls + 6 * Cardinality(now) + 6 * Cardinality(UNION rest) - 3 * Cardinality(rest)
    <= 6 * Cardinality(InHand) + tries + 1

LEMMA InHandIn ==
  ASSUME now \subseteq Cues, rest \subseteq SUBSET Cues PROVE InHand \in SUBSET Cues
<1> DEFINE filled == {c \in Cues : got[c] # "missing"}
           waiting == UNION rest
<1>1. waiting \subseteq Cues /\ filled \subseteq Cues
  OBVIOUS
<1>2. InHand = now \cup waiting \cup filled
  BY Zenon DEF InHand
<1> HIDE DEF filled, waiting
<1> QED
  BY <1>1, <1>2

\* The first request for a batch.
LEMMA AskFirst ==
  ASSUME NEW p \in SUBSET Cues, p # {}, NEW isSent, Ask(p, {}, Nothing, 1, isSent)
  PROVE  Payloads' /\ Fuel' /\ calls' = 1
<1>1. now' = p /\ rest' = {} /\ got' = Nothing /\ tries' = 0 /\ calls' = 1
  BY Zenon DEF Ask
<1>2. InHand' = p
  BY <1>1, NothingType DEF InHand
<1>3. UNION rest' = {} /\ Cardinality({}) = 0
  BY <1>1, FS_EmptySet
<1>4. Cardinality(p) \in Nat
  BY CuesFinite
<1>5. Fuel'
  <2>1. Cardinality(now') = Cardinality(p) /\ Cardinality(UNION rest') = 0
        /\ Cardinality(rest') = 0 /\ Cardinality(InHand') = Cardinality(p)
    BY <1>1, <1>2, <1>3
  <2> HIDE DEF InHand
  <2> QED
    BY <1>1, <1>4, <2>1 DEF Fuel
<1> QED
  BY <1>1, <1>5 DEF Payloads

LEMMA NoBatchAsks == ASSUME NoBatch PROVE calls' = 0
BY Zenon DEF NoBatch

\* RequestInv, from its parts.
LEMMA RequestOf ==
  ASSUME stage' = "poll" => Remaining(pos') # {},
         \/ stage' \notin Working /\ calls' = 0
         \/ calls' = 1 /\ Payloads' /\ Fuel'
  PROVE  RequestInv'
BY DEF RequestInv, Payloads, Fuel, Remaining, Upto

LEMMA OnwardRequests ==
  ASSUME NEW t, NEW b \in Nat, NEW m, Onward(t, b, m), pos' = b
  PROVE  RequestInv'
<1>1. CASE Remaining(b) # {} /\ m \in BatchModels
  BY <1>1, NoBatchAsks, RequestOf DEF Onward, Working
<1>2. CASE Remaining(b) # {} /\ m \notin BatchModels
  BY <1>2, BatchNotEmpty, AskFirst, RequestOf DEF Onward
<1>3. CASE Remaining(b) = {} /\ Crowded(t) # {}
  BY <1>3, CrowdedIn, AskFirst, RequestOf DEF Onward
<1>4. CASE Remaining(b) = {} /\ Crowded(t) = {}
  BY <1>4, NoBatchAsks, RequestOf DEF Onward, Working
<1> QED
  BY <1>1, <1>2, <1>3, <1>4

\* The steps that stay in a batch keep what it is about.
LEMMA NextHalfRequests ==
  ASSUME NEW r \in [asked -> Texts], TypeOK, RequestInv, NextHalf(r)
  PROVE  RequestInv'
<1> DEFINE g == Taken(r)
<1>1. PICK p \in rest : Ask(p, rest \ {p}, g, calls + 1, TRUE)
  BY DEF NextHalf
<1>2. /\ now' = p /\ rest' = rest \ {p} /\ got' = g /\ tries' = 0 /\ calls' = calls + 1
      /\ stage' = stage /\ stage \in Working
  BY <1>1, Zenon DEF Ask, NextHalf
<1>3. Payloads /\ Fuel /\ calls > 0
  BY <1>2 DEF RequestInv, Payloads, Fuel
<1>4. /\ now \in SUBSET Cues /\ rest \in SUBSET SUBSET Cues /\ p \in SUBSET Cues
      /\ calls \in Nat /\ tries \in 0..2
  BY Zenon DEF TypeOK, MaxTries
<1>5. Payloads'
  BY <1>2, <1>3 DEF Payloads
<1>6. InHand' = InHand
  <2>1. /\ \A c \in Cues : g[c] # "missing" => got[c] # "missing" \/ c \in now
        /\ \A c \in Cues : got[c] # "missing" => g[c] # "missing"
        /\ \A c \in now : g[c] # "missing"
    BY TakenType DEF NextHalf
  <2> DEFINE before == {c \in Cues : got[c] # "missing"}
             after == {c \in Cues : g[c] # "missing"}
  <2>2. now \cup before = after
    BY <1>4, <2>1
  <2>3. p \cup UNION (rest \ {p}) = UNION rest
    OBVIOUS
  <2>4. InHand = now \cup (UNION rest) \cup before
    BY Zenon DEF InHand
  <2> HIDE DEF g
  <2>5. InHand' = p \cup (UNION (rest \ {p})) \cup after
    BY <1>2, Zenon DEF InHand
  <2> DEFINE wait == UNION rest
             wait2 == UNION (rest \ {p})
  <2>6. InHand = now \cup wait \cup before /\ InHand' = p \cup wait2 \cup after
        /\ p \cup wait2 = wait
    BY <2>3, <2>4, <2>5
  <2> HIDE DEF before, after, wait, wait2
  <2> QED
    BY <2>2, <2>6
<1>7. Fuel'
  <2>1. UNION rest = p \cup UNION rest' /\ p \cap UNION rest' = {}
    BY <1>2, <1>3 DEF Payloads
  <2>2. UNION rest' \in SUBSET Cues /\ IsFiniteSet(rest)
    BY <1>2, <1>4, PayloadsFinite
  <2>3. Cardinality(UNION rest) = Cardinality(p) + Cardinality(UNION rest')
    BY <1>4, <2>1, <2>2, DisjointCount
  <2>4. Cardinality(rest') = Cardinality(rest) - 1 /\ Cardinality(rest) \in Nat
    BY <1>2, <1>4, <2>2, FS_RemoveElement, FS_CardinalityType
  <2>5. /\ Cardinality(now) \in Nat /\ Cardinality(now) > 0
        /\ Cardinality(p) \in Nat /\ Cardinality(UNION rest') \in Nat
    BY <1>3, <1>4, <2>2, CuesFinite DEF Payloads
  <2>6. Cardinality(InHand) \in Nat
    BY <1>4, InHandIn, CuesFinite
  <2> HIDE DEF InHand
  <2>7. Cardinality(InHand') = Cardinality(InHand) /\ Cardinality(now') = Cardinality(p)
    BY <1>2, <1>6
  <2> QED
    BY <1>2, <1>3, <1>4, <2>3, <2>4, <2>5, <2>6, <2>7 DEF Fuel
<1> QED
  BY <1>2, <1>3, <1>4, <1>5, <1>7 DEF RequestInv, Payloads, Fuel, Working

LEMMA RepairRequests ==
  ASSUME NEW r \in [asked -> Texts], TypeOK, RequestInv, Repair(r)
  PROVE  RequestInv'
<1>1. /\ now' = now /\ rest' = rest /\ got' = Taken(r) /\ tries' = tries + 1
      /\ calls' = calls + 1 /\ stage' = stage /\ stage \in Working
  BY Zenon DEF Repair
<1>2. Payloads /\ Fuel /\ calls > 0
  BY <1>1 DEF RequestInv, Payloads, Fuel
<1>3. /\ now \in SUBSET Cues /\ rest \in SUBSET SUBSET Cues
      /\ calls \in Nat /\ tries \in 0..2
  BY Zenon DEF TypeOK, MaxTries
<1>4. InHand' = InHand
  <2>1. /\ \A c \in Cues : Taken(r)[c] # "missing" => got[c] # "missing" \/ c \in now
        /\ \A c \in Cues : got[c] # "missing" => Taken(r)[c] # "missing"
    BY TakenType
  <2> DEFINE g == Taken(r)
             before == {c \in Cues : got[c] # "missing"}
             after == {c \in Cues : g[c] # "missing"}
  <2>2. now \cup before = now \cup after
    BY <1>3, <2>1
  <2>3. InHand = now \cup (UNION rest) \cup before
    BY Zenon DEF InHand
  <2> HIDE DEF g
  <2>4. InHand' = now \cup (UNION rest) \cup after
    BY <1>1, Zenon DEF InHand, g
  <2> DEFINE wait == UNION rest
  <2>5. InHand = now \cup wait \cup before /\ InHand' = now \cup wait \cup after
    BY <2>3, <2>4
  <2> HIDE DEF before, after, wait
  <2> QED
    BY <2>2, <2>5
<1>5. Payloads'
  BY <1>1, <1>2 DEF Payloads
<1>6. /\ Cardinality(now) \in Nat /\ Cardinality(UNION rest) \in Nat
      /\ Cardinality(rest) \in Nat /\ Cardinality(InHand) \in Nat
  BY <1>3, InHandIn, CuesFinite, PayloadsFinite
<1>7. Fuel'
  <2> HIDE DEF InHand
  <2>1. Cardinality(InHand') = Cardinality(InHand) /\ Cardinality(now') = Cardinality(now)
        /\ Cardinality(UNION rest') = Cardinality(UNION rest)
        /\ Cardinality(rest') = Cardinality(rest)
    BY <1>1, <1>4
  <2> QED
    BY <1>1, <1>2, <1>3, <1>6, <2>1 DEF Fuel
<1> QED
  BY <1>1, <1>2, <1>3, <1>5, <1>7 DEF RequestInv, Payloads, Fuel, Working

LEMMA ShrinkRequests ==
  ASSUME NEW r \in [asked -> Texts], TypeOK, RequestInv, Shrink(r)
  PROVE  RequestInv'
<1> DEFINE l == Lower(now)
           h == now \ l
<1>1. Ask(l, rest \cup {h}, Without(now), calls + 1, TRUE)
  BY DEF Shrink
<1>2. /\ now' = l /\ rest' = rest \cup {h} /\ got' = Without(now) /\ tries' = 0
      /\ calls' = calls + 1 /\ stage' = stage /\ stage \in Working
      /\ tries = 2 /\ Cardinality(now) > 1
  BY <1>1, Zenon DEF Ask, Shrink, MaxTries
<1>3. Payloads /\ Fuel /\ calls > 0
  BY <1>2 DEF RequestInv, Payloads, Fuel
<1>4. now \in SUBSET Cues /\ rest \in SUBSET SUBSET Cues /\ calls \in Nat
  BY Zenon DEF TypeOK
<1>5. l # {} /\ h # {} /\ now = l \cup h /\ l \cap h = {}
      /\ l \in SUBSET Cues /\ h \in SUBSET Cues
  BY <1>2, <1>4, HalvesNotEmpty, LowerIn
<1> HIDE DEF l, h
<1>6. \A p \in rest : p \cap h = {} /\ p \cap l = {} /\ p # {}
  BY <1>3, <1>5 DEF Payloads
<1>7. Payloads'
  BY <1>2, <1>3, <1>5, <1>6 DEF Payloads
<1>8. InHand' = InHand
  <2>1. \A c \in Cues : Without(now)[c] # "missing" <=> c \notin now /\ got[c] # "missing"
    BY DEF Without
  <2> DEFINE g == Without(now)
             before == {c \in Cues : got[c] # "missing"}
             after == {c \in Cues : g[c] # "missing"}
  <2>2. now \cup before = l \cup h \cup after
    BY <1>4, <1>5, <2>1
  <2>3. UNION (rest \cup {h}) = h \cup UNION rest
    OBVIOUS
  <2>4. InHand = now \cup (UNION rest) \cup before
    BY Zenon DEF InHand
  <2>5. got' = g
    BY <1>2
  <2> HIDE DEF g
  <2>6. InHand' = l \cup (UNION (rest \cup {h})) \cup after
    BY <1>2, <2>5, Zenon DEF InHand
  <2> DEFINE wait == UNION rest
             wait2 == UNION (rest \cup {h})
  <2>7. InHand = now \cup wait \cup before /\ InHand' = l \cup wait2 \cup after
        /\ wait2 = h \cup wait
    BY <2>3, <2>4, <2>6
  <2> HIDE DEF before, after, wait, wait2
  <2> QED
    BY <2>2, <2>7
<1>9. Fuel'
  <2>1. UNION rest' = h \cup UNION rest /\ h \cap UNION rest = {} /\ h \notin rest
    BY <1>2, <1>5, <1>6
  <2>2. UNION rest \in SUBSET Cues /\ IsFiniteSet(rest) /\ Cardinality(rest) \in Nat
    BY <1>4, PayloadsFinite
  <2>3. Cardinality(UNION rest') = Cardinality(h) + Cardinality(UNION rest)
    BY <1>5, <2>1, <2>2, DisjointCount
  <2>4. Cardinality(rest') = Cardinality(rest) + 1
    BY <1>2, <2>1, <2>2, FS_AddElement
  <2>5. Cardinality(now) = Cardinality(l) + Cardinality(h)
    BY <1>5, DisjointCount
  <2>6. /\ Cardinality(l) \in Nat /\ Cardinality(h) \in Nat
        /\ Cardinality(UNION rest) \in Nat /\ Cardinality(InHand) \in Nat
    BY <1>4, <1>5, <2>2, InHandIn, CuesFinite
  <2> HIDE DEF InHand
  <2>7. Cardinality(InHand') = Cardinality(InHand) /\ Cardinality(now') = Cardinality(l)
    BY <1>2, <1>8
  <2> QED
    BY <1>2, <1>3, <1>4, <2>2, <2>3, <2>4, <2>5, <2>6, <2>7 DEF Fuel
<1> QED
  BY <1>2, <1>3, <1>4, <1>7, <1>9 DEF RequestInv, Payloads, Fuel, Working

LEMMA BatchDoneRequests ==
  ASSUME NEW r, TypeOK, BatchDone(r)
  PROVE  RequestInv'
<1>1. CASE stage' = "progress" /\ NoBatch
  BY <1>1, NoBatchAsks, RequestOf DEF Working
<1>2. CASE /\ stage' = "chunks" /\ Remaining(pos + 1) # {}
           /\ Ask(BatchOf(pos + 2), {}, Nothing, 1, FALSE)
  <2>1. pos + 1 \in Nat /\ pos + 2 = (pos + 1) + 1
    BY DEF TypeOK
  <2>2. BatchOf(pos + 2) # {} /\ BatchOf(pos + 2) \subseteq Cues
    BY <1>2, <2>1, BatchNotEmpty
  <2> QED
    BY <1>2, <2>2, AskFirst, RequestOf
<1>3. CASE stage' = "done" /\ NoBatch
  BY <1>3, NoBatchAsks, RequestOf DEF Working
<1> QED
  BY <1>1, <1>2, <1>3 DEF BatchDone

LEMMA AnsweredRequests ==
  ASSUME TypeOK, RequestInv, Answered
  PROVE  RequestInv'
<1>1. PICK r \in [asked -> Texts] : NextHalf(r) \/ BatchDone(r) \/ Repair(r) \/ Shrink(r) \/ Reject(r)
  BY DEF Answered
<1>2. CASE Reject(r)
  BY <1>2, NoBatchAsks, RequestOf DEF Reject, Working
<1> QED
  BY <1>1, <1>2, NextHalfRequests, BatchDoneRequests, RepairRequests, ShrinkRequests

LEMMA PollEndsRequests ==
  ASSUME TypeOK, RequestInv, PollEnds
  PROVE  RequestInv'
<1>1. /\ stage = "poll" /\ stage' = "chunks" /\ pos \in Nat
      /\ Ask(BatchOf(pos + 1), {}, Nothing, 1, FALSE)
  BY DEF PollEnds, TypeOK
<1>2. BatchOf(pos + 1) # {} /\ BatchOf(pos + 1) \subseteq Cues
  BY <1>1, BatchNotEmpty DEF RequestInv
<1> QED
  BY <1>1, <1>2, AskFirst, RequestOf

LEMMA RequestsUnchanged ==
  ASSUME RequestInv, UNCHANGED docVars
  PROVE  RequestInv'
BY DEF docVars, batchVars, RequestInv, InHand, Remaining, Upto

LEMMA IdleRequests == ASSUME NoBatch, stage' = "idle" PROVE RequestInv'
BY NoBatchAsks, RequestOf DEF Working

LEMMA RequestStep ==
  ASSUME Parts, RequestInv, [Next]_vars
  PROVE  RequestInv'
<1>0. TypeOK
  BY DEF Parts, DocOK
<1>1. CASE Translate
  <2>1. CASE Failed
    BY <2>1, NoBatchAsks, RequestOf DEF Failed, RequestFails, Working
  <2>2. CASE Continue(cand)
    <3>1. batch = pos /\ batch \in Nat
      BY <2>2 DEF Parts, DocOK, DocInv, TypeOK, Continue
    <3> QED
      BY <2>2, <3>1, OnwardRequests DEF Continue
  <2> QED
    BY <1>0, <1>1, <2>1, <2>2, AnsweredRequests, PollEndsRequests DEF Translate
<1>2. CASE Attempt
  <2>1. checkpoint.batch \in Nat
    BY DEF Parts, JobPart, JobTypes
  <2> QED
    BY <1>2, <2>1, OnwardRequests DEF Attempt, Begin
<1>3. CASE NoBatch /\ stage' = "idle"
  BY <1>3, IdleRequests
<1>4. CASE UNCHANGED docVars
  BY <1>4, RequestsUnchanged
<1>5. Next => \/ Translate \/ Attempt \/ UNCHANGED docVars \/ (NoBatch /\ stage' = "idle")
  BY DEF Next, Coroutine, Environment, Start, StartFails, SeeCancelled, BudgetBlocked,
     NoCandidateLeft, ProgressStops, FallBack, GiveUp, Decide, CheckTarget, ReplaceTarget,
     WriteFails, CommitCompleted, CommitRefused, Rescan, Verified, NotVerified, Failing,
     CommitFailed, CutOff, Cancel, TargetAppears, Restart, RecoverOrphan, CallOver, Requeue
<1> QED
  BY <1>1, <1>2, <1>3, <1>4, <1>5 DEF vars

LEMMA RequestInitial == ASSUME Init PROVE RequestInv
<1>1. stage = "idle" /\ calls = 0
  BY Zenon DEF Init, DocInit
<1> QED
  BY <1>1 DEF RequestInv, Working

-----------------------------------------------------------------------------
(* The theorems.                                                           *)

\* Spec implies the inductive invariant that the runs check.
LEMMA SpecParts == Spec => []Parts
<1>1. Init => Parts
  BY InitIInv, IInvParts DEF Parts
<1>. QED BY <1>1, NextParts, PTL DEF Spec

\* The inductive invariant holds: types, what a call in progress has filled and
\* applied, what the checkpoint carries, and the order of write and commit.
THEOREM InvariantHolds == Spec => []TranslateIInv
<1>1. Parts => TranslateIInv
  BY IInvParts DEF Parts
<1>. QED BY <1>1, SpecParts, PTL

\* The file that is written has every cue translated, however many models,
\* checkpoints, repairs and splits it took (translate_document).
THEOREM FileComplete == Spec => []WrittenComplete
<1>1. TranslateIInv => WrittenComplete
  BY DEF TranslateIInv
<1>. QED BY <1>1, InvariantHolds, PTL

\* Repairs and splits end: a batch of n cues takes at most 3(2n - 1) requests,
\* whatever the models leave out of their answers (_translate_batch).
THEOREM RequestsAreBounded == Spec => []RequestsBounded
<1>1. Init => RequestInv
  BY RequestInitial
<1>2. Parts /\ RequestInv /\ [Next]_vars => RequestInv'
  BY RequestStep
<1>3. Parts /\ RequestInv => RequestsBounded
  <2> SUFFICES ASSUME Parts, RequestInv, calls > 0
               PROVE  calls <= 3 * (2 * Cardinality(InHand) - 1)
    BY DEF RequestsBounded
  <2>1. /\ now \in SUBSET Cues /\ rest \in SUBSET SUBSET Cues
        /\ calls \in Nat /\ tries \in 0..2
    BY Zenon DEF Parts, DocOK, TypeOK, MaxTries
  <2>2. Payloads /\ Fuel
    BY DEF RequestInv, Payloads, Fuel
  <2>3. Cardinality(rest) <= Cardinality(UNION rest)
    BY <2>1, <2>2, NoMorePayloads DEF Payloads
  <2>4. /\ Cardinality(now) \in Nat /\ Cardinality(now) > 0
        /\ Cardinality(UNION rest) \in Nat /\ Cardinality(rest) \in Nat
        /\ Cardinality(InHand) \in Nat
    BY <2>1, <2>2, InHandIn, CuesFinite, PayloadsFinite DEF Payloads
  <2> HIDE DEF InHand
  <2> QED
    BY <2>1, <2>2, <2>3, <2>4 DEF Fuel
<1> QED
  BY <1>1, <1>2, <1>3, SpecParts, PTL DEF Spec

\* A completed job has its file at the target, and only a completed job has its
\* source removed, whenever the process dies or a commit is refused
\* (_process_translate_job, from write_srt_atomic to the end).
THEOREM Delivered == Spec => []CompletedDelivered
<1>1. TranslateIInv => CompletedDelivered
  BY DEF TranslateIInv, CompletedDelivered
<1>. QED BY <1>1, InvariantHolds, PTL

\* After transient failures of the requests of batches, no model is sent what
\* was translated before (TranslationCheckpoint).
THEOREM DoneIsSkipped == Spec => []ResumeSkipsDone
<1>1. Parts => ResumeSkipsDone
  <2>1. SUFFICES ASSUME Parts, OnlyEarlyFaults, NEW c \in InRequest, c \in applied
                 PROVE  FALSE
    BY DEF ResumeSkipsDone
  <2>2. pos \in Nat /\ now \subseteq Cues
    BY <2>1 DEF Parts, DocOK, TypeOK
  <2>3. CASE stage = "poll"
    <3>1. c \in Upto(pos) /\ batch = pos
      BY <2>1, <2>3 DEF Parts, DocOK, DocInv, DocResume
    <3>. QED BY <2>1, <2>3, <3>1 DEF InRequest, Remaining
  <2>4. CASE stage \in {"batches", "chunks"}
    <3>1. c \in now
      BY <2>1, <2>4 DEF InRequest
    <3>2. c \in BatchOf(pos + 1)
      BY <2>1, <2>2, <2>4, <3>1 DEF Parts, DocOK, DocInv, InBatch
    <3>3. c \in Upto(pos)
      BY <2>1, <2>4 DEF Parts, DocResume
    <3>. QED BY <2>2, <3>2, <3>3, UptoNext
  <2>. QED BY <2>1, <2>3, <2>4 DEF InRequest
<1>. QED BY <1>1, SpecParts, PTL

\* A cancellation that comes before the write is decided is respected: nothing
\* is written afterwards, and only the last handler, having read the row
\* before, writes over it (on_progress, _fresh_job).
THEOREM CancelStops == Spec => CancelRespected
<1>. DEFINE Respected == Cancelled /\ at \notin Writing =>
                           at' \notin Writing /\ (Cancelled' \/ at = "fail")
<1>1. ASSUME [Next]_vars PROVE Respected
  <2>1. SUFFICES ASSUME Cancelled, at \notin Writing
                 PROVE  at' \notin Writing /\ (Cancelled' \/ at = "fail")
    OBVIOUS
  <2>2. status = "cancelled" /\ at \notin {"check", "replace", "commit"}
    BY <2>1 DEF Cancelled, Writing
  <2>. SUFFICES /\ at' \notin {"check", "replace", "commit"}
                /\ status' = "cancelled" \/ at = "fail"
    BY DEF Cancelled, Writing
  <2>3. CASE UNCHANGED vars
    BY <2>2, <2>3 DEF vars, jobVars
  <2>4. CASE StartFails \/ SeeCancelled \/ BudgetBlocked \/ NoCandidateLeft \/ Attempt \/ Translate
             \/ ProgressStops \/ FallBack \/ GiveUp \/ Rescan \/ Failing
    BY <2>2, <2>4 DEF StartFails, SeeCancelled, BudgetBlocked, NoCandidateLeft, Attempt, Translate,
       ProgressStops, FallBack, GiveUp, Rescan, Failing, Goto, jobVars
  <2>5. CASE Start \/ Decide \/ CheckTarget \/ ReplaceTarget \/ WriteFails \/ CommitCompleted \/ CommitRefused
    BY <2>1, <2>2, <2>5 DEF Start, Decide, CheckTarget, ReplaceTarget, WriteFails, CommitCompleted,
       CommitRefused
  <2>6. CASE Verified \/ NotVerified \/ CommitFailed
    BY <2>2, <2>6, Zenon DEF Verified, NotVerified, CommitFailed
  <2>7. CASE CutOff \/ Cancel \/ TargetAppears \/ Restart \/ RecoverOrphan
    BY <2>2, <2>7 DEF CutOff, Cancel, TargetAppears, Restart, RecoverOrphan, Requeue
  <2>. QED BY <1>1, <2>3, <2>4, <2>5, <2>6, <2>7 DEF Next, Coroutine, Environment
<1>. QED BY <1>1, PTL DEF Spec, CancelRespected
=============================================================================
