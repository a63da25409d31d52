------------------------- MODULE TranslateDocument -------------------------
(***************************************************************************)
(* TranslationService.translate_document (backend/app/translation/         *)
(* service.py): the cues of a subtitle are sent to a model in batches; an  *)
(* answer that leaves cues out is repaired by asking for those cues again, *)
(* and when that fails the batch is split in two; at the end the cues that *)
(* are too long to be read are sent once more.  A `:batch` model gets all  *)
(* remaining batches in one asynchronous request, and only repairs are     *)
(* sent one by one.  A call that fails for a transient reason hands on a   *)
(* checkpoint from which the next call, with another model, resumes.       *)
(*                                                                         *)
(* A cue is its position in the document.  A payload lists cues in the     *)
(* order of the document, so it is a set.  An answer is, for each cue,     *)
(* "missing" (left out or blank), "fit", or "long" (too long to be read).  *)
(***************************************************************************)
EXTENDS Integers, FiniteSets

CONSTANTS
  NCues,        \* the cues of the source subtitle
  BatchSize,    \* settings.batch_size
  CrowdLimit,   \* overcrowded_blocks(limit)
  BatchModels   \* candidates whose model is a `:batch` model

ASSUME TranslateDocumentAssumption ==
  /\ NCues \in Nat \ {0} /\ BatchSize \in Nat \ {0} /\ CrowdLimit \in Nat \ {0}

VARIABLES
  stage,    \* where the call is
  text,     \* translated_by_id
  batch,    \* completed_batches
  pos,      \* batches applied to text; ahead of `batch` within "chunks"
  now,      \* the payload of the current _translate_batch
  rest,     \* the right halves that wait for it
  got,      \* the mappings of the payloads done and of the current one
  asked,    \* the cues the current request names
  tries,    \* targeted repairs of the current payload
  sent,     \* the request is on its way; FALSE: its answer is at hand
  error,    \* the exception of a call that has ended in "raised"
  \* history, since the job was started
  calls,    \* requests for the batch in hand
  applied,  \* cues of the batches that were translated and applied
  faults    \* the failures that made another model take over

batchVars == <<now, rest, got, asked, tries, sent, calls>>
docVars == <<stage, text, batch, pos, batchVars, error, applied, faults>>
-----------------------------------------------------------------------------
Cues == 1..NCues
Translated == {"fit", "long"}
Texts == Translated \cup {"missing"}
Nothing == [c \in Cues |-> "missing"]

MaxTries == 2      \* MAX_CORRECTION_ATTEMPTS

Working == {"batches",  \* a batch is translated by requests of its own
            "chunks",   \* the asynchronous batch is done, its results are used
            "reading"}  \* the crowded cues are shortened
Stages == Working \cup
          {"idle",      \* no call
           "poll",      \* run_chat_batch polls the asynchronous batch
           "progress",  \* a batch is complete, progress_callback is due
           "done",      \* the call has returned its outcome
           "raised"}    \* the call has raised `error`

\* What may go wrong with a request: timeout, 429 or 5xx; an unusable answer
\* or a context overflow; an authentication error or an unknown model.
Failures == {"transient", "technical", "refused"}
Faults == {"transient", "technical"} \X (Working \cup {"poll"})
\* RetryableTranslationError, another technical error, and the others.
Errors == {"none", "retryable", "technical", "fatal"}

TypeOK ==
  /\ stage \in Stages
  /\ text \in [Cues -> Texts] /\ got \in [Cues -> Texts]
  /\ batch \in Nat /\ pos \in Nat /\ batch <= pos
  /\ now \subseteq Cues /\ asked \subseteq now /\ rest \subseteq SUBSET Cues
  /\ tries \in 0..MaxTries /\ sent \in BOOLEAN /\ calls \in Nat
  /\ error \in Errors
  /\ applied \subseteq Cues /\ faults \subseteq Faults

Upto(b) == {c \in Cues : c <= b * BatchSize}
BatchOf(b) == Upto(b) \ Upto(b - 1)
Remaining(b) == Cues \ Upto(b)

Long(t) == {c \in Cues : t[c] = "long"}
Crowded(t) == {c \in Long(t) : Cardinality({d \in Long(t) : d < c}) < CrowdLimit}

\* protected_payload[:mid]
Lower(p) == {c \in p : Cardinality({d \in p : d < c}) < Cardinality(p) \div 2}

\* The right half that is translated next.
Leftmost(p) == \A q \in rest : \E c \in p : \A d \in q : c <= d

\* _filter_mapping and _merge_mapping: only cues that were asked for are taken,
\* and what is blank replaces nothing.
Taken(r) == [c \in Cues |-> IF c \in asked /\ r[c] # "missing" THEN r[c] ELSE got[c]]
Incomplete(g) == {c \in now : g[c] = "missing"}

TextWith(g) == [c \in Cues |-> IF g[c] # "missing" THEN g[c] ELSE text[c]]
AppliedWith(g) == applied \cup {c \in Cues : g[c] # "missing"}

NoBatch ==
  /\ now' = {} /\ rest' = {} /\ asked' = {} /\ got' = Nothing
  /\ tries' = 0 /\ sent' = FALSE /\ calls' = 0

\* The first request for payload p, q waiting: sent now, or answered already.
Ask(p, q, g, n, isSent) ==
  /\ now' = p /\ rest' = q /\ asked' = p /\ got' = g
  /\ tries' = 0 /\ sent' = isSent /\ calls' = n

DocInit ==
  /\ stage = "idle" /\ text = Nothing /\ batch = 0 /\ pos = 0
  /\ now = {} /\ rest = {} /\ asked = {} /\ got = Nothing
  /\ tries = 0 /\ sent = FALSE /\ calls = 0
  /\ error = "none" /\ applied = {} /\ faults = {}
-----------------------------------------------------------------------------
\* With batches 1..b done: the next batch, all remaining ones at once, or the
\* crowded cues of the complete document.
Onward(t, b, m) ==
  IF Remaining(b) # {} /\ m \in BatchModels
    THEN stage' = "poll" /\ NoBatch
  ELSE IF Remaining(b) # {}
    THEN stage' = "batches" /\ Ask(BatchOf(b + 1), {}, Nothing, 1, TRUE)
  ELSE IF Crowded(t) # {}
    THEN stage' = "reading" /\ Ask(Crowded(t), {}, Nothing, 1, TRUE)
  ELSE stage' = "done" /\ NoBatch

\* translate_document(model=m, checkpoint): up to its first await.
Begin(m, checkpoint) ==
  /\ text' = checkpoint.text
  /\ batch' = checkpoint.batch /\ pos' = checkpoint.batch
  /\ Onward(checkpoint.text, checkpoint.batch, m)
  /\ UNCHANGED <<error, applied, faults>>

\* The progress callback returns.
Continue(m) ==
  /\ stage = "progress"
  /\ Onward(text, batch, m)
  /\ UNCHANGED <<text, batch, pos, error, applied, faults>>

\* The asynchronous batch has completed; its first result is looked at.
PollEnds ==
  /\ stage = "poll"
  /\ stage' = "chunks"
  /\ Ask(BatchOf(pos + 1), {}, Nothing, 1, FALSE)
  /\ UNCHANGED <<text, batch, pos, error, applied, faults>>
-----------------------------------------------------------------------------
(* The answer r to the current request, within _translate_batch.           *)

\* The payload is complete, and a right half waits: it is sent.
NextHalf(r) ==
  /\ stage \in Working /\ Incomplete(Taken(r)) = {}
  /\ \E p \in rest : /\ Leftmost(p)
                     /\ Ask(p, rest \ {p}, Taken(r), calls + 1, TRUE)
  /\ UNCHANGED <<stage, text, batch, pos, error, applied, faults>>

\* The payload is the last one of its batch: _apply_mapping.  The checkpoint
\* counts a batch at once, those of an asynchronous batch all at the end.
BatchDone(r) ==
  /\ stage \in Working /\ Incomplete(Taken(r)) = {} /\ rest = {}
  /\ text' = TextWith(Taken(r)) /\ applied' = AppliedWith(Taken(r))
  /\ \/ /\ stage = "batches" \/ (stage = "chunks" /\ Remaining(pos + 1) = {})
        /\ pos' = pos + 1 /\ batch' = pos + 1
        /\ stage' = "progress" /\ NoBatch
     \/ /\ stage = "chunks" /\ Remaining(pos + 1) # {}
        /\ pos' = pos + 1
        /\ Ask(BatchOf(pos + 2), {}, Nothing, 1, FALSE)
        /\ UNCHANGED <<stage, batch>>
     \/ /\ stage = "reading"
        /\ stage' = "done" /\ NoBatch /\ UNCHANGED <<pos, batch>>
  /\ UNCHANGED <<error, faults>>

\* A targeted repair: the incomplete cues are asked for again.
Repair(r) ==
  /\ stage \in Working /\ Incomplete(Taken(r)) # {} /\ tries < MaxTries
  /\ got' = Taken(r) /\ asked' = Incomplete(Taken(r))
  /\ tries' = tries + 1 /\ sent' = TRUE /\ calls' = calls + 1
  /\ UNCHANGED <<stage, text, batch, pos, now, rest, error, applied, faults>>

Without(p) == [c \in Cues |-> IF c \in p THEN "missing" ELSE got[c]]

\* Mutant: the right half starts one cue early.
ShrinkOverlapping(r) ==
  /\ stage \in Working /\ Incomplete(Taken(r)) # {} /\ tries = MaxTries
  /\ Cardinality(now) > 1
  /\ Ask(Lower(now),
         rest \cup {{c \in now : \E d \in now \ Lower(now) : c >= d - 1}},
         Without(now), calls + 1, TRUE)
  /\ UNCHANGED <<stage, text, batch, pos, error, applied, faults>>

\* The repairs are used up: the payload is split, and the halves start afresh.
Shrink(r) ==
  /\ stage \in Working /\ Incomplete(Taken(r)) # {} /\ tries = MaxTries
  /\ Cardinality(now) > 1
  /\ Ask(Lower(now), rest \cup {now \ Lower(now)}, Without(now), calls + 1, TRUE)
  /\ UNCHANGED <<stage, text, batch, pos, error, applied, faults>>

\* A single cue that cannot be had: _validation_error, which is not retryable.
Reject(r) ==
  /\ stage \in Working /\ Incomplete(Taken(r)) # {} /\ tries = MaxTries
  /\ Cardinality(now) = 1
  /\ stage' = "raised" /\ error' = "fatal" /\ NoBatch
  /\ UNCHANGED <<text, batch, pos, applied, faults>>

\* The provider raises.  Only the requests of the batches are within the try
\* that turns a retryable error into one that carries the checkpoint.
RequestFails(kind) ==
  /\ stage = "poll" \/ (stage \in Working /\ sent)
  /\ error' = IF kind = "refused" THEN "fatal"
              ELSE IF kind = "transient" /\ stage # "reading" THEN "retryable"
              ELSE "technical"
  /\ faults' = IF kind = "refused" THEN faults ELSE faults \cup {<<kind, stage>>}
  /\ stage' = "raised" /\ NoBatch
  /\ UNCHANGED <<text, batch, pos, applied>>

Answered ==
  \E r \in [asked -> Texts] : NextHalf(r) \/ BatchDone(r) \/ Repair(r) \/ Shrink(r) \/ Reject(r)
Failed == \E kind \in Failures : RequestFails(kind)
=============================================================================
