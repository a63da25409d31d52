------------------------------- MODULE MCMedia -------------------------------
(* Small instances of the components that work on media files, and of the  *)
(* voices a dub uses, one run for all: a behaviour is a behaviour of one.  *)
EXTENDS Extraction, Separation, DubJob, TranscribeJob, VoiceLibrary, Sequences

VARIABLE part

MediaSome == {m \in SepMedias : m.wav => m.stream = "none"}

\* The cue in the middle has a speaker label, the others are matched by their
\* voices: one clip is awaited under the write lock, one with a cast that is
\* partly committed.
MediaLabel == <<VlNobody, "a", VlNobody>>

MediaTypeOK == ExTypeOK /\ SepTypeOK /\ DubTypeOK /\ TrTypeOK /\ VlTypeOK

MediaInit ==
  /\ part \in {"extraction", "separation", "dub", "transcription", "voices"}
  /\ ExInit /\ SepInit /\ DubInit /\ TrInit /\ VlInit

MediaNext ==
  /\ UNCHANGED part
  /\ \/ part = "extraction" /\ ExNext /\ UNCHANGED <<sepVars, dubVars, trVars, vlVars>>
     \/ part = "separation" /\ SepNext /\ UNCHANGED <<exVars, dubVars, trVars, vlVars>>
     \/ part = "dub" /\ DubNext /\ UNCHANGED <<exVars, sepVars, trVars, vlVars>>
     \/ part = "transcription" /\ TrNext /\ UNCHANGED <<exVars, sepVars, dubVars, vlVars>>
     \/ part = "voices" /\ VlNext /\ UNCHANGED <<exVars, sepVars, dubVars, trVars>>

MediaSpec == MediaInit /\ [][MediaNext]_<<part, exVars, sepVars, dubVars, trVars, vlVars>>
                       /\ ExFair /\ DubFair /\ TrFair /\ VlFair
-----------------------------------------------------------------------------
\* Every job, every thread and every analysis of a voice comes to an end,
\* although a process may not obey, a thread cannot be interrupted and threads
\* wait for each other's locks.
MediaEnds == ExEndsEventually /\ DubEnds /\ TrEnds /\ VlEnds
=============================================================================
