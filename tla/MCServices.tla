----------------------------- MODULE MCServices -----------------------------
(* Small instances of the services around the jobs, one run for all: a     *)
(* behaviour is a behaviour of one of them, the others rest.               *)
EXTENDS ProviderUsage, ModelPools, Catalogue, OperatorChat, SpeechText, EventBus

VARIABLE part

ServicesTypeOK ==
  UsTypeOK /\ PoTypeOK /\ CaTypeOK /\ OpTypeOK /\ StTypeOK /\ EvTypeOK

ServicesInit ==
  /\ part \in {"usage", "pools", "catalogue", "chat", "speech", "events"}
  /\ UsInit /\ PoInit /\ CaInit /\ OpInit /\ StInit /\ EvInit
  /\ part # "pools" => poSettings.model = CHOOSE m \in PoModels : TRUE
  /\ part # "speech" => stLen = CHOOSE l \in StLengths : TRUE

ServicesNext ==
  /\ UNCHANGED part
  /\ \/ part = "usage" /\ UsNext /\ UNCHANGED <<poVars, caVars, opVars, stVars, evVars>>
     \/ part = "pools" /\ PoNext /\ UNCHANGED <<usVars, caVars, opVars, stVars, evVars>>
     \/ part = "catalogue" /\ CaNext /\ UNCHANGED <<usVars, poVars, opVars, stVars, evVars>>
     \/ part = "chat" /\ OpNext /\ UNCHANGED <<usVars, poVars, caVars, stVars, evVars>>
     \/ part = "speech" /\ StNext /\ UNCHANGED <<usVars, poVars, caVars, opVars, evVars>>
     \/ part = "events" /\ EvNext /\ UNCHANGED <<usVars, poVars, caVars, opVars, stVars>>

ServicesSpec ==
  /\ ServicesInit
  /\ [][ServicesNext]_<<part, usVars, poVars, caVars, opVars, stVars, evVars>>
-----------------------------------------------------------------------------
\* What the services keep has its type, and no browser is shown a stream with
\* a hole in it.
ServicesSafe == ServicesTypeOK /\ EvSafe
=============================================================================
