------------------------------ MODULE EventBus ------------------------------
(***************************************************************************)
(* The live events of the web interface (core/events.py): streams subscribe *)
(* a queue each, and every handler and thread that changes a job or a task  *)
(* publishes into all of them.  asyncio.Queue is not made for threads: the  *)
(* look whether a queue is full and the append are two steps, and another   *)
(* publisher or the reader may come in between.                             *)
(***************************************************************************)
EXTENDS Naturals, FiniteSets

CONSTANTS
  EvStreams,     \* event streams of browsers
  EvPublishers,  \* the event loop and the threads that publish
  EvMax          \* maxsize of a queue (64)

EvNobody == "nobody"
ASSUME EvAssumption ==
  /\ EvMax \in Nat \ {0} /\ EvNobody \notin EvStreams
  /\ IsFiniteSet(EvPublishers) /\ EvPublishers # {}

VARIABLES
  evBus,     \* _subscribers
  evStream,  \* off, open, or gone without its generator ever having run
  evLength,  \* events in each queue
  evPub,     \* each publisher's place in publish()
  evMissed   \* the stream was refused an event (history)

evVars == <<evBus, evStream, evLength, evPub, evMissed>>

EvIdle == [busy |-> FALSE, left |-> {}, stale |-> {}, put |-> EvNobody]
EvTypeOK ==
  /\ evBus \subseteq EvStreams
  /\ evStream \in [EvStreams -> {"off", "open", "gone"}]
  /\ evLength \in [EvStreams -> Nat]
  /\ evPub \in [EvPublishers -> [busy : BOOLEAN, left : SUBSET EvStreams,
                                 stale : SUBSET EvStreams, put : EvStreams \cup {EvNobody}]]
  /\ evMissed \in [EvStreams -> BOOLEAN]

EvInit ==
  /\ evBus = {} /\ evStream = [s \in EvStreams |-> "off"]
  /\ evLength = [s \in EvStreams |-> 0]
  /\ evPub = [p \in EvPublishers |-> EvIdle]
  /\ evMissed = [s \in EvStreams |-> FALSE]
-----------------------------------------------------------------------------
EvSubscribe(s) ==   \* with its "hello"
  /\ evStream[s] = "off"
  /\ \A p \in EvPublishers : s \notin evPub[p].left \cup evPub[p].stale \cup {evPub[p].put}
  /\ evStream' = [evStream EXCEPT ![s] = "open"] /\ evBus' = evBus \cup {s}
  /\ evLength' = [evLength EXCEPT ![s] = 1] /\ evMissed' = [evMissed EXCEPT ![s] = FALSE]
  /\ UNCHANGED evPub

EvRead(s) ==
  /\ evStream[s] = "open" /\ evLength[s] > 0
  /\ evLength' = [evLength EXCEPT ![s] = @ - 1]
  /\ UNCHANGED <<evBus, evStream, evPub, evMissed>>

EvClose(s) ==   \* the generator's finally
  /\ evStream[s] = "open"
  /\ evStream' = [evStream EXCEPT ![s] = "off"] /\ evBus' = evBus \ {s}
  /\ UNCHANGED <<evLength, evPub, evMissed>>

EvLost(s) ==   \* the browser leaves before the generator starts: no finally runs
  /\ evStream[s] = "open"
  /\ evStream' = [evStream EXCEPT ![s] = "gone"]
  /\ UNCHANGED <<evBus, evLength, evPub, evMissed>>
-----------------------------------------------------------------------------
EvPublish(p) ==
  /\ ~evPub[p].busy
  /\ evPub' = [evPub EXCEPT ![p] = [EvIdle EXCEPT !.busy = TRUE, !.left = evBus]]
  /\ UNCHANGED <<evBus, evStream, evLength, evMissed>>

EvOffer(p, s) ==
  /\ evPub[p].put = EvNobody /\ s \in evPub[p].left
  /\ LET full == evLength[s] >= EvMax
     IN /\ evPub' = [evPub EXCEPT ![p].left = @ \ {s},
                                  ![p].stale = IF full THEN @ \cup {s} ELSE @,
                                  ![p].put = IF full THEN EvNobody ELSE s]
        /\ evMissed' = [evMissed EXCEPT ![s] = @ \/ full]
  /\ UNCHANGED <<evBus, evStream, evLength>>

EvPut(p) ==
  /\ evPub[p].put # EvNobody
  /\ evLength' = [evLength EXCEPT ![evPub[p].put] = @ + 1]
  /\ evPub' = [evPub EXCEPT ![p].put = EvNobody]
  /\ UNCHANGED <<evBus, evStream, evMissed>>

\* Mutant: a full queue is passed over.
EvPassOver(p) ==
  /\ evPub[p].busy /\ evPub[p].left = {} /\ evPub[p].put = EvNobody
  /\ evPub' = [evPub EXCEPT ![p] = EvIdle]
  /\ UNCHANGED <<evBus, evStream, evLength, evMissed>>

EvDrop(p) ==   \* queues that were full are no longer subscribers
  /\ evPub[p].busy /\ evPub[p].left = {} /\ evPub[p].put = EvNobody
  /\ evBus' = evBus \ evPub[p].stale
  /\ evPub' = [evPub EXCEPT ![p] = EvIdle]
  /\ UNCHANGED <<evStream, evLength, evMissed>>

EvNext ==
  \/ \E s \in EvStreams : EvSubscribe(s) \/ EvRead(s) \/ EvClose(s) \/ EvLost(s)
  \/ \E p \in EvPublishers : \/ EvPublish(p) \/ EvPut(p) \/ EvDrop(p)
                             \/ \E s \in EvStreams : EvOffer(p, s)
EvSpec == EvInit /\ [][EvNext]_evVars
-----------------------------------------------------------------------------
\* A stream that was refused an event is not a subscriber any more once the
\* publish that was refused returns, so that it never shows later events as if
\* there had been none; and a queue that nobody reads does not grow by more
\* than what publishers that looked at the same time have put.
EvSafe ==
  \A s \in evBus :
    /\ evMissed[s] => \E p \in EvPublishers : s \in evPub[p].stale
    /\ evLength[s] <= EvMax + Cardinality(EvPublishers) - 1
=============================================================================
