-------------------------- MODULE SharedMemory_proof --------------------------
(***************************************************************************)
(* The safety of one cross-process measurement, for every number of round  *)
(* trips, every warm-up and every set of faults.  Inv is inductive; the    *)
(* properties of SharedMemory are parts of it, and RoundTrips is           *)
(* implemented step by step from it.                                       *)
(***************************************************************************)
EXTENDS SharedMemory, TLAPS

\* The initial states satisfy the invariant.
LEMMA InitInv == ASSUME Init PROVE Inv
  <1>1. BooleansOK BY DEF Init, BooleansOK
  <1>2. ValuesOK
    BY ArgumentsAssumption, FaultsAssumption DEF Init, ValuesOK, ProducerPlaces, ConsumerPlaces, Errors
  <1>3. HeldAt /\ ConsumerAtPlace /\ ErrAt /\ ProgressAt
    BY DEF Init, HeldAt, ConsumerAtPlace, ErrAt, ProgressAt, BeforeFork, Running, Stopping
  <1>4. Handshake
    BY DEF Init, Handshake, Posted, InHand, Answered, Outstanding, ConsumerRuns
  <1>5. ResultCoherent BY DEF Init, ResultCoherent
  <1> QED BY <1>1, <1>2, <1>3, <1>4, <1>5 DEF Inv, TypeOK, Placed

\* The booleans stay booleans through every step of measure_cross_process.
LEMMA ProducerBooleans == ASSUME BooleansOK, ProducerStep PROVE BooleansOK'
  <1> USE DEF BooleansOK, inputs, flags, result, progress, consumer
  <1>1. CASE RejectCounts BY <1>1 DEF RejectCounts, ReturnError
  <1>2. CASE CheckCpus BY <1>2 DEF CheckCpus, ReturnError, Advance
  <1>3. CASE OpenSegment BY <1>3 DEF OpenSegment, ReturnError, Advance
  <1>4. CASE Truncate BY <1>4 DEF Truncate, ReturnError, Advance
  <1>5. CASE MapView BY <1>5 DEF MapView, ReturnError, Advance
  <1>6. CASE Fork BY <1>6 DEF Fork, StartConsumer, ReturnError
  <1>7. CASE PollReady BY <1>7 DEF PollReady, Poll
  <1>8. CASE PollResponse BY <1>8 DEF PollResponse, Poll
  <1>9. CASE ProducerGivesUp BY <1>9 DEF ProducerGivesUp, WaitFails
  <1>10. CASE PostRequest BY <1>10 DEF PostRequest, RoundTripsLeft
  <1>11. CASE Ack BY <1>11 DEF Ack
  <1>12. CASE LoopDone BY <1>12 DEF LoopDone, RoundTripsLeft
  <1>13. CASE ReserveSamples BY <1>13 DEF ReserveSamples, Advance, Throw, Adopted
  <1>14. CASE StoreStop BY <1>14 DEF StoreStop
  <1>15. CASE ReapPoll BY <1>15 DEF ReapPoll, Reap, ConsumerRuns
  <1>16. CASE KillConsumer BY <1>16 DEF KillConsumer
  <1>17. CASE ReapKilled BY <1>17 DEF ReapKilled, Reap, ConsumerRuns
  <1>18. CASE Release BY <1>18 DEF Release
  <1>19. CASE NamingThrows BY <1>19 DEF NamingThrows, Throw
  <1>20. CASE WaitThrows BY <1>20 DEF WaitThrows, Throw
  <1>21. CASE SummarizeThrows BY <1>21 DEF SummarizeThrows
  <1> QED
    BY <1>1, <1>2, <1>3, <1>4, <1>5, <1>6, <1>7, <1>8, <1>9, <1>10, <1>11, <1>12,
       <1>13, <1>14, <1>15, <1>16, <1>17, <1>18, <1>19, <1>20, <1>21 DEF ProducerStep

\* The same of every step of consumer_loop.
LEMMA ConsumerBooleans == ASSUME BooleansOK, ConsumerStep PROVE BooleansOK'
  <1> USE DEF BooleansOK, inputs, flags, result, progress, consumer
  <1>1. CASE Pin BY <1>1 DEF Pin, ConsumerAt, ExitPlace
  <1>2. CASE Publish BY <1>2 DEF Publish, ConsumerAt
  <1>3. CASE CheckStop BY <1>3 DEF CheckStop, ConsumerAt, ExitPlace
  <1>4. CASE PollRequest BY <1>4 DEF PollRequest, ConsumerAt
  <1>5. CASE PollStop BY <1>5 DEF PollStop, ConsumerAt, ExitPlace
  <1>6. CASE ConsumerTimeout BY <1>6 DEF ConsumerTimeout, ConsumerAt, ExitPlace
  <1>7. CASE Clear BY <1>7 DEF Clear, ConsumerAt
  <1>8. CASE Answer BY <1>8 DEF Answer, ConsumerAt
  <1>9. CASE ConsumerThrows BY <1>9 DEF ConsumerThrows, ConsumerAt, ExitPlace
  <1> QED
    BY <1>1, <1>2, <1>3, <1>4, <1>5, <1>6, <1>7, <1>8, <1>9 DEF ConsumerStep

\* They keep them, and so do all the others, when an exception leaves the call.
LEMMA ThrowValues ==
  ASSUME ValuesOK, NEW place \in Thrown, Throw(place)
  PROVE  ValuesOK'
  <1> USE DEF ValuesOK, ProducerPlaces, ConsumerPlaces, Errors, inputs, flags, result, progress
  <1>1. /\ ppc' = place /\ held' = held \ {"view"} /\ cpc' = Adopted
        /\ UNCHANGED <<inputs, alive, pSpun, progress, result, cSpun, sigkill, flags>>
    BY DEF Throw
  <1>2. Adopted \in ConsumerPlaces BY DEF Adopted
  <1>3. held \ {"view"} \subseteq {"fd", "view", "name"} OBVIOUS
  <1>4. place \in ProducerPlaces BY DEF Thrown
  <1> QED BY <1>1, <1>2, <1>3, <1>4

\* Places, counts, messages and flags keep their types in measure_cross_process.
LEMMA ProducerValues == ASSUME ValuesOK, ProducerStep PROVE ValuesOK'
  <1> USE DEF ValuesOK, ProducerPlaces, ConsumerPlaces, Errors, inputs, flags, result, progress, consumer
  <1>1. CASE RejectCounts BY <1>1 DEF RejectCounts, ReturnError
  <1>2. CASE CheckCpus
    <2>1. CASE ReturnError("cpus", held) BY <1>2, <2>1 DEF CheckCpus, ReturnError, Advance
    <2>2. CASE Advance("open", held) BY <1>2, <2>2 DEF CheckCpus, ReturnError, Advance
    <2> QED BY <1>2, <2>1, <2>2 DEF CheckCpus
  <1>3. CASE OpenSegment
    <2>1. CASE Advance("truncate", {"fd", "name"})
      BY <1>3, <2>1 DEF OpenSegment, ReturnError, Advance
    <2>2. CASE ReturnError("shm_open", {})
      BY <1>3, <2>2 DEF OpenSegment, ReturnError, Advance
    <2> QED BY <1>3, <2>1, <2>2 DEF OpenSegment
  <1>4. CASE Truncate
    <2>1. CASE Advance("map", held) BY <1>4, <2>1 DEF Truncate, ReturnError, Advance
    <2>2. CASE ReturnError("ftruncate", held \ {"fd", "name"})
      BY <1>4, <2>2 DEF Truncate, ReturnError, Advance
    <2> QED BY <1>4, <2>1, <2>2 DEF Truncate
  <1>5. CASE MapView
    <2>1. CASE Advance("fork", (held \ {"fd"}) \union {"view"})
      BY <1>5, <2>1 DEF MapView, ReturnError, Advance
    <2>2. CASE ReturnError("mmap", held \ {"fd", "name"})
      BY <1>5, <2>2 DEF MapView, ReturnError, Advance
    <2> QED BY <1>5, <2>1, <2>2 DEF MapView
  <1>6. CASE Fork
    <2>1. CASE StartConsumer BY <1>6, <2>1 DEF Fork, StartConsumer, ReturnError
    <2>2. CASE ReturnError("fork", held \ {"view", "name"})
      BY <1>6, <2>2 DEF Fork, StartConsumer, ReturnError
    <2> QED BY <1>6, <2>1, <2>2 DEF Fork
  <1>7. CASE PollReady BY <1>7 DEF PollReady, Poll
  <1>8. CASE PollResponse BY <1>8 DEF PollResponse, Poll
  <1>9. CASE ProducerGivesUp BY <1>9 DEF ProducerGivesUp, WaitFails
  <1>10. CASE PostRequest BY <1>10 DEF PostRequest, RoundTripsLeft
  <1>11. CASE Ack BY <1>11 DEF Ack
  <1>12. CASE LoopDone BY <1>12 DEF LoopDone, RoundTripsLeft
  <1>13. CASE ReserveSamples
    <2>1. CASE Advance("measure", held) BY <1>13, <2>1 DEF ReserveSamples, Advance
    <2>2. CASE Throw("thrown") BY <2>2, ThrowValues DEF Thrown
    <2> QED BY <1>13, <2>1, <2>2 DEF ReserveSamples
  <1>14. CASE StoreStop BY <1>14 DEF StoreStop
  <1>15. CASE ReapPoll
    <2>1. CASE Reap BY <1>15, <2>1, SMTT(30) DEF ReapPoll, Reap
    <2>2. CASE UNCHANGED <<ppc, progress, result, held, cpc, flags, inputs>>
      BY <1>15, <2>2, SMTT(30) DEF ReapPoll
    <2> QED BY <1>15, <2>1, <2>2 DEF ReapPoll
  <1>16. CASE KillConsumer BY <1>16 DEF KillConsumer
  <1>17. CASE ReapKilled BY <1>17 DEF ReapKilled, Reap, ConsumerRuns
  <1>18. CASE Release
    <2>1. CASE samples = 0 BY <1>18, <2>1, SMTT(30) DEF Release
    <2>2. CASE samples # 0 BY <1>18, <2>2, SMTT(30) DEF Release
    <2> QED BY <2>1, <2>2
  <1>19. CASE NamingThrows
    <2>1. Throw("thrown") BY <1>19 DEF NamingThrows
    <2> QED BY <2>1, ThrowValues DEF Thrown
  <1>20. CASE WaitThrows
    <2>1. PICK place \in Thrown : Throw(place) BY <1>20 DEF WaitThrows, Thrown
    <2> QED BY <2>1, ThrowValues
  <1>21. CASE SummarizeThrows BY <1>21, SMTT(30) DEF SummarizeThrows
  <1> QED
    BY <1>1, <1>2, <1>3, <1>4, <1>5, <1>6, <1>7, <1>8, <1>9, <1>10, <1>11, <1>12,
       <1>13, <1>14, <1>15, <1>16, <1>17, <1>18, <1>19, <1>20, <1>21 DEF ProducerStep

\* The same in consumer_loop.
LEMMA ConsumerValues == ASSUME ValuesOK, ConsumerStep PROVE ValuesOK'
  <1> USE DEF ValuesOK, ConsumerPlaces, inputs, flags, result, progress, consumer
  <1>1. CASE Pin
    <2>1. CASE ConsumerAt("pin", "publish") BY <1>1, <2>1 DEF Pin, ConsumerAt, ExitPlace
    <2>2. CASE ConsumerAt("pin", ExitPlace) BY <1>1, <2>2 DEF Pin, ConsumerAt, ExitPlace
    <2> QED BY <1>1, <2>1, <2>2 DEF Pin
  <1>2. CASE Publish BY <1>2 DEF Publish, ConsumerAt
  <1>3. CASE CheckStop BY <1>3 DEF CheckStop, ConsumerAt, ExitPlace
  <1>4. CASE PollRequest BY <1>4 DEF PollRequest, ConsumerAt
  <1>5. CASE PollStop BY <1>5 DEF PollStop, ConsumerAt, ExitPlace
  <1>6. CASE ConsumerTimeout BY <1>6 DEF ConsumerTimeout, ConsumerAt, ExitPlace
  <1>7. CASE Clear BY <1>7 DEF Clear, ConsumerAt
  <1>8. CASE Answer BY <1>8 DEF Answer, ConsumerAt
  <1>9. CASE ConsumerThrows BY <1>9 DEF ConsumerThrows, ConsumerAt, ExitPlace
  <1> QED
    BY <1>1, <1>2, <1>3, <1>4, <1>5, <1>6, <1>7, <1>8, <1>9 DEF ConsumerStep

\* What is true at each place of measure_cross_process is true at the next place.
LEMMA ProducerPlaced == ASSUME ValuesOK, Placed, ProducerStep PROVE Placed'
  <1> USE ArgumentsAssumption
          DEF ValuesOK, ProducerPlaces, ConsumerPlaces, Errors, Placed, HeldAt, ConsumerAtPlace,
              ErrAt, ProgressAt, Handshake, BeforeFork, Running, Stopping, Posted, InHand,
              Answered, Outstanding, ConsumerRuns, inputs, flags, result, progress, consumer
  <1>1. CASE RejectCounts BY <1>1 DEF RejectCounts, ReturnError
  <1>2. CASE CheckCpus BY <1>2 DEF CheckCpus, ReturnError, Advance
  <1>3. CASE OpenSegment
    <2>1. CASE Advance("truncate", {"fd", "name"})
      BY <1>3, <2>1 DEF OpenSegment, ReturnError, Advance
    <2>2. CASE ReturnError("shm_open", {})
      BY <1>3, <2>2 DEF OpenSegment, ReturnError, Advance
    <2> QED BY <1>3, <2>1, <2>2 DEF OpenSegment
  <1>4. CASE Truncate
    <2>1. CASE Advance("map", held) BY <1>4, <2>1 DEF Truncate, ReturnError, Advance
    <2>2. CASE ReturnError("ftruncate", held \ {"fd", "name"})
      BY <1>4, <2>2 DEF Truncate, ReturnError, Advance
    <2> QED BY <1>4, <2>1, <2>2 DEF Truncate
  <1>5. CASE MapView
    <2>1. CASE Advance("fork", (held \ {"fd"}) \union {"view"})
      BY <1>5, <2>1 DEF MapView, ReturnError, Advance
    <2>2. CASE ReturnError("mmap", held \ {"fd", "name"})
      BY <1>5, <2>2 DEF MapView, ReturnError, Advance
    <2> QED BY <1>5, <2>1, <2>2 DEF MapView
  <1>6. CASE Fork
    <2>1. CASE StartConsumer BY <1>6, <2>1 DEF Fork, StartConsumer, ReturnError
    <2>2. CASE ReturnError("fork", held \ {"view", "name"})
      BY <1>6, <2>2 DEF Fork, StartConsumer, ReturnError
    <2> QED BY <1>6, <2>1, <2>2 DEF Fork
  <1>7. CASE PollReady BY <1>7 DEF PollReady, Poll
  <1>8. CASE PollResponse BY <1>8 DEF PollResponse, Poll
  <1>9. CASE ProducerGivesUp BY <1>9 DEF ProducerGivesUp, WaitFails
  <1>10. CASE PostRequest BY <1>10 DEF PostRequest, RoundTripsLeft
  <1>11. CASE Ack BY <1>11 DEF Ack
  <1>12. CASE LoopDone BY <1>12 DEF LoopDone, RoundTripsLeft
  <1>13. CASE ReserveSamples
    <2>1. CASE Advance("measure", held) BY <1>13, <2>1 DEF ReserveSamples, Advance, Adopted
    <2>2. CASE Throw("thrown") BY <1>13, <2>2 DEF ReserveSamples, Throw, Adopted
    <2> QED BY <1>13, <2>1, <2>2 DEF ReserveSamples
  <1>14. CASE StoreStop BY <1>14 DEF StoreStop
  <1>15. CASE ReapPoll
    <2>1. CASE Reap BY <1>15, <2>1, SMTT(30) DEF ReapPoll, Reap
    <2>2. CASE UNCHANGED <<ppc, progress, result, held, cpc, flags, inputs>>
      BY <1>15, <2>2, SMTT(30) DEF ReapPoll
    <2> QED BY <1>15, <2>1, <2>2 DEF ReapPoll
  <1>16. CASE KillConsumer BY <1>16 DEF KillConsumer
  <1>17. CASE ReapKilled BY <1>17 DEF ReapKilled, Reap, ConsumerRuns
  <1>18. CASE Release
    <2>1. CASE samples = 0 BY <1>18, <2>1, SMTT(30) DEF Release
    <2>2. CASE samples # 0 BY <1>18, <2>2, SMTT(30) DEF Release
    <2> QED BY <2>1, <2>2
  <1>19. CASE NamingThrows BY <1>19 DEF NamingThrows, Throw, Adopted
  <1>20. CASE WaitThrows BY <1>20 DEF WaitThrows, Throw, Adopted
  <1>21. CASE SummarizeThrows BY <1>21 DEF SummarizeThrows
  <1> QED
    BY <1>1, <1>2, <1>3, <1>4, <1>5, <1>6, <1>7, <1>8, <1>9, <1>10, <1>11, <1>12,
       <1>13, <1>14, <1>15, <1>16, <1>17, <1>18, <1>19, <1>20, <1>21 DEF ProducerStep

\* consumer_loop moves the one round trip there is, and disturbs nothing else.
LEMMA ConsumerPlaced == ASSUME ValuesOK, Placed, ConsumerStep PROVE Placed'
  <1> USE ArgumentsAssumption
          DEF ValuesOK, ProducerPlaces, ConsumerPlaces, Errors, Placed, HeldAt, ConsumerAtPlace,
              ErrAt, ProgressAt, Handshake, BeforeFork, Running, Stopping, Posted, InHand,
              Answered, Outstanding, ConsumerRuns, inputs, flags, result, progress, consumer
  <1>1. CASE Pin
    <2>1. CASE ConsumerAt("pin", "publish") BY <1>1, <2>1 DEF Pin, ConsumerAt, ExitPlace
    <2>2. CASE ConsumerAt("pin", ExitPlace) BY <1>1, <2>2 DEF Pin, ConsumerAt, ExitPlace
    <2> QED BY <1>1, <2>1, <2>2 DEF Pin
  <1>2. CASE Publish BY <1>2 DEF Publish, ConsumerAt
  <1>3. CASE CheckStop BY <1>3 DEF CheckStop, ConsumerAt, ExitPlace
  <1>4. CASE PollRequest BY <1>4 DEF PollRequest, ConsumerAt
  <1>5. CASE PollStop BY <1>5 DEF PollStop, ConsumerAt, ExitPlace
  <1>6. CASE ConsumerTimeout BY <1>6 DEF ConsumerTimeout, ConsumerAt, ExitPlace
  <1>7. CASE Clear BY <1>7 DEF Clear, ConsumerAt
  <1>8. CASE Answer BY <1>8 DEF Answer, ConsumerAt
  <1>9. CASE ConsumerThrows BY <1>9 DEF ConsumerThrows, ConsumerAt, ExitPlace
  <1> QED
    BY <1>1, <1>2, <1>3, <1>4, <1>5, <1>6, <1>7, <1>8, <1>9 DEF ConsumerStep

\* The result record is only ever written so that it agrees with the round trips made.
LEMMA ProducerResult == ASSUME ValuesOK, Placed, ResultCoherent, ProducerStep PROVE ResultCoherent'
  <1> USE ArgumentsAssumption
          DEF ValuesOK, Placed, ErrAt, ProgressAt, BeforeFork, Running, Stopping,
              ResultCoherent, inputs, flags, result, progress, consumer
  <1>1. CASE RejectCounts BY <1>1 DEF RejectCounts, ReturnError
  <1>2. CASE CheckCpus
    <2>1. CASE ReturnError("cpus", held) BY <1>2, <2>1 DEF CheckCpus, ReturnError, Advance
    <2>2. CASE Advance("open", held) BY <1>2, <2>2 DEF CheckCpus, ReturnError, Advance
    <2> QED BY <1>2, <2>1, <2>2 DEF CheckCpus
  <1>3. CASE OpenSegment
    <2>1. CASE Advance("truncate", {"fd", "name"})
      BY <1>3, <2>1 DEF OpenSegment, ReturnError, Advance
    <2>2. CASE ReturnError("shm_open", {})
      BY <1>3, <2>2 DEF OpenSegment, ReturnError, Advance
    <2> QED BY <1>3, <2>1, <2>2 DEF OpenSegment
  <1>4. CASE Truncate
    <2>1. CASE Advance("map", held) BY <1>4, <2>1 DEF Truncate, ReturnError, Advance
    <2>2. CASE ReturnError("ftruncate", held \ {"fd", "name"})
      BY <1>4, <2>2 DEF Truncate, ReturnError, Advance
    <2> QED BY <1>4, <2>1, <2>2 DEF Truncate
  <1>5. CASE MapView
    <2>1. CASE Advance("fork", (held \ {"fd"}) \union {"view"})
      BY <1>5, <2>1 DEF MapView, ReturnError, Advance
    <2>2. CASE ReturnError("mmap", held \ {"fd", "name"})
      BY <1>5, <2>2 DEF MapView, ReturnError, Advance
    <2> QED BY <1>5, <2>1, <2>2 DEF MapView
  <1>6. CASE Fork
    <2>1. CASE StartConsumer BY <1>6, <2>1 DEF Fork, StartConsumer, ReturnError
    <2>2. CASE ReturnError("fork", held \ {"view", "name"})
      BY <1>6, <2>2 DEF Fork, StartConsumer, ReturnError
    <2> QED BY <1>6, <2>1, <2>2 DEF Fork
  <1>7. CASE PollReady BY <1>7 DEF PollReady, Poll
  <1>8. CASE PollResponse BY <1>8 DEF PollResponse, Poll
  <1>9. CASE ProducerGivesUp BY <1>9 DEF ProducerGivesUp, WaitFails
  <1>10. CASE PostRequest BY <1>10 DEF PostRequest, RoundTripsLeft
  <1>11. CASE Ack BY <1>11 DEF Ack
  <1>12. CASE LoopDone BY <1>12 DEF LoopDone, RoundTripsLeft
  <1>13. CASE ReserveSamples BY <1>13 DEF ReserveSamples, Advance, Throw, Adopted
  <1>14. CASE StoreStop BY <1>14 DEF StoreStop
  <1>15. CASE ReapPoll
    <2>1. CASE Reap BY <1>15, <2>1, SMTT(30) DEF ReapPoll, Reap
    <2>2. CASE UNCHANGED <<ppc, progress, result, held, cpc, flags, inputs>>
      BY <1>15, <2>2, SMTT(30) DEF ReapPoll
    <2> QED BY <1>15, <2>1, <2>2 DEF ReapPoll
  <1>16. CASE KillConsumer BY <1>16 DEF KillConsumer
  <1>17. CASE ReapKilled BY <1>17 DEF ReapKilled, Reap, ConsumerRuns
  <1>18. CASE Release BY <1>18 DEF Release
  <1>19. CASE NamingThrows BY <1>19 DEF NamingThrows, Throw, Adopted
  <1>20. CASE WaitThrows BY <1>20 DEF WaitThrows, Throw, Adopted
  <1>21. CASE SummarizeThrows BY <1>21 DEF SummarizeThrows
  <1> QED
    BY <1>1, <1>2, <1>3, <1>4, <1>5, <1>6, <1>7, <1>8, <1>9, <1>10, <1>11, <1>12,
       <1>13, <1>14, <1>15, <1>16, <1>17, <1>18, <1>19, <1>20, <1>21 DEF ProducerStep

\* Everything but the producer and a crash of it leaves the producer as it was.
LEMMA ConsumerFrame ==
  ASSUME ConsumerStep \/ SigkillDelivered \/ ConsumerCrash
  PROVE  UNCHANGED <<inputs, alive, ppc, pSpun, progress, result, held, sigkill>>
  BY DEF ConsumerStep, SigkillDelivered, ConsumerCrash, Die, ConsumerAt, Pin, Publish,
         CheckStop, PollRequest, PollStop, ConsumerTimeout, ConsumerThrows, Clear, Answer

\* What the environment does to either process: kill it.
LEMMA KilledInv ==
  ASSUME Inv, SigkillDelivered \/ ConsumerCrash \/ ProducerCrash
  PROVE  Inv'
  <1> USE DEF Inv, TypeOK
  <1>1. CASE SigkillDelivered \/ ConsumerCrash
    <2> USE <1>1 DEF SigkillDelivered, ConsumerCrash, Die, ConsumerAt, ExitPlace, ConsumerRuns,
                     inputs, flags, result, progress
    <2>1. BooleansOK' BY DEF BooleansOK
    <2>2. ValuesOK' BY DEF ValuesOK, ConsumerPlaces
    <2>3. (HeldAt /\ ErrAt /\ ProgressAt)'
      BY DEF Placed, HeldAt, ErrAt, ProgressAt
    <2>4. (ConsumerAtPlace /\ Handshake)'
      BY DEF ValuesOK, Placed, ConsumerAtPlace, Handshake, Posted, InHand, Answered, Outstanding
    <2>5. ResultCoherent' BY DEF ResultCoherent
    <2> QED BY <2>1, <2>2, <2>3, <2>4, <2>5 DEF Placed
  <1>2. CASE ProducerCrash
    <2> USE <1>2 DEF ProducerCrash, ProducerRuns, Adopted, inputs, flags, result, progress
    <2>1. BooleansOK' BY DEF BooleansOK
    <2>2. ValuesOK' BY DEF ValuesOK, ConsumerPlaces
    <2>3. (HeldAt /\ ErrAt /\ ProgressAt)'
      BY DEF Placed, HeldAt, ErrAt, ProgressAt
    <2>4. (ConsumerAtPlace /\ Handshake)'
      BY DEF ValuesOK, Placed, ConsumerAtPlace, Handshake, Posted, InHand, Answered,
             Outstanding, ConsumerRuns
    <2>5. ResultCoherent' BY DEF ResultCoherent
    <2> QED BY <2>1, <2>2, <2>3, <2>4, <2>5 DEF Placed
  <1> QED BY <1>1, <1>2

\* No step breaks the invariant.
LEMMA NextInv == ASSUME Inv, [Next]_vars PROVE Inv'
  <1> USE DEF Inv, TypeOK
  <1>1. CASE ProducerStep
    BY <1>1, ProducerBooleans, ProducerValues, ProducerPlaced, ProducerResult
  <1>2. CASE ConsumerStep
    <2>1. ResultCoherent' BY <1>2, ConsumerFrame DEF ResultCoherent, inputs, progress, result
    <2> QED BY <1>2, <2>1, ConsumerBooleans, ConsumerValues, ConsumerPlaced
  <1>3. CASE SigkillDelivered \/ ConsumerCrash \/ ProducerCrash BY <1>3, KilledInv
  <1>4. CASE UNCHANGED vars
    <2> USE <1>4 DEF vars, inputs, flags, result, progress, consumer
    <2>1. BooleansOK' BY DEF BooleansOK
    <2>2. ValuesOK' BY DEF ValuesOK
    <2>3. Placed'
      BY DEF Placed, HeldAt, ConsumerAtPlace, ErrAt, ProgressAt, Handshake, Posted, InHand,
             Answered, Outstanding, ConsumerRuns
    <2>4. ResultCoherent' BY DEF ResultCoherent
    <2> QED BY <2>1, <2>2, <2>3, <2>4
  <1> QED BY <1>1, <1>2, <1>3, <1>4 DEF Next, Terminated

\* In every reachable state, for every number of round trips, the state of the call
\* agrees with the place measure_cross_process and consumer_loop have reached.
THEOREM Invariance == Spec => []Inv
  <1>1. Init => Inv BY InitInv
  <1>2. Inv /\ [Next]_vars => Inv' BY NextInv
  <1> QED BY <1>1, <1>2, PTL DEF Spec

\* Every variable keeps its type.
THEOREM TypeCorrect == Spec => []TypeOK
  <1>1. Inv => TypeOK BY DEF Inv
  <1> QED BY <1>1, Invariance, PTL

\* The request and response flags never hold more than one round trip, whatever
\* times out or crashes, and an answer is only ever taken for its own request.
THEOREM HandshakeSafe == Spec => []Handshake
  <1>1. Inv => Handshake BY DEF Inv, Placed
  <1> QED BY <1>1, Invariance, PTL

\* A call that returns has released all it took and outlives its consumer.
THEOREM NothingLeftBehind == Spec => []ReleasedOnReturn
  <1>1. Inv => ReleasedOnReturn
    BY DEF Inv, Placed, HeldAt, ConsumerAtPlace, ReleasedOnReturn, BeforeFork, Running, Stopping
  <1> QED BY <1>1, Invariance, PTL

\* The result record agrees with the round trips that were made.
THEOREM ResultsCoherent == Spec => []ResultCoherent
  <1>1. Inv => ResultCoherent BY DEF Inv
  <1> QED BY <1>1, Invariance, PTL

-------------------------------------------------------------------------------
(* The call implements RoundTrips.                                         *)

\* The initial states are initial states of the promise.
LEMMA InitPromise == ASSUME Init PROVE Promise!Init
  BY DEF Init, Promise!Init, taken, Outstanding

\* Every step of the producer is a step of the promise: posting a request, taking
\* an answer, returning; or changes nothing the promise speaks of.
LEMMA ProducerPromise == ASSUME Inv, ProducerStep PROVE [Promise!Next]_(Promise!vars)
  <1> USE ArgumentsAssumption
          DEF Inv, TypeOK, ValuesOK, Placed, ErrAt, ProgressAt, BeforeFork, Running, Stopping,
              Outstanding, taken, Promise!vars, inputs, flags, result, progress, consumer
  <1>1. CASE RejectCounts
    <2>1. Promise!Fail BY <1>1 DEF RejectCounts, ReturnError, Promise!Fail
    <2> QED BY <2>1 DEF Promise!Next
  <1>2. CASE CheckCpus
    <2>1. CASE ReturnError("cpus", held)
      <3>1. Promise!Fail BY <1>2, <2>1 DEF CheckCpus, ReturnError, Promise!Fail
      <3> QED BY <3>1 DEF Promise!Next
    <2>2. CASE Advance("open", held) BY <1>2, <2>2 DEF CheckCpus, Advance
    <2> QED BY <1>2, <2>1, <2>2 DEF CheckCpus
  <1>3. CASE OpenSegment
    <2>1. CASE Advance("truncate", {"fd", "name"}) BY <1>3, <2>1 DEF OpenSegment, Advance
    <2>2. CASE ReturnError("shm_open", {})
      <3>1. Promise!Fail BY <1>3, <2>2 DEF OpenSegment, ReturnError, Promise!Fail
      <3> QED BY <3>1 DEF Promise!Next
    <2> QED BY <1>3, <2>1, <2>2 DEF OpenSegment
  <1>4. CASE Truncate
    <2>1. CASE Advance("map", held) BY <1>4, <2>1 DEF Truncate, Advance
    <2>2. CASE ReturnError("ftruncate", held \ {"fd", "name"})
      <3>1. Promise!Fail BY <1>4, <2>2 DEF Truncate, ReturnError, Promise!Fail
      <3> QED BY <3>1 DEF Promise!Next
    <2> QED BY <1>4, <2>1, <2>2 DEF Truncate
  <1>5. CASE MapView
    <2>1. CASE Advance("fork", (held \ {"fd"}) \union {"view"}) BY <1>5, <2>1 DEF MapView, Advance
    <2>2. CASE ReturnError("mmap", held \ {"fd", "name"})
      <3>1. Promise!Fail BY <1>5, <2>2 DEF MapView, ReturnError, Promise!Fail
      <3> QED BY <3>1 DEF Promise!Next
    <2> QED BY <1>5, <2>1, <2>2 DEF MapView
  <1>6. CASE Fork
    <2>1. CASE StartConsumer BY <1>6, <2>1 DEF Fork, StartConsumer
    <2>2. CASE ReturnError("fork", held \ {"view", "name"})
      <3>1. Promise!Fail BY <1>6, <2>2 DEF Fork, ReturnError, Promise!Fail
      <3> QED BY <3>1 DEF Promise!Next
    <2> QED BY <1>6, <2>1, <2>2 DEF Fork
  <1>7. CASE PollReady BY <1>7 DEF PollReady, Poll
  <1>8. CASE PollResponse BY <1>8 DEF PollResponse, Poll
  <1>9. CASE ProducerGivesUp BY <1>9 DEF ProducerGivesUp, WaitFails
  <1>10. CASE PostRequest
    <2>1. Promise!Post BY <1>10 DEF PostRequest, RoundTripsLeft, Promise!Post
    <2> QED BY <2>1 DEF Promise!Next
  <1>11. CASE Ack
    <2>1. Promise!Take BY <1>11 DEF Ack, Promise!Take, Handshake, Answered
    <2> QED BY <2>1 DEF Promise!Next
  <1>12. CASE LoopDone BY <1>12 DEF LoopDone, RoundTripsLeft
  <1>13. CASE ReserveSamples
    <2>1. CASE Advance("measure", held) BY <1>13, <2>1 DEF ReserveSamples, Advance
    <2>2. CASE Throw("thrown") BY <1>13, <2>2 DEF ReserveSamples, Throw
    <2> QED BY <1>13, <2>1, <2>2 DEF ReserveSamples
  <1>14. CASE StoreStop BY <1>14 DEF StoreStop
  <1>15. CASE ReapPoll BY <1>15 DEF ReapPoll, Reap
  <1>16. CASE KillConsumer BY <1>16 DEF KillConsumer
  <1>17. CASE ReapKilled BY <1>17 DEF ReapKilled, Reap
  <1>18. CASE Release
    <2>1. CASE samples = 0
      <3>1. Promise!Fail BY <1>18, <2>1 DEF Release, Promise!Fail
      <3> QED BY <3>1 DEF Promise!Next
    <2>2. CASE samples # 0
      <3>1. ppc = "release" /\ ppc' = "returned" /\ reported' = samples /\ samples > 0
        BY <1>18, <2>2 DEF Release
      <3>2. success' BY <1>18, <2>2 DEF Release
      <3>3. UNCHANGED <<iterations, warmup, warmed, samples, request, response>>
        BY <1>18 DEF Release
      <3>4. err' = err /\ warmed = warmup
        BY <1>18, <2>2 DEF Release
      <3>5. Promise!Succeed BY <3>1, <3>2, <3>3, <3>4 DEF Promise!Succeed
      <3> QED BY <3>5 DEF Promise!Next
    <2> QED BY <2>1, <2>2
  <1>19. CASE NamingThrows BY <1>19 DEF NamingThrows, Throw
  <1>20. CASE WaitThrows BY <1>20 DEF WaitThrows, Throw
  <1>21. CASE SummarizeThrows BY <1>21 DEF SummarizeThrows
  <1> QED
    BY <1>1, <1>2, <1>3, <1>4, <1>5, <1>6, <1>7, <1>8, <1>9, <1>10, <1>11, <1>12, <1>13, <1>14,
       <1>15, <1>16, <1>17, <1>18, <1>19, <1>20, <1>21 DEF ProducerStep

\* The consumer's one step that the promise sees is its answer; the request it
\* answers is outstanding.
LEMMA ConsumerPromise ==
  ASSUME Inv, ConsumerStep \/ SigkillDelivered \/ ConsumerCrash
  PROVE  [Promise!Next]_(Promise!vars)
  <1> USE ConsumerFrame DEF Outstanding, taken, Promise!vars, inputs, flags, result, progress
  <1>1. CASE Answer
    <2>1. Promise!Answer
      BY <1>1 DEF Inv, TypeOK, ValuesOK, Placed, ConsumerAtPlace, Handshake, InHand, Posted,
                  Answered, Answer, ConsumerAt, Promise!Answer
    <2> QED BY <2>1 DEF Promise!Next
  <1>2. CASE ~Answer
    <2>1. response' = response
      BY <1>2 DEF ConsumerStep, SigkillDelivered, ConsumerCrash, Die, Pin, Publish, CheckStop,
                  PollRequest, PollStop, ConsumerTimeout, ConsumerThrows, Clear
    <2> QED BY <2>1
  <1> QED BY <1>1, <1>2

\* measure_cross_process implements RoundTrips, for every number of round trips and
\* whatever fails: round trips are made one at a time, each answer belongs to the
\* request before it, and what is reported is what was taken.
THEOREM Refinement == Spec => ImplementsRoundTrips
  <1>1. Init => Promise!Init BY InitPromise
  <1>2. Inv /\ [Next]_vars => [Promise!Next]_(Promise!vars)
    <2> SUFFICES ASSUME Inv, [Next]_vars PROVE [Promise!Next]_(Promise!vars)
      OBVIOUS
    <2>1. CASE ProducerStep BY <2>1, ProducerPromise
    <2>2. CASE ConsumerStep \/ SigkillDelivered \/ ConsumerCrash BY <2>2, ConsumerPromise
    <2>3. CASE ProducerCrash
      BY <2>3 DEF ProducerCrash, Promise!vars, Outstanding, taken, inputs, flags, result, progress
    <2>4. CASE UNCHANGED vars
      BY <2>4 DEF vars, Promise!vars, Outstanding, taken, inputs, flags, result, progress
    <2> QED BY <2>1, <2>2, <2>3, <2>4 DEF Next, Terminated
  <1> QED BY <1>1, <1>2, Invariance, PTL DEF Spec, Promise!Spec, ImplementsRoundTrips

-------------------------------------------------------------------------------
(* A call that nothing harms succeeds, if it returns.                      *)

\* What main gets of a call with valid arguments that nothing goes wrong in.
AllReported == success /\ reported = iterations

\* Where nothing fails, nobody is late and nobody is killed, the consumer runs until it is
\* told to stop, and no wait of the producer ends but by what it waits for.
Unharmed ==
  faults = {} =>
    /\ alive /\ ~sigkill
    /\ ppc \in BeforeFork \union Running \union {"stop"} => stop = 0
    /\ ppc \in Running \union {"stop"} => ConsumerRuns
    /\ ppc \notin {"reapKilled"} \union Thrown
    /\ ppc \in Stopping => err = "none"
    /\ ppc = "returned" => err \in {"arguments", "cpus"} \/ AllReported

\* No step of measure_cross_process ends a call but as it should, if nothing fails.
LEMMA UnharmedProducer == ASSUME Inv, Unharmed, ProducerStep PROVE Unharmed'
  <1> USE DEF Inv, TypeOK, ValuesOK, Placed, ErrAt, ProgressAt, Unharmed, AllReported, BeforeFork,
              Running, Stopping, Thrown, ConsumerRuns, inputs, flags, result, progress, consumer
  <1>1. CASE RejectCounts BY <1>1 DEF RejectCounts, ReturnError
  <1>2. CASE CheckCpus BY <1>2 DEF CheckCpus, ReturnError, Advance
  <1>3. CASE OpenSegment BY <1>3 DEF OpenSegment, ReturnError, Advance
  <1>4. CASE Truncate BY <1>4 DEF Truncate, ReturnError, Advance
  <1>5. CASE MapView BY <1>5 DEF MapView, ReturnError, Advance
  <1>6. CASE Fork BY <1>6 DEF Fork, StartConsumer, ReturnError
  <1>7. CASE PollReady BY <1>7 DEF PollReady, Poll
  <1>8. CASE PollResponse BY <1>8 DEF PollResponse, Poll
  <1>9. CASE ProducerGivesUp BY <1>9 DEF ProducerGivesUp, WaitFails
  <1>10. CASE PostRequest BY <1>10 DEF PostRequest, RoundTripsLeft
  <1>11. CASE Ack BY <1>11 DEF Ack
  <1>12. CASE LoopDone BY <1>12 DEF LoopDone, RoundTripsLeft
  <1>13. CASE ReserveSamples BY <1>13 DEF ReserveSamples, Advance, Throw
  <1>14. CASE StoreStop BY <1>14 DEF StoreStop
  <1>15. CASE ReapPoll BY <1>15 DEF ReapPoll, Reap
  <1>16. CASE KillConsumer BY <1>16 DEF KillConsumer
  <1>17. CASE ReapKilled BY <1>17 DEF ReapKilled, Reap
  <1>18. CASE Release BY <1>18 DEF Release
  <1>19. CASE NamingThrows BY <1>19 DEF NamingThrows, Throw
  <1>20. CASE WaitThrows BY <1>20 DEF WaitThrows, Throw
  <1>21. CASE SummarizeThrows BY <1>21 DEF SummarizeThrows
  <1> QED
    BY <1>1, <1>2, <1>3, <1>4, <1>5, <1>6, <1>7, <1>8, <1>9, <1>10, <1>11, <1>12,
       <1>13, <1>14, <1>15, <1>16, <1>17, <1>18, <1>19, <1>20, <1>21 DEF ProducerStep

\* consumer_loop goes on until it sees stop, if nobody is late.
LEMMA UnharmedConsumer == ASSUME Unharmed, ConsumerStep PROVE Unharmed'
  <1>1. UNCHANGED <<inputs, alive, ppc, result, sigkill, stop>>
    BY ConsumerFrame DEF ConsumerStep, Pin, Publish, CheckStop, PollRequest, PollStop,
                         ConsumerTimeout, ConsumerThrows, Clear, Answer, flags
  <1>2. faults = {} /\ ppc \in Running \union {"stop"} => (ConsumerRuns)'
    <2> SUFFICES ASSUME faults = {}, ppc \in Running \union {"stop"} PROVE (ConsumerRuns)'
      OBVIOUS
    <2>1. stop = 0 /\ alive /\ ppc \notin Thrown BY DEF Unharmed
    <2> QED
      BY <2>1 DEF ConsumerStep, ConsumerAt, Pin, Publish, CheckStop, PollRequest, PollStop,
                  ConsumerTimeout, ConsumerThrows, Clear, Answer, ConsumerRuns
  <1> QED
    BY <1>1, <1>2 DEF Unharmed, AllReported, inputs, result

\* Nor does anything else that may happen.
LEMMA UnharmedNext == ASSUME Inv, Unharmed, [Next]_vars PROVE Unharmed'
  <1>1. CASE ProducerStep BY <1>1, UnharmedProducer
  <1>2. CASE ConsumerStep BY <1>2, UnharmedConsumer
  <1>3. CASE SigkillDelivered \/ ConsumerCrash
    <2>1. faults # {} /\ faults' = faults
      BY <1>3, ConsumerFrame DEF Unharmed, SigkillDelivered, ConsumerCrash, inputs
    <2> QED BY <2>1 DEF Unharmed
  <1>4. CASE ProducerCrash BY <1>4 DEF ProducerCrash, Unharmed, inputs
  <1>5. CASE UNCHANGED vars
    BY <1>5 DEF Unharmed, AllReported, ConsumerRuns, vars, inputs, flags, result, progress, consumer
  <1> QED BY <1>1, <1>2, <1>3, <1>4, <1>5 DEF Next, Terminated

\* A call with valid arguments that returns when nothing failed, nobody was late and nobody
\* was killed reports every round trip it was asked for, however the two processes were
\* scheduled.  It is what can be proved of CallSucceeds: all but that the call returns.
THEOREM UnharmedCallsSucceed ==
  Spec => [](faults = {} /\ ppc = "returned" => err \in {"arguments", "cpus"} \/ AllReported)
  <1>1. Init => Unharmed
    BY DEF Init, Unharmed, BeforeFork, Running, Stopping, Thrown
  <1>2. Inv /\ Unharmed /\ [Next]_vars => Unharmed' BY UnharmedNext
  <1>3. Unharmed =>
          (faults = {} /\ ppc = "returned" => err \in {"arguments", "cpus"} \/ AllReported)
    BY DEF Unharmed
  <1> QED BY <1>1, <1>2, <1>3, Invariance, PTL DEF Spec

-------------------------------------------------------------------------------
(* Every step of the producer leaves less of the call to do, but a look    *)
(* that finds nothing.                                                     *)

\* Where the call is, and where the round trip is.
CallLeft ==
  CASE ppc = "args" -> 13 [] ppc = "open" -> 12 [] ppc = "truncate" -> 11 [] ppc = "map" -> 10
    [] ppc = "fork" -> 9 [] ppc = "ready" -> 8
    [] ppc = "warmup" \/ (ppc \in {"await", "ack"} /\ warmed < warmup) -> 7
    [] ppc = "reserve" -> 6
    [] ppc = "measure" \/ (ppc \in {"await", "ack"} /\ ~(warmed < warmup)) -> 5
    [] ppc = "stop" -> 4 [] ppc = "reap" -> 3 [] ppc = "reapKilled" -> 2 [] ppc = "release" -> 1
    [] OTHER -> 0
TripLeft == CASE ppc \in {"warmup", "measure"} -> 2 [] ppc = "await" -> 1 [] OTHER -> 0

\* The call is at a later stage; or, in the loop it is in, a round trip more is made; or
\* the round trip is further.
Nearer ==
  \/ CallLeft' < CallLeft
  \/ /\ CallLeft' <= CallLeft
     /\ \/ warmed < warmed' /\ warmed' <= warmup' /\ samples' = samples
        \/ warmed' = warmed /\ samples < samples' /\ samples' <= iterations'
        \/ UNCHANGED progress /\ TripLeft' < TripLeft

\* A wait looked at its flag, or asked for the child, and keeps waiting.
LookedInVain ==
  /\ ppc \in {"ready", "await", "reap"}
  /\ pSpun'
  /\ UNCHANGED <<inputs, alive, ppc, progress, result, held, consumer, flags>>

\* The producer gets nearer to the end or looks in vain, and nothing that anyone else does
\* takes it back.
StepsRunOut ==
  [][ /\ UNCHANGED inputs
      /\ ProducerStep => Nearer \/ LookedInVain
      /\ ~ProducerStep => UNCHANGED <<ppc, progress>> ]_vars

\* One case per step of measure_cross_process.
LEMMA ProducerNearer == ASSUME Inv, ProducerStep PROVE Nearer \/ LookedInVain
  <1> USE DEF Inv, TypeOK, ValuesOK, Placed, ProgressAt, LookedInVain,
              inputs, flags, result, progress, consumer
  <1>1. CASE RejectCounts
    <2>1. ppc = "args" /\ ppc' = "returned"
      BY <1>1 DEF RejectCounts, ReturnError
    <2> QED BY <2>1 DEF Nearer, CallLeft
  <1>2. CASE CheckCpus
    <2>1. ppc = "args" /\ ppc' \in {"open", "returned"}
      BY <1>2 DEF CheckCpus, ReturnError, Advance
    <2> QED BY <2>1 DEF Nearer, CallLeft
  <1>3. CASE OpenSegment
    <2>1. ppc = "open" /\ ppc' \in {"truncate", "returned"}
      BY <1>3 DEF OpenSegment, ReturnError, Advance
    <2> QED BY <2>1 DEF Nearer, CallLeft
  <1>4. CASE Truncate
    <2>1. ppc = "truncate" /\ ppc' \in {"map", "returned"}
      BY <1>4 DEF Truncate, ReturnError, Advance
    <2> QED BY <2>1 DEF Nearer, CallLeft
  <1>5. CASE MapView
    <2>1. ppc = "map" /\ ppc' \in {"fork", "returned"}
      BY <1>5 DEF MapView, ReturnError, Advance
    <2> QED BY <2>1 DEF Nearer, CallLeft
  <1>6. CASE Fork
    <2>1. ppc = "fork" /\ ppc' \in {"ready", "returned"}
      BY <1>6 DEF Fork, StartConsumer, ReturnError
    <2> QED BY <2>1 DEF Nearer, CallLeft
  <1>7. CASE PollReady
    <2>1. CASE consumer_ready = 1
      <3>1. ppc = "ready" /\ ppc' = "warmup" BY <1>7, <2>1 DEF PollReady, Poll
      <3> QED BY <3>1 DEF Nearer, CallLeft
    <2>2. CASE consumer_ready # 1 BY <1>7, <2>2 DEF PollReady, Poll
    <2> QED BY <2>1, <2>2
  <1>8. CASE PollResponse
    <2>1. CASE response = 1
      <3>1. ppc = "await" /\ ppc' = "ack" /\ UNCHANGED <<inputs, progress>>
        BY <1>8, <2>1 DEF PollResponse, Poll
      <3>2. CallLeft' = CallLeft BY <3>1 DEF CallLeft
      <3>3. TripLeft' < TripLeft BY <3>1 DEF TripLeft
      <3>4. CallLeft \in Nat BY DEF CallLeft
      <3> QED BY <3>1, <3>2, <3>3, <3>4 DEF Nearer
    <2>2. CASE response # 1 BY <1>8, <2>2 DEF PollResponse, Poll
    <2> QED BY <2>1, <2>2
  <1>9. CASE ProducerGivesUp
    <2>1. ppc \in {"ready", "await"} /\ ppc' = "stop" BY <1>9 DEF ProducerGivesUp, WaitFails
    <2> QED BY <2>1 DEF Nearer, CallLeft
  <1>10. CASE PostRequest
    <2>1. /\ \/ ppc = "warmup" /\ warmed < warmup
             \/ ppc = "measure" /\ ~(warmed < warmup)
          /\ ppc' = "await" /\ UNCHANGED <<inputs, progress>>
      BY <1>10, ArgumentsAssumption DEF PostRequest, RoundTripsLeft
    <2>2. CallLeft' = CallLeft BY <2>1 DEF CallLeft
    <2>3. TripLeft' < TripLeft BY <2>1 DEF TripLeft
    <2>4. CallLeft \in Nat BY DEF CallLeft
    <2> QED BY <2>1, <2>2, <2>3, <2>4 DEF Nearer
  <1>11. CASE Ack
    <2>1. CASE warmed < warmup
      <3>1. /\ ppc = "ack" /\ ppc' = "warmup" /\ warmed' = warmed + 1 /\ samples' = samples
            /\ warmup' = warmup
        BY <1>11, <2>1 DEF Ack
      <3>2. warmed < warmed' /\ warmed' <= warmup'
        BY <2>1, <3>1, ArgumentsAssumption
      <3>3. CallLeft' <= CallLeft BY <2>1, <3>1 DEF CallLeft
      <3> QED BY <3>1, <3>2, <3>3 DEF Nearer
    <2>2. CASE ~(warmed < warmup)
      <3>1. /\ ppc = "ack" /\ ppc' = "measure" /\ warmed' = warmed /\ samples' = samples + 1
            /\ samples < iterations /\ iterations' = iterations
        BY <1>11, <2>2 DEF Ack
      <3>2. samples < samples' /\ samples' <= iterations'
        BY <3>1, ArgumentsAssumption
      <3>3. CallLeft' <= CallLeft BY <2>2, <3>1 DEF CallLeft
      <3> QED BY <3>1, <3>2, <3>3 DEF Nearer
    <2> QED BY <2>1, <2>2
  <1>12. CASE LoopDone
    <2>1. \/ ppc = "warmup" /\ ppc' = "reserve"
          \/ ppc = "measure" /\ ppc' = "stop"
      BY <1>12 DEF LoopDone
    <2> QED BY <2>1 DEF Nearer, CallLeft
  <1>13. CASE ReserveSamples
    <2>1. ppc = "reserve" /\ ppc' \in {"measure", "thrown"}
      BY <1>13 DEF ReserveSamples, Advance, Throw
    <2> QED BY <2>1 DEF Nearer, CallLeft
  <1>14. CASE StoreStop
    <2>1. ppc = "stop" /\ ppc' \in {"reap"}
      BY <1>14 DEF StoreStop
    <2> QED BY <2>1 DEF Nearer, CallLeft
  <1>15. CASE ReapPoll
    <2>1. CASE ConsumerRuns BY <1>15, <2>1 DEF ReapPoll
    <2>2. CASE ~ConsumerRuns
      <3>1. ppc = "reap" /\ ppc' = "release" BY <1>15, <2>2 DEF ReapPoll, Reap
      <3> QED BY <3>1 DEF Nearer, CallLeft
    <2> QED BY <2>1, <2>2
  <1>16. CASE KillConsumer
    <2>1. ppc = "reap" /\ ppc' \in {"reapKilled", "release"}
      BY <1>16 DEF KillConsumer
    <2> QED BY <2>1 DEF Nearer, CallLeft
  <1>17. CASE ReapKilled
    <2>1. ppc = "reapKilled" /\ ppc' \in {"release"}
      BY <1>17 DEF ReapKilled, Reap
    <2> QED BY <2>1 DEF Nearer, CallLeft
  <1>18. CASE Release
    <2>1. ppc = "release" /\ ppc' \in {"returned"}
      BY <1>18 DEF Release
    <2> QED BY <2>1 DEF Nearer, CallLeft
  <1>19. CASE NamingThrows
    <2>1. ppc = "open" /\ ppc' \in {"thrown"}
      BY <1>19 DEF NamingThrows, Throw
    <2> QED BY <2>1 DEF Nearer, CallLeft
  <1>20. CASE WaitThrows
    <2>1. ppc \in {"ready", "await"} /\ ppc' \in {"thrown", "thrownAwaiting"}
      BY <1>20 DEF WaitThrows, Throw
    <2> QED BY <2>1 DEF Nearer, CallLeft
  <1>21. CASE SummarizeThrows
    <2>1. ppc = "release" /\ ppc' \in {"thrown"}
      BY <1>21 DEF SummarizeThrows
    <2> QED BY <2>1 DEF Nearer, CallLeft
  <1> QED
    BY <1>1, <1>2, <1>3, <1>4, <1>5, <1>6, <1>7, <1>8, <1>9, <1>10, <1>11, <1>12,
       <1>13, <1>14, <1>15, <1>16, <1>17, <1>18, <1>19, <1>20, <1>21 DEF ProducerStep

\* The arguments, the faults and the disposition of SIGCHLD are those of the whole call.
LEMMA InputsKept == ASSUME [Next]_vars PROVE UNCHANGED inputs
  <1>1. CASE ProducerStep
    BY <1>1
    DEF ProducerStep, RejectCounts, CheckCpus, OpenSegment, Truncate, MapView, Fork, StartConsumer,
        PollReady, PollResponse, Poll, ProducerGivesUp, PostRequest, Ack, LoopDone, ReserveSamples,
        StoreStop, ReapPoll, KillConsumer, ReapKilled, Reap, Release, NamingThrows, WaitThrows,
        SummarizeThrows, ReturnError, Advance, Throw
  <1>2. CASE ~ProducerStep
    BY <1>2, ConsumerFrame DEF Next, ProducerCrash, Terminated, vars
  <1> QED BY <1>1, <1>2

\* For every number of round trips, every warm-up and whatever fails: a step of the call
\* that is not a look in vain leaves less of it to do, and neither the consumer nor a crash
\* gives anything back.  No behaviour posts requests, or kills and reaps, for ever: a call
\* that did not end would be one wait that looks in vain for ever, which the deadlines
\* forbid (CallEnds).
THEOREM StepsDecrease == Spec => StepsRunOut
  <1>1. Inv /\ [Next]_vars =>
          [ /\ UNCHANGED inputs
            /\ ProducerStep => Nearer \/ LookedInVain
            /\ ~ProducerStep => UNCHANGED <<ppc, progress>> ]_vars
    <2> SUFFICES ASSUME Inv, [Next]_vars
        PROVE  /\ UNCHANGED inputs
               /\ ProducerStep => Nearer \/ LookedInVain
               /\ ~ProducerStep => UNCHANGED <<ppc, progress>>
      OBVIOUS
    <2>1. ~ProducerStep => UNCHANGED <<ppc, progress>>
      BY ConsumerFrame DEF Next, ProducerCrash, Terminated, vars
    <2> QED BY <2>1, InputsKept, ProducerNearer
  <1> QED BY <1>1, Invariance, PTL DEF Spec, StepsRunOut

-------------------------------------------------------------------------------
(* The same of a consumer that has outlived its producer.                  *)

ConsumerLeft ==
  CASE cpc = "pin" -> 6 [] cpc = "publish" -> 5 [] cpc = "answer" -> 4 [] cpc = "loop" -> 3
    [] cpc \in {"wait", "waitStop"} -> 2 [] cpc = "clear" -> 1 [] OTHER -> 0

\* The request that was left in the segment is taken, or the consumer is nearer to its end
\* or to its next wait.
ConsumerNearer ==
  \/ request' < request
  \/ request' = request /\ ConsumerLeft' < ConsumerLeft

\* The wait for a request looked at request, or at stop, and goes on to the other.
ConsumerLookedInVain ==
  \/ cpc = "wait" /\ cpc' = "waitStop" /\ request # 1 /\ UNCHANGED flags
  \/ cpc = "waitStop" /\ cpc' = "wait" /\ stop = 0 /\ UNCHANGED flags

\* Once its producer is gone, and it stays gone, the consumer answers the request that may
\* have been left and then does nothing but look for one that never comes.
ConsumerRunsDown ==
  [][ ~ProducerRuns =>
        /\ ~ProducerRuns'
        /\ ConsumerStep => ConsumerNearer \/ ConsumerLookedInVain
        /\ ~ConsumerStep => request' = request /\ cpc' \in {cpc, "zombie", "reaped"} ]_vars

\* Every step of measure_cross_process is one of a producer that runs.
LEMMA ProducerRunning == ASSUME ProducerStep PROVE ProducerRuns
  BY DEF ProducerStep, RejectCounts, CheckCpus, OpenSegment, Truncate, MapView, Fork, PollReady,
         PollResponse, ProducerGivesUp, WaitFails, PostRequest, RoundTripsLeft, Ack, LoopDone,
         ReserveSamples, StoreStop, ReapPoll, KillConsumer, ReapKilled, Release, NamingThrows,
         WaitThrows, SummarizeThrows, ProducerRuns, Thrown

\* One case per step of consumer_loop.
LEMMA ConsumerGetsNearer ==
  ASSUME TypeOK, Placed, ConsumerStep
  PROVE  ConsumerNearer \/ ConsumerLookedInVain
  <1>1. request \in {0, 1} /\ stop \in {0, 1}
    BY DEF TypeOK, ValuesOK
  <1>2. CASE Pin
    <2>1. cpc = "pin" /\ cpc' \in {"publish", "zombie", "reaped"} /\ request' = request
      BY <1>2 DEF Pin, ConsumerAt, ExitPlace, flags
    <2> QED BY <2>1 DEF ConsumerNearer, ConsumerLeft
  <1>3. CASE Publish
    <2>1. cpc = "publish" /\ cpc' = "loop" /\ request' = request
      BY <1>3 DEF Publish, ConsumerAt
    <2> QED BY <2>1 DEF ConsumerNearer, ConsumerLeft
  <1>4. CASE CheckStop
    <2>1. cpc = "loop" /\ cpc' \in {"wait", "zombie", "reaped"} /\ request' = request
      BY <1>4 DEF CheckStop, ConsumerAt, ExitPlace, flags
    <2> QED BY <2>1 DEF ConsumerNearer, ConsumerLeft
  <1>5. CASE PollRequest
    <2>1. CASE request = 1
      <3>1. cpc = "wait" /\ cpc' = "clear" /\ request' = request
        BY <1>5, <2>1 DEF PollRequest, ConsumerAt, flags
      <3> QED BY <3>1 DEF ConsumerNearer, ConsumerLeft
    <2>2. CASE request # 1
      BY <1>5, <2>2 DEF PollRequest, ConsumerAt, ConsumerLookedInVain
    <2> QED BY <2>1, <2>2
  <1>6. CASE PollStop
    <2>1. CASE stop # 0
      <3>1. cpc = "waitStop" /\ cpc' \in {"zombie", "reaped"} /\ request' = request
        BY <1>6, <2>1 DEF PollStop, ConsumerAt, ExitPlace, flags
      <3> QED BY <3>1 DEF ConsumerNearer, ConsumerLeft
    <2>2. CASE stop = 0
      BY <1>6, <2>2 DEF PollStop, ConsumerAt, ConsumerLookedInVain
    <2> QED BY <2>1, <2>2
  <1>7. CASE ConsumerTimeout
    <2>1. cpc = "wait" /\ cpc' \in {"zombie", "reaped"} /\ request' = request
      BY <1>7 DEF ConsumerTimeout, ConsumerAt, ExitPlace, flags
    <2> QED BY <2>1 DEF ConsumerNearer, ConsumerLeft
  <1>8. CASE Clear
    <2>1. request = 1 /\ request' = 0
      BY <1>8 DEF Clear, ConsumerAt, Placed, ConsumerAtPlace, Posted
    <2> QED BY <2>1 DEF ConsumerNearer
  <1>9. CASE Answer
    <2>1. cpc = "answer" /\ cpc' = "loop" /\ request' = request
      BY <1>9 DEF Answer, ConsumerAt
    <2> QED BY <2>1 DEF ConsumerNearer, ConsumerLeft
  <1>10. CASE ConsumerThrows
    <2>1. cpc = "wait" /\ cpc' \in {"zombie", "reaped"} /\ request' = request
      BY <1>10 DEF ConsumerThrows, ConsumerAt, ExitPlace, flags
    <2> QED BY <2>1 DEF ConsumerNearer, ConsumerLeft
  <1> QED
    BY <1>2, <1>3, <1>4, <1>5, <1>6, <1>7, <1>8, <1>9, <1>10 DEF ConsumerStep

\* However its producer came to an end, with the request posted or not: the consumer left
\* behind makes at most one more round trip, and after that only its own deadline, stop or a
\* signal moves it.  It cannot be kept busy by what is left in the segment.
THEOREM ConsumerStepsDecrease == Spec => ConsumerRunsDown
  <1>1. Inv /\ [Next]_vars =>
          [ ~ProducerRuns =>
              /\ ~ProducerRuns'
              /\ ConsumerStep => ConsumerNearer \/ ConsumerLookedInVain
              /\ ~ConsumerStep => request' = request /\ cpc' \in {cpc, "zombie", "reaped"} ]_vars
    <2> SUFFICES ASSUME Inv, [Next]_vars, ~ProducerRuns
        PROVE  /\ ~ProducerRuns'
               /\ ConsumerStep => ConsumerNearer \/ ConsumerLookedInVain
               /\ ~ConsumerStep => request' = request /\ cpc' \in {cpc, "zombie", "reaped"}
      OBVIOUS
    <2>1. ConsumerStep => ConsumerNearer \/ ConsumerLookedInVain
      BY ConsumerGetsNearer DEF Inv
    <2>2. CASE ConsumerStep
      BY <2>1, <2>2, ConsumerFrame DEF ProducerRuns
    <2>3. CASE SigkillDelivered \/ ConsumerCrash
      <3>1. request' = request /\ cpc' \in {"zombie", "reaped"}
        BY <2>3 DEF SigkillDelivered, ConsumerCrash, Die, ConsumerAt, ExitPlace, flags
      <3> QED BY <2>1, <2>3, <3>1, ConsumerFrame DEF ProducerRuns
    <2>4. CASE UNCHANGED vars
      BY <2>1, <2>4 DEF vars, flags, consumer, ProducerRuns
    <2> QED
      BY <2>2, <2>3, <2>4, ProducerRunning DEF Next, Terminated, ProducerCrash
  <1> QED BY <1>1, Invariance, PTL DEF Spec, ConsumerRunsDown
===============================================================================
