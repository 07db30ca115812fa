------------------------------ MODULE MCThreads ------------------------------
(***************************************************************************)
(* The components that other programs build threads from: the memory pool  *)
(* and RtssThread (Windows), RtPeriodicTask with its RtThread (Linux), and *)
(* PlcDiscovery.  They share nothing, so a behaviour is about one of them, *)
(* its subject, and the others rest.                                       *)
(***************************************************************************)
EXTENDS RtssMemoryPool

CONSTANTS
  Others, LockMemory, Period, MaxLate, Wrap, Careful,    \* RtPeriodicTask
  Ids,                                                   \* RtssThread
  Controllers, Users, Plcs, Interval                     \* PlcDiscovery

VARIABLES
  subject,
  running, thread, owner, object, locked, unreturned, unlocker,
  lp, due, task, executing, tracker, worst,
  rtss_running, handle, threads, rtss_owner, rtss_object, abandoned, replaced,
  auto, loop, found, left, mutex, ctl, user, crashed, discovery, late

Periodic == INSTANCE RtPeriodicTask
Rtss == INSTANCE RtssThread WITH
  running <- rtss_running, call <- rtss_owner, object <- rtss_object
Discovery == INSTANCE PlcDiscovery

periodicVars == <<running, thread, owner, object, locked, unreturned, unlocker,
                  lp, due, task, executing, tracker, worst>>
rtssVars == <<rtss_running, handle, threads, rtss_owner, rtss_object, abandoned, replaced>>
discoveryVars == <<auto, loop, found, left, mutex, ctl, user, crashed, discovery, late>>
allVars == <<vars, subject, periodicVars, rtssVars, discoveryVars>>

MCInit ==
  /\ subject \in {"pool", "periodic", "rtss", "discovery"}
  /\ Init /\ Periodic!Init /\ Rtss!Init /\ Discovery!Init

PoolMoves ==
  /\ subject = "pool"
  /\ Next
  /\ UNCHANGED <<subject, periodicVars, rtssVars, discoveryVars>>

PeriodicMoves ==
  /\ subject = "periodic"
  /\ Periodic!Next
  /\ UNCHANGED <<subject, vars, rtssVars, discoveryVars>>

RtssMoves ==
  /\ subject = "rtss"
  /\ Rtss!Next
  /\ UNCHANGED <<subject, vars, periodicVars, discoveryVars>>

DiscoveryMoves ==
  /\ subject = "discovery"
  /\ Discovery!Next
  /\ UNCHANGED <<subject, vars, periodicVars, rtssVars>>

\* Destroyed objects stop for good, on purpose; any other stop is a deadlock.
Destroyed ==
  /\ \/ \A o \in DOMAIN object : object[o] = "dead"
     \/ rtss_object = "dead"
     \/ discovery = "dead"
  /\ UNCHANGED allVars

MCNext == PoolMoves \/ PeriodicMoves \/ RtssMoves \/ DiscoveryMoves

MCSpec ==
  /\ MCInit /\ [][MCNext \/ Destroyed]_allVars
  /\ Periodic!Fairness /\ Rtss!Fairness /\ Discovery!Fairness
-----------------------------------------------------------------------------
MCTypeOK == TypeOK /\ Periodic!TypeOK /\ Rtss!TypeOK /\ Discovery!TypeOK

OneThreadPerObject == Periodic!Thread!OneThreadPerObject
LockFollowsTasks == Periodic!Thread!LockFollowsTasks
CalledTaskLives == Periodic!CalledTaskLives
OthersAreAbandoned == Rtss!OthersAreAbandoned
NeverTerminates == Discovery!NeverTerminates
AtMostOneMoreScan == Discovery!AtMostOneMoreScan

\* Every stop() that waits for a thread returns, in each of the components:
\* pthread_join, WaitForSingleObject(1000) and std::thread::join.
StopsReturn == Periodic!StopReturns /\ Rtss!StopGivesUp /\ Discovery!DiscoveryStops
=============================================================================
