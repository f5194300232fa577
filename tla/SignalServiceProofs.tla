-------------------------- MODULE SignalServiceProofs --------------------------
(***************************************************************************)
(* Proofs about SignalService, for any io_services and users of them.      *)
(*                                                                         *)
(* A candidate is looked for in two places: with the user that constructed *)
(* it, until that user has published or destroyed it, and in the registry  *)
(* of its io_service.  The invariant says so from both sides (UserInv and  *)
(* RegistryInv), that the mutexes are where the users stand (LockInv), and *)
(* that no user publishes after a shutdown (GoneInv): otherwise it would   *)
(* replace the service that others were given.  The second part            *)
(* (AttendedInv) is about the operations of the candidates: as long as one *)
(* is in its descriptor, epoll has the pipe or a destructor has taken it   *)
(* away, and the operations that were run since are the units of work that *)
(* are missing.                                                            *)
(***************************************************************************)
EXTENDS SignalService, FiniteSetTheorems, TLAPS

USE ServiceAssumption DEF ServiceAssumption, users, locks, reactor, scheduler, signals

-----------------------------------------------------------------------------
(* The inductive invariant.                                                *)

Places == {"search", "construct", "publish", "discard", "deregister", "done"}

\* A candidate that its user has, neither in the registry nor destroyed.
Candidate(u) == pc[u] \in {"publish", "discard", "deregister"}

TypeInv ==
    /\ pc \in [Users -> Places]
    /\ got \in [Users -> Users \cup {Nobody}]
    /\ service_ \in [Contexts -> Users \cup {Nobody}]
    /\ listed \subseteq Users
    /\ registry_mutex \in [Contexts -> Users \cup {Nobody}]
    /\ state_mutex \in Users \cup {Nobody}
    /\ op \in [Users -> {"none", "queued", "posted", "deleted"}]
    /\ watched \in [Contexts -> Users \cup {Nobody}]
    /\ work \in [Contexts -> Int]
    /\ stopped \in [Contexts -> BOOLEAN]

\* The operation of a candidate is in its descriptor, from the constructor on
\* until the destructor, and an operation there is that of a candidate or of
\* a service in a registry.
UserInv ==
    \A u \in Users :
        /\ pc[u] \in {"search", "construct"} => op[u] = "none"
        /\ Candidate(u) => op[u] = "queued"
        /\ op[u] = "queued" => Candidate(u) \/ service_[Home[u]] = u

\* Who destroys a candidate has the mutex of the registry, in which there is
\* a service; in the destructor's region, also that of signal_state.
LockInv ==
    /\ \A u \in Users :
        pc[u] \in {"discard", "deregister"} =>
            registry_mutex[Home[u]] = u /\ Registered(u)
    /\ \A u \in Users : pc[u] = "deregister" <=> state_mutex = u

\* A service in a registry was constructed by a user of that io_service.
RegistryInv ==
    \A c \in Contexts : service_[c] # Nobody =>
        /\ Home[service_[c]] = c
        /\ pc[service_[c]] = "done"
        /\ op[service_[c]] = "queued"

\* The service goes when all users have theirs, and then nobody makes another.
GoneInv ==
    \A u, v \in Users :
        Home[u] = Home[v] /\ pc[u] = "done" /\ pc[v] # "done" => Registered(u)

SoundInv == TypeInv /\ UserInv /\ LockInv /\ RegistryInv /\ GoneInv

\* An operation in its descriptor has its pipe watched, unless a candidate of
\* that io_service was destroyed; what was destroyed can be counted.
AttendedInv ==
    /\ PipeWatched /\ WorkCounted
    /\ \A u \in Users :
        op[u] = "queued" => watched[Home[u]] # Nobody \/ Destroyed(Home[u]) # {}
    /\ \A c \in Contexts : IsFiniteSet(Deleted(c))

-----------------------------------------------------------------------------
(* The steps that matter, by what they do.                                 *)

\* Every other step leaves the variables of the invariant alone.
Aside == UNCHANGED <<pc, got, service_, listed, locks, op, watched, scheduler>>

LEMMA StepCases ==
    ASSUME [Next]_vars
    PROVE  \/ \E u \in Users : \/ Search(u) \/ Construct(u) \/ Publish(u)
                               \/ Discard(u) \/ Discarded(u) \/ RunPosted(u)
           \/ \E c \in Contexts : Shutdown(c)
           \/ Aside
<1>1. ASSUME NEW c \in Contexts, React(c) PROVE Aside
  BY <1>1 DEF React, Collect, Perform, Read, Deliver, Aside
<1>2. ASSUME Raise PROVE Aside
  BY <1>2 DEF Raise, Aside
<1>3. ASSUME UNCHANGED vars PROVE Aside
  BY <1>3 DEF vars, Aside
<1> QED
  BY <1>1, <1>2, <1>3 DEF Next, Call

LEMMA SoundInit == Init => SoundInv
BY DEF Init, SoundInv, TypeInv, Places, UserInv, LockInv, RegistryInv, GoneInv,
       Candidate, Registered

LEMMA TypeStep ==
    ASSUME SoundInv, [Next]_vars
    PROVE  TypeInv'
<1> USE DEF SoundInv, TypeInv, Places, Goto, Give
<1>1. ASSUME NEW u \in Users, Search(u) PROVE TypeInv'
  BY <1>1 DEF Search
<1>2. ASSUME NEW u \in Users, Construct(u) PROVE TypeInv'
  BY <1>2 DEF Construct, Register
<1>3. ASSUME NEW u \in Users, Publish(u) PROVE TypeInv'
  BY <1>3 DEF Publish
<1>4. ASSUME NEW u \in Users, Discard(u) PROVE TypeInv'
  BY <1>4 DEF Discard
<1>5. ASSUME NEW u \in Users, Discarded(u) PROVE TypeInv'
  BY <1>5 DEF Discarded, Deregister, Unlist
<1>6. ASSUME NEW u \in Users, RunPosted(u) PROVE TypeInv'
  <2>1. work' \in [Contexts -> Int]
    BY <1>6 DEF RunPosted
  <2>2. stopped' \in [Contexts -> BOOLEAN]
    BY <1>6 DEF RunPosted
  <2> QED
    BY <1>6, <2>1, <2>2 DEF RunPosted
<1>7. ASSUME NEW c \in Contexts, Shutdown(c) PROVE TypeInv'
  BY <1>7 DEF Shutdown, Deregister, Unlist
<1>8. ASSUME Aside PROVE TypeInv'
  BY <1>8 DEF Aside
<1> QED
  BY <1>1, <1>2, <1>3, <1>4, <1>5, <1>6, <1>7, <1>8, StepCases

LEMMA SoundStep ==
    ASSUME SoundInv, [Next]_vars
    PROVE  SoundInv'
<1> USE DEF SoundInv, TypeInv, UserInv, LockInv, RegistryInv, GoneInv,
            Candidate, Registered, Goto, Give
<1>1. ASSUME NEW u \in Users, Search(u) PROVE SoundInv'
  BY <1>1, TypeStep DEF Search
<1>2. ASSUME NEW u \in Users, Construct(u) PROVE SoundInv'
  BY <1>2, TypeStep DEF Construct
<1>3. ASSUME NEW u \in Users, Publish(u) PROVE SoundInv'
  <2>1. CASE Registered(u)
    BY <1>3, <2>1, TypeStep DEF Publish
  <2>2. CASE ~Registered(u)
    <3>1. /\ \A v \in Users : Home[v] = Home[u] => pc[v] # "done"
          /\ UNCHANGED <<registry_mutex, state_mutex, op>>
          /\ pc' = [pc EXCEPT ![u] = "done"]
          /\ service_' = [service_ EXCEPT ![Home[u]] = u]
      BY <1>3, <2>2 DEF Publish
    <3>2. UserInv' /\ RegistryInv'
      BY <1>3, <2>2, <3>1 DEF Publish
    <3>3. LockInv' /\ GoneInv'
      BY <1>3, <2>2, <3>1 DEF Publish
    <3> QED
      BY <3>2, <3>3, TypeStep
  <2> QED
    BY <2>1, <2>2
<1>4. ASSUME NEW u \in Users, Discard(u) PROVE SoundInv'
  BY <1>4, TypeStep DEF Discard
<1>5. ASSUME NEW u \in Users, Discarded(u) PROVE SoundInv'
  BY <1>5, TypeStep DEF Discarded, Deregister
<1>6. ASSUME NEW u \in Users, RunPosted(u) PROVE SoundInv'
  BY <1>6, TypeStep DEF RunPosted
<1>7. ASSUME NEW c \in Contexts, Shutdown(c) PROVE SoundInv'
  BY <1>7, TypeStep DEF Shutdown, Deregister
<1>8. ASSUME Aside PROVE SoundInv'
  BY <1>8, TypeStep DEF Aside
<1> QED
  BY <1>1, <1>2, <1>3, <1>4, <1>5, <1>6, <1>7, <1>8, StepCases

-----------------------------------------------------------------------------
(* Everybody has the service that stays, and signal_state lists it.        *)

Published == {service_[c] : c \in Contexts} \ {Nobody}
Candidates == {u \in Users : pc[u] \in {"publish", "discard", "deregister"}}

\* A step of one user changes the published services only in its io_service.
LEMMA SameServiceStep ==
    ASSUME SoundInv, SameService, [Next]_vars
    PROVE  SameService'
<1> USE DEF SoundInv, TypeInv, LockInv, GoneInv, SameService, Registered, Goto, Give
<1>1. ASSUME NEW u \in Users, Search(u) PROVE SameService'
  BY <1>1 DEF Search
<1>2. ASSUME NEW u \in Users, Construct(u) PROVE SameService'
  BY <1>2 DEF Construct
<1>3. ASSUME NEW u \in Users, Publish(u) PROVE SameService'
  BY <1>3 DEF Publish
<1>4. ASSUME NEW u \in Users, Discard(u) PROVE SameService'
  BY <1>4 DEF Discard
<1>5. ASSUME NEW u \in Users, Discarded(u) PROVE SameService'
  BY <1>5 DEF Discarded
<1>6. ASSUME NEW u \in Users, RunPosted(u) PROVE SameService'
  BY <1>6 DEF RunPosted
<1>7. ASSUME NEW c \in Contexts, Shutdown(c) PROVE SameService'
  BY <1>7 DEF Shutdown
<1>8. ASSUME Aside PROVE SameService'
  BY <1>8 DEF Aside
<1> QED
  BY <1>1, <1>2, <1>3, <1>4, <1>5, <1>6, <1>7, <1>8, StepCases

LEMMA ListStep ==
    ASSUME SoundInv, ListExact, [Next]_vars
    PROVE  ListExact'
<1> USE DEF SoundInv, TypeInv, RegistryInv, LockInv, ListExact, Registered, Goto, Give
<1>1. ASSUME NEW u \in Users, Search(u) PROVE ListExact'
  BY <1>1 DEF Search
<1>2. ASSUME NEW u \in Users, Construct(u) PROVE ListExact'
  BY <1>2 DEF Construct
<1>3. ASSUME NEW u \in Users, Publish(u) PROVE ListExact'
  BY <1>3 DEF Publish
<1>4. ASSUME NEW u \in Users, Discard(u) PROVE ListExact'
  BY <1>4 DEF Discard
<1>5. ASSUME NEW u \in Users, Discarded(u) PROVE ListExact'
  BY <1>5 DEF Discarded, Deregister, Unlist
<1>6. ASSUME NEW u \in Users, RunPosted(u) PROVE ListExact'
  BY <1>6 DEF RunPosted
<1>7. ASSUME NEW c \in Contexts, Shutdown(c) PROVE ListExact'
  BY <1>7 DEF Shutdown, Deregister, Unlist
<1>8. ASSUME Aside PROVE ListExact'
  BY <1>8 DEF Aside
<1> QED
  BY <1>1, <1>2, <1>3, <1>4, <1>5, <1>6, <1>7, <1>8, StepCases

-----------------------------------------------------------------------------
(* The pipe is watched and the io_service runs.                            *)

\* A destructor of candidate u takes the pipe from epoll.
LEMMA DeregisterStep ==
    ASSUME SoundInv, AttendedInv, NEW u \in Users, op[u] = "queued", Deregister(u),
           UNCHANGED scheduler, \A c \in Contexts : service_'[c] \in {service_[c], Nobody}
    PROVE  AttendedInv'
<1> USE DEF SoundInv, TypeInv
<1>1. /\ op' = [op EXCEPT ![u] = "posted"]
      /\ watched' = [watched EXCEPT ![Home[u]] = Nobody]
    BY DEF Deregister
<1>2. \A c \in Contexts : Deleted(c)' = Deleted(c) /\ Destroyed(c) \subseteq Destroyed(c)'
    BY <1>1 DEF Deleted, Destroyed, Of
<1>3. u \in Destroyed(Home[u])'
    BY <1>1 DEF Destroyed, Of
<1>4. PipeWatched'
  <2>1. ASSUME NEW c \in Contexts, watched'[c] # Nobody
        PROVE  watched'[c] \in Of(c)' /\ op'[watched'[c]] = "queued"
    <3>1. c # Home[u] /\ watched'[c] = watched[c]
      BY <1>1, <2>1
    <3>2. watched[c] \in Users /\ Home[watched[c]] = c /\ op[watched[c]] = "queued"
      BY <2>1, <3>1 DEF AttendedInv, PipeWatched, Of
    <3> QED
      BY <1>1, <3>1, <3>2 DEF Of
  <2>2. ASSUME NEW c \in Contexts, service_'[c] # Nobody, watched'[c] = Nobody
        PROVE  Destroyed(c)' # {}
    <3>1. CASE c = Home[u]
      BY <1>3, <3>1
    <3>2. CASE c # Home[u]
      BY <1>1, <1>2, <2>2, <3>2 DEF AttendedInv, PipeWatched
    <3> QED
      BY <3>1, <3>2
  <2> QED
    BY <2>1, <2>2 DEF PipeWatched
<1>5. ASSUME NEW v \in Users, op'[v] = "queued"
      PROVE  watched'[Home[v]] # Nobody \/ Destroyed(Home[v])' # {}
  <2>1. CASE Home[v] = Home[u]
    BY <1>3, <2>1
  <2>2. CASE Home[v] # Home[u]
    BY <1>1, <1>2, <1>5, <2>2 DEF AttendedInv
  <2> QED
    BY <2>1, <2>2
<1>6. WorkCounted' /\ \A c \in Contexts : IsFiniteSet(Deleted(c))'
  BY <1>2 DEF AttendedInv, WorkCounted
<1> QED
  BY <1>4, <1>5, <1>6 DEF AttendedInv

\* The pool runs the posted operation of u: one more that was not counted.
LEMMA RunPostedStep ==
    ASSUME SoundInv, AttendedInv, NEW u \in Users, RunPosted(u)
    PROVE  AttendedInv'
<1> USE DEF SoundInv, TypeInv
<1>1. /\ op[u] = "posted" /\ op' = [op EXCEPT ![u] = "deleted"]
      /\ work' = [work EXCEPT ![Home[u]] = @ - 1]
      /\ stopped' = [stopped EXCEPT ![Home[u]] = work'[Home[u]] = 0]
      /\ UNCHANGED <<watched, service_>>
  BY DEF RunPosted
<1>2. \A c \in Contexts : Destroyed(c)' = Destroyed(c)
  BY <1>1 DEF Destroyed, Of
<1>3. ASSUME NEW c \in Contexts
      PROVE  Deleted(c)' = IF c = Home[u] THEN Deleted(c) \cup {u} ELSE Deleted(c)
  BY <1>1 DEF Deleted, Of
<1>4. u \notin Deleted(Home[u])
  BY <1>1 DEF Deleted
<1>5. ASSUME NEW c \in Contexts
      PROVE  /\ IsFiniteSet(Deleted(c))'
             /\ work'[c] = 1 - Cardinality(Deleted(c))'
             /\ stopped'[c] => work'[c] <= 0
  <2>1. /\ IsFiniteSet(Deleted(c)) /\ work[c] = 1 - Cardinality(Deleted(c))
        /\ stopped[c] => work[c] <= 0
    BY DEF AttendedInv, WorkCounted
  <2>2. CASE c = Home[u]
    <3>1. /\ IsFiniteSet(Deleted(c) \cup {u})
          /\ Cardinality(Deleted(c) \cup {u}) = Cardinality(Deleted(c)) + 1
      BY <1>4, <2>1, <2>2, FS_AddElement
    <3>2. Cardinality(Deleted(c)) \in Nat
      BY <2>1, FS_CardinalityType
    <3>3. Deleted(c)' = Deleted(c) \cup {u}
      BY <1>3, <2>2
    <3>4. work'[c] = work[c] - 1 /\ (stopped'[c] => work'[c] = 0)
      BY <1>1, <2>2
    <3> HIDE DEF Deleted
    <3>5. Cardinality(Deleted(c))' = Cardinality(Deleted(c)) + 1 /\ IsFiniteSet(Deleted(c))'
      BY <3>1, <3>3, Zenon
    <3> QED
      BY <2>1, <3>2, <3>4, <3>5
  <2>3. CASE c # Home[u]
    BY <1>1, <1>3, <2>1, <2>3
  <2> QED
    BY <2>2, <2>3
<1>6. PipeWatched'
  BY <1>1, <1>2 DEF AttendedInv, PipeWatched, Of
<1>7. ASSUME NEW v \in Users, op'[v] = "queued"
      PROVE  watched'[Home[v]] # Nobody \/ Destroyed(Home[v])' # {}
  BY <1>1, <1>2, <1>7 DEF AttendedInv
<1> QED
  BY <1>5, <1>6, <1>7 DEF AttendedInv, WorkCounted

LEMMA AttendedStep ==
    ASSUME SoundInv, AttendedInv, [Next]_vars
    PROVE  AttendedInv'
<1> USE DEF SoundInv, TypeInv
<1>1. ASSUME UNCHANGED <<op, watched, scheduler>>,
             \A c \in Contexts : service_'[c] # service_[c] => op[service_'[c]] = "queued"
                                 /\ service_'[c] \in Of(c)
      PROVE  AttendedInv'
  <2>1. \A c \in Contexts : Destroyed(c)' = Destroyed(c) /\ Deleted(c)' = Deleted(c)
    BY <1>1 DEF Destroyed, Deleted, Of
  <2>2. PipeWatched'
    BY <1>1, <2>1 DEF AttendedInv, PipeWatched, Of
  <2> QED
    BY <1>1, <2>1, <2>2 DEF AttendedInv, WorkCounted
<1>2. ASSUME NEW u \in Users, Construct(u) PROVE AttendedInv'
  <2>1. /\ op[u] = "none" /\ op' = [op EXCEPT ![u] = "queued"]
        /\ watched' = [watched EXCEPT ![Home[u]] = IF @ = Nobody THEN u ELSE @]
        /\ UNCHANGED <<work, stopped, service_>>
    BY <1>2 DEF Construct, Register, UserInv
  <2>2. \A c \in Contexts : Destroyed(c)' = Destroyed(c) /\ Deleted(c)' = Deleted(c)
    BY <2>1 DEF Destroyed, Deleted, Of
  <2>3. PipeWatched'
    BY <2>1, <2>2 DEF AttendedInv, PipeWatched, Of
  <2>4. ASSUME NEW v \in Users, op'[v] = "queued"
        PROVE  watched'[Home[v]] # Nobody \/ Destroyed(Home[v])' # {}
    BY <2>1, <2>2, <2>4 DEF AttendedInv
  <2> QED
    BY <2>1, <2>2, <2>3, <2>4 DEF AttendedInv, WorkCounted
<1>3. ASSUME NEW u \in Users, Discarded(u) PROVE AttendedInv'
    BY <1>3, DeregisterStep DEF Discarded, UserInv, Candidate
<1>4. ASSUME NEW u \in Users, Publish(u) PROVE AttendedInv'
  <2>1. op[u] = "queued"
    BY <1>4 DEF Publish, UserInv, Candidate
  <2> QED
    BY <1>1, <1>4, <2>1 DEF Publish, Of
<1>5. ASSUME NEW c \in Contexts, Shutdown(c) PROVE AttendedInv'
  <2>1. service_[c] \in Users /\ op[service_[c]] = "queued"
    BY <1>5 DEF Shutdown, RegistryInv
  <2> QED
    BY <1>5, <2>1, DeregisterStep DEF Shutdown
<1> QED
  BY <1>1, <1>2, <1>3, <1>4, <1>5, RunPostedStep, StepCases DEF Search, Discard, Aside

-----------------------------------------------------------------------------
LEMMA AttendedInit == Init => SameService /\ ListExact /\ AttendedInv
<1> SUFFICES ASSUME Init PROVE SameService /\ ListExact /\ AttendedInv
  OBVIOUS
<1>1. \A c \in Contexts : Deleted(c) = {}
  BY DEF Init, Deleted, Of
<1>2. IsFiniteSet({}) /\ Cardinality({}) = 0
  BY FS_EmptySet
<1>3. WorkCounted /\ \A c \in Contexts : IsFiniteSet(Deleted(c))
  <2>1. ASSUME NEW c \in Contexts
        PROVE  IsFiniteSet(Deleted(c)) /\ Cardinality(Deleted(c)) = 0
    BY <1>1, <1>2, Zenon
  <2> QED
    BY <2>1 DEF Init, WorkCounted
<1>4. PipeWatched
  BY DEF Init, PipeWatched
<1>5. AttendedInv
  BY <1>3, <1>4 DEF Init, AttendedInv
<1> QED
  BY <1>5 DEF Init, SameService, ListExact

(* With candidates coming and going in any number of io_services, everybody *)
(* is given the one that stays in the registry of its own, and signal_state *)
(* lists those and the ones still in their constructor's hands.             *)
THEOREM ServicesAreSound == Spec => []ServicesSound
<1> QED
  BY SoundInit, SoundStep, AttendedInit, SameServiceStep, ListStep, PTL
     DEF Spec, ServicesSound

(* A service keeps its pipe watched and its work counted, but for what the *)
(* destructors of its own duplicates take, which is no more than the       *)
(* registration, and one unit of work each (~signal_set_service,           *)
(* deregister_descriptor).                                                 *)
THEOREM ServiceIsAttended == Spec => []ServiceAttended
<1>1. AttendedInv => ServiceAttended
  BY DEF AttendedInv, ServiceAttended
<1> QED
  BY <1>1, SoundInit, SoundStep, AttendedInit, AttendedStep, PTL DEF Spec
=============================================================================
