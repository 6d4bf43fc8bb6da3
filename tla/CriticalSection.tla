-------------------------- MODULE CriticalSection --------------------------
(***************************************************************************)
(* CCriticalSection: the lock of the kernel and user utilities.            *)
(*                                                                         *)
(* In a driver it is an ERESOURCE and a spin lock.  An exclusive holder    *)
(* takes both, in this order; a shared holder takes the resource, shared,  *)
(* or, at DISPATCH_LEVEL, where it must not wait for a resource, the spin  *)
(* lock.  In user mode it is one CRITICAL_SECTION, whatever is asked for.  *)
(***************************************************************************)
EXTENDS Naturals

CONSTANTS
    Threads,
    Dispatch,   \* threads that run at DISPATCH_LEVEL, in a driver
    NoThread

ASSUME ThreadsAssumption == Dispatch \subseteq Threads /\ NoThread \notin Threads

VARIABLES
    kernel,     \* the build: with _NTDDK_ or without
    owner,      \* exclusive owner of m_Eresource, or of the CRITICAL_SECTION
    sharers,    \* shared owners of m_Eresource
    spin        \* owner of m_SpinLoc

lockVars == <<kernel, owner, sharers, spin>>

LockInit ==
    /\ kernel \in BOOLEAN
    /\ owner = NoThread
    /\ sharers = {}
    /\ spin = NoThread

LockTypeOK ==
    /\ kernel \in BOOLEAN
    /\ owner \in Threads \cup {NoThread}
    /\ sharers \subseteq Threads
    /\ spin \in Threads \cup {NoThread}

-----------------------------------------------------------------------------
\* Which lock a shared request takes: "resource", "spin" or "section".
SharedBy(t) ==
    CASE ~kernel -> "section"
      [] kernel /\ t \in Dispatch -> "spin"
      [] OTHER -> "resource"

\* ExAcquireResourceExclusiveLite, or EnterCriticalSection.
AcquireOwner(t) ==
    /\ owner = NoThread
    /\ sharers = {}
    /\ owner' = t
    /\ UNCHANGED <<kernel, sharers, spin>>

\* KeAcquireInStackQueuedSpinLock
AcquireSpin(t) ==
    /\ spin = NoThread
    /\ spin' = t
    /\ UNCHANGED <<kernel, owner, sharers>>

\* ExAcquireResourceSharedLite
AcquireShare(t) ==
    /\ owner = NoThread
    /\ sharers' = sharers \cup {t}
    /\ UNCHANGED <<kernel, owner, spin>>

AcquireShared(t) ==
    CASE SharedBy(t) = "section" -> AcquireOwner(t)
      [] SharedBy(t) = "spin" -> AcquireSpin(t)
      [] OTHER -> AcquireShare(t)

ReleaseOwner(t) ==
    /\ owner' = NoThread
    /\ UNCHANGED <<kernel, sharers, spin>>

ReleaseSpin(t) ==
    /\ spin' = NoThread
    /\ UNCHANGED <<kernel, owner, sharers>>

ReleaseShare(t) ==
    /\ sharers' = sharers \ {t}
    /\ UNCHANGED <<kernel, owner, spin>>

\* The destructor reads the level again; it is still what it was.
NeverReleased(t) == UNCHANGED lockVars \* mutant
ReleaseShared(t) ==
    CASE SharedBy(t) = "section" -> ReleaseOwner(t)
      [] SharedBy(t) = "spin" -> ReleaseSpin(t)
      [] OTHER -> ReleaseShare(t)
=============================================================================
