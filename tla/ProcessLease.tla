---------------------------- MODULE ProcessLease ----------------------------
(***************************************************************************)
(* The single-replica guard: the runtime_instances row of                  *)
(* storage/sqlite/runtime_instance.go and the life of a job-agent process  *)
(* around it (cmd/job-agent).  A process first syncs its schedules into    *)
(* the database, then takes the lease or ends; while it serves, a          *)
(* goroutine renews the lease, which an error or a stall may delay; when   *)
(* the renewal finds another owner it logs that and stops renewing, and    *)
(* the process serves on.                                                  *)
(*                                                                         *)
(* Every start of a process draws a new owner id, so an owner here is one  *)
(* start.                                                                  *)
(***************************************************************************)
EXTENDS Integers

CONSTANTS
    Owners,        \* starts of a process
    NoOwner,
    TTL,           \* runtimeInstanceLeaseTTL
    LastTime       \* bound on the clock

ASSUME LeaseAssumption ==
    /\ NoOwner \notin Owners
    /\ TTL \in Nat \ {0}
    /\ LastTime \in Nat

VARIABLES
    time,
    lease,         \* the row: [owner, renewedAt]
    process,       \* [at, now, renews] of each start
    wrote          \* the process whose sync the scheduled_jobs table reflects

leaseVars == <<time, lease, process, wrote>>

NoLease == [owner |-> NoOwner, renewedAt |-> 0]

LeaseInit ==
    /\ time = 0
    /\ lease = NoLease
    /\ process = [o \in Owners |-> [at |-> "none", now |-> 0, renews |-> FALSE]]
    /\ wrote = NoOwner

Becomes(o, state) == process' = [process EXCEPT ![o] = state]

TimePasses ==
    /\ time < LastTime
    /\ time' = time + 1
    /\ UNCHANGED <<lease, process, wrote>>

Start(o) ==
    /\ process[o].at = "none"
    /\ Becomes(o, [process[o] EXCEPT !.at = "starting"])
    /\ UNCHANGED <<time, lease, wrote>>

(* scheduler.Sync of the configuration this process was started with.      *)
SyncSchedules(o) ==
    /\ process[o].at = "starting"
    /\ wrote' = o
    /\ Becomes(o, [process[o] EXCEPT !.at = "synced"])
    /\ UNCHANGED <<time, lease>>

ReadClock(o) ==
    /\ process[o].at = "synced"
    /\ Becomes(o, [process[o] EXCEPT !.at = "acquiring", !.now = time])
    /\ UNCHANGED <<time, lease, wrote>>

Free(now) == lease.owner = NoOwner \/ lease.renewedAt < now - TTL

AcquireRuntimeInstance(o) ==
    LET now == process[o].now IN
    /\ process[o].at = "acquiring"
    /\ \/ /\ Free(now)
          /\ lease' = [owner |-> o, renewedAt |-> now]
          /\ Becomes(o, [process[o] EXCEPT !.at = "serving", !.now = 0, !.renews = TRUE])
       \/ /\ ~Free(now)
          /\ Becomes(o, [process[o] EXCEPT !.at = "ended", !.now = 0])
          /\ UNCHANGED lease
    /\ UNCHANGED <<time, wrote>>

(* The row of this owner, and no other, is renewed.                        *)
Renewed(o) == /\ lease.owner = o
              /\ lease' = [lease EXCEPT !.renewedAt = time]

RenewRuntimeInstance(o) ==
    /\ process[o].at = "serving" /\ process[o].renews
    /\ \/ Renewed(o) /\ UNCHANGED process
       \/ /\ lease.owner # o
          /\ Becomes(o, [process[o] EXCEPT !.renews = FALSE])
          /\ UNCHANGED lease
    /\ UNCHANGED <<time, wrote>>

(* serve returns after a shutdown signal, and the deferred release runs.   *)
Shutdown(o) ==
    /\ process[o].at = "serving"
    /\ Becomes(o, [process[o] EXCEPT !.at = "closing", !.renews = FALSE])
    /\ UNCHANGED <<time, lease, wrote>>

(* Mutation: the release deletes the row whoever owns it.                  *)
ReleaseAnyones(o) ==
    /\ process[o].at = "closing"
    /\ lease' = NoLease
    /\ Becomes(o, [process[o] EXCEPT !.at = "ended"])
    /\ UNCHANGED <<time, wrote>>

ReleaseRuntimeInstance(o) ==
    /\ process[o].at = "closing"
    /\ lease' = IF lease.owner = o THEN NoLease ELSE lease
    /\ Becomes(o, [process[o] EXCEPT !.at = "ended"])
    /\ UNCHANGED <<time, wrote>>

(* The process is killed, or serve returns an error and log.Fatal ends it  *)
(* without the deferred release.                                           *)
Crash(o) ==
    /\ process[o].at \notin {"none", "ended"}
    /\ Becomes(o, [at |-> "ended", now |-> 0, renews |-> FALSE])
    /\ UNCHANGED <<time, lease, wrote>>

LeaseNext ==
    \/ TimePasses
    \/ \E o \in Owners :
          \/ Start(o) \/ SyncSchedules(o) \/ ReadClock(o)
          \/ AcquireRuntimeInstance(o) \/ RenewRuntimeInstance(o)
          \/ Shutdown(o) \/ ReleaseRuntimeInstance(o) \/ Crash(o)

LeaseSpec == LeaseInit /\ [][LeaseNext]_leaseVars

(* The lease of a process that serves is taken over only when it was not   *)
(* renewed for longer than TTL: stalls shorter than that, late clock       *)
(* readings of the newcomer and shutdowns of other processes never cost a  *)
(* live process its lease.                                                 *)
TakenOnlyWhenSilent ==
    [][\A o \in Owners :
          (lease.owner = o /\ lease'.owner # o)
              => \/ process[o].at \in {"closing", "ended"}
                 \/ time - lease.renewedAt > TTL]_leaseVars

(* The holder of the lease is a process that took it and did not give it   *)
(* up, and it never counts on a renewal in the future.                     *)
HolderTookLease ==
    lease.owner # NoOwner =>
        /\ process[lease.owner].at \in {"serving", "closing", "ended"}
        /\ lease.renewedAt <= time

=============================================================================
