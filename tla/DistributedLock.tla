-------------------------- MODULE DistributedLock --------------------------
(***************************************************************************)
(* One Redis key of DistributedLockService: the token stored under it and  *)
(* the time it has left.  Each operator is what one command (SET NX PX, a  *)
(* Lua script, DEL) makes of the key; the scripts run atomically in Redis. *)
(***************************************************************************)
EXTENDS Integers

CONSTANTS Tokens,     \* a token is fresh for every acquire()
          NoToken,    \* null
          LeaseTtl    \* ttlMs of the lock, in clock ticks

ASSUME LockAssumption ==
    /\ NoToken \notin Tokens
    /\ LeaseTtl \in Nat \ {0}

Lock == [token: Tokens \union {NoToken}, ttl: 0 .. LeaseTtl]

Free == [token |-> NoToken, ttl |-> 0]

\* Mutant: SET without NX.
CanAcquireAlways(l) == TRUE

\* SET key token PX ttl NX succeeds on a free key only.
CanAcquire(l) == l.token = NoToken

Acquired(l, t) == [token |-> t, ttl |-> LeaseTtl]

\* RELEASE_SCRIPT deletes the key if it holds the caller's token; release()
\* without a token does nothing.
Released(l, t) == IF t # NoToken /\ l.token = t THEN Free ELSE l

\* StaleLockSweepService deletes the key whoever holds it.
Swept(l) == Free

\* Mutant: the key is set without PX.
LapsedNever(l) == l

\* The key after one clock tick.
Lapsed(l) == IF l.ttl <= 1 THEN Free ELSE [l EXCEPT !.ttl = @ - 1]
=============================================================================
