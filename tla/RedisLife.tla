------------------------------ MODULE RedisLife ------------------------------
(***************************************************************************)
(* The lifetime of one Redis key, as the code of chatbone/broker.py sees   *)
(* and sets it.  A lifetime is Absent, Persistent, or the half seconds the *)
(* key has left: TTL rounds to the nearest second, so that a key with less *)
(* than half a second left answers 0.                                      *)
(***************************************************************************)
EXTENDS Integers

Absent     == 0
Persistent == -1

\* TTL: -2 no such key, -1 no expiry, else the time left to the nearest second.
SecondsLeft(life) == CASE life = Absent     -> -2
                       [] life = Persistent -> -1
                       [] OTHER             -> life \div 2

\* expire_cascade: a positive number of seconds is EXPIRE, anything else PERSIST.
Lifespan(seconds) == IF seconds > 0 THEN 2 * seconds ELSE Persistent

\* Variant of Relived: SET instead of EXPIRE, which creates the key.
RelivedCreates(life, seconds) == Lifespan(seconds)

\* What expire_cascade makes of a key's lifetime; neither command creates a key.
Relived(life, seconds) == IF life = Absent THEN Absent ELSE Lifespan(seconds)

\* Half a second later.
Aged(life) == IF life > 0 THEN life - 1 ELSE life

=============================================================================
