----------------------------- MODULE SessionPool -----------------------------
(***************************************************************************)
(* A provider's pool of language sessions, one per repository              *)
(* (LanguageProvider::session of the Java, Rust and TypeScript providers,  *)
(* which share this code).  The pool is looked at under its lock, a        *)
(* missing session is started outside it, and inserting it is where two    *)
(* starters find out about each other.                                     *)
(*                                                                         *)
(* A session is the number of its start; Server processes are live from    *)
(* the start until their session is dropped or they exit.  Tenants gives   *)
(* the operators their callers.                                            *)
(***************************************************************************)
EXTENDS Integers, FiniteSets

CONSTANTS
    Repos,      \* repository identities
    MaxStarts   \* bound: sessions started in a behaviour

ASSUME StartsAssumption == MaxStarts \in Nat

VARIABLES
    sessions,   \* sessions[k]: the pooled session of repository k, 0: none
    started,    \* how many sessions were ever started
    live        \* sessions whose server process runs

poolVars == <<sessions, started, live>>

NoSession == 0
Sessions  == 1..MaxStarts

-----------------------------------------------------------------------------
Pooled(k) == sessions[k] # NoSession

(* JdtlsSession::start and its like: a new server process.                 *)
Start ==
    /\ started < MaxStarts
    /\ started' = started + 1
    /\ live' = live \union {started + 1}
    /\ UNCHANGED sessions

(* Mutant: the later starter replaces the session that is there.           *)
insert_over(k, s) == sessions' = [sessions EXCEPT ![k] = s]

(* entry(k).or_insert(s): the first starter's session stays.               *)
or_insert(k, s) == sessions' = [sessions EXCEPT ![k] = IF Pooled(k) THEN @ ELSE s]

(* Mutant: the loser's server is not stopped.                              *)
leave_running(k, s) == UNCHANGED live

(* The session that was not inserted is dropped, and its server with it    *)
(* (kill_on_drop).                                                         *)
DropLoser(k, s) == live' = IF sessions'[k] = s THEN live ELSE live \ {s}

PoolInit ==
    /\ sessions = [k \in Repos |-> NoSession]
    /\ started = 0
    /\ live = {}

PoolTypeOK ==
    /\ sessions \in [Repos -> Sessions \union {NoSession}]
    /\ started \in 0..MaxStarts
    /\ live \in SUBSET Sessions
=============================================================================
