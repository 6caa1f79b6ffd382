------------------------------ MODULE MCThreads -------------------------------
(* Finite instances of BrokerSession, which it extends, and of RowLocks: what   *)
(* the two threads of the service do to each other in memory and in MySQL.  The *)
(* initial state chooses the part that runs; the other stays where it begins.   *)
EXTENDS BrokerSession, RowLocks

VARIABLE part  \* the part that runs

\* A trade that the cash covers and one that it does not.
Amounts == <<3, -7>>

PartInit == part \in {"session", "locks"} /\ Init /\ LocksInit

PartNext == \/ part = "session" /\ Next /\ UNCHANGED <<part, locksVars>>
            \/ part = "locks" /\ LocksNext /\ UNCHANGED <<part, vars>>

\* The fairness of each part, while it runs.
PartSpec ==
  /\ PartInit /\ [][PartNext]_<<part, vars, locksVars>>
  /\ WF_vars(part = "session" /\ Engine) /\ WF_vars(part = "session" /\ Consumer)
  /\ WF_vars(part = "session" /\ Put)
  /\ WF_locksVars(part = "locks" /\ OpenSecond)
  /\ \A c \in {"engine", "consumer", "second"} : WF_locksVars(part = "locks" /\ Step(c))
-----------------------------------------------------------------------------
(* Properties. *)

\* The engine thread gets out of every session and every transaction, and the
\* consumer thread out of every transaction and through its queue: neither waits
\* for the other for ever, not when a callback raises nor when it pauses the
\* account from inside its own transaction (engine.py _run_broker_job,
\* callbacks.py _run, _pause_for_unknown_local).  One formula a thread: as one
\* part rests, they are SessionsEnd, EventsAreConsumed and TransactionsEnd, whose
\* second connection is open only while the consumer's transaction is.
ThreadsServe ==
  /\ InSession \/ Open("engine") ~> OutOfSession /\ ~Open("engine")
  /\ Waiting \/ Open("consumer") ~> (~Waiting \/ stop) /\ ~Open("consumer")
=============================================================================
