---------------------------- MODULE SessionPolicy ---------------------------
(***************************************************************************)
(* What SecureDocs promises about sessions, without epochs, revocation     *)
(* lists, database rows or requests in flight: which sessions are live,    *)
(* and the only events by which one begins or ends.  Sessions implements   *)
(* it (Sessions!Policy).                                                   *)
(***************************************************************************)
EXTENDS Naturals

CONSTANTS Jtis,  \* sessions
          Ids,   \* accounts
          Life,  \* how long a session lasts
          None   \* a session not made yet

VARIABLES now,       \* the time of day
          sessions,  \* the account and the expiry of every session ever made
          live       \* the sessions that authenticate a request

vars == <<now, sessions, live>>

Session == [acct : Ids, exp : Nat]

TypeOK ==
  /\ now \in Nat
  /\ sessions \in [Jtis -> Session \cup {None}]
  /\ live \subseteq {j \in Jtis : sessions[j] # None}

Init ==
  /\ now = 0
  /\ sessions = [j \in Jtis |-> None]
  /\ live = {}

New(j, i) ==
  /\ sessions[j] = None
  /\ sessions' = [sessions EXCEPT ![j] = [acct |-> i, exp |-> now + Life]]

\* A session ends by itself when its time is over, and no earlier.
Pass ==
  /\ now' = now + 1
  /\ live' = {j \in live : now' < sessions[j].exp}
  /\ UNCHANGED sessions

\* A login or a registration: one more session, no other is touched.
Open(i) ==
  \E j \in Jtis : /\ New(j, i)
                  /\ live' = live \cup {j}
                  /\ UNCHANGED now

\* A login overtaken by a change of the password: the session never lives.
Stillborn(i) ==
  \E j \in Jtis : /\ New(j, i)
                  /\ UNCHANGED <<live, now>>

\* A logout ends one session, the one that asked for it.
Close(j) ==
  /\ live' = live \ {j}
  /\ UNCHANGED <<now, sessions>>

\* A refresh replaces a session that is live, or that expired while the
\* request waited (even one that had been closed before), by one of the same
\* account.
Exchange(j) ==
  /\ sessions[j] # None
  /\ j \in live \/ sessions[j].exp <= now
  /\ \E k \in Jtis : /\ New(k, sessions[j].acct)
                     /\ live' = (live \ {j}) \cup {k}
                     /\ UNCHANGED now

\* A new password ends every session of the account and of no other, and
\* starts one when it was the account itself that changed it.
NewPassword(i) ==
  LET others == {j \in live : sessions[j].acct # i}
  IN \/ /\ live' = others
        /\ UNCHANGED <<now, sessions>>
     \/ \E k \in Jtis : /\ New(k, i)
                        /\ live' = others \cup {k}
                        /\ UNCHANGED now

\* The database is made anew: nobody is logged in.
StartOver ==
  /\ live' = {}
  /\ UNCHANGED <<now, sessions>>

Next ==
  \/ Pass
  \/ StartOver
  \/ \E j \in Jtis : Close(j) \/ Exchange(j)
  \/ \E i \in Ids : Open(i) \/ Stillborn(i) \/ NewPassword(i)

Spec == Init /\ [][Next]_vars
=============================================================================
