------------------------------ MODULE Acceptor ------------------------------
(***************************************************************************)
(* The Acceptor of src/src/net/Acceptor.cpp at the limit of descriptors:   *)
(* the spare descriptor m_idleFd, given up so that a connection that       *)
(* cannot be accepted is at least refused, and the level triggered poll,   *)
(* which reports the listening socket as long as its backlog is not empty. *)
(*                                                                         *)
(* The base loop's thread is outside onRead ("idle") or, after EMFILE, at  *)
(* the call it makes next: "close", "accept", "refuse" or "open"; "gone"   *)
(* is after the destructor.  Logging is taken to leave errno alone.        *)
(***************************************************************************)
EXTENDS Naturals

CONSTANTS
  Descriptors,  \* how many descriptors the process may still open
  MaxArrivals,  \* bound: connections that arrive
  Others        \* whether other threads may open descriptors while onRead runs

ASSUME AcceptorAssumption ==
  Descriptors \in Nat \ {0} /\ MaxArrivals \in Nat /\ Others \in BOOLEAN

VARIABLES
  pc,
  m_listening,
  m_idleFd,  \* "null" (/dev/null), "connection", "closed" or "-1"
  free,      \* descriptors that can be opened
  backlog,   \* connections waiting in the listening socket
  accepted,  \* connections handed to m_newConnectionCallback and open
  others,    \* descriptors other threads hold
  arrivals   \* bound: connections arrived

acceptorVars ==
  <<pc, m_listening, m_idleFd, free, backlog, accepted, others, arrivals>>

-----------------------------------------------------------------------------
listen ==
  /\ pc = "idle" /\ ~m_listening
  /\ m_listening' = TRUE
  /\ UNCHANGED <<pc, m_idleFd, free, backlog, accepted, others, arrivals>>

Arrive ==
  /\ m_listening
  /\ arrivals < MaxArrivals
  /\ arrivals' = arrivals + 1
  /\ backlog' = backlog + 1
  /\ UNCHANGED <<pc, m_listening, m_idleFd, free, accepted, others>>

\* onRead whose accept succeeds.
onRead ==
  /\ pc = "idle" /\ backlog > 0 /\ free > 0
  /\ free' = free - 1
  /\ backlog' = backlog - 1
  /\ accepted' = accepted + 1
  /\ UNCHANGED <<pc, m_listening, m_idleFd, others, arrivals>>

\* onRead whose accept fails because the connection is gone already: ECONNABORTED and the
\* network's errors.  Those that leave it in the backlog (EINTR, ENFILE, ENOBUFS) change
\* nothing at all: onRead has only logged them, and is called again.
onReadAborted ==
  /\ pc = "idle" /\ backlog > 0 /\ free > 0
  /\ backlog' = backlog - 1
  /\ UNCHANGED <<pc, m_listening, m_idleFd, free, accepted, others, arrivals>>

\* onRead whose accept fails with EMFILE.
onReadLimit ==
  /\ pc = "idle" /\ backlog > 0 /\ free = 0
  /\ pc' = "close"
  /\ UNCHANGED <<m_listening, m_idleFd, free, backlog, accepted, others, arrivals>>

CloseIdle ==
  /\ pc = "close"
  /\ pc' = "accept"
  /\ IF m_idleFd = "null"
       THEN m_idleFd' = "closed" /\ free' = free + 1
       ELSE UNCHANGED <<m_idleFd, free>>
  /\ UNCHANGED <<m_listening, backlog, accepted, others, arrivals>>

\* Mutant: the connection is not accepted, only the spare descriptor reopened.
AcceptNothing ==
  /\ pc = "accept"
  /\ pc' = "open"
  /\ UNCHANGED <<m_listening, m_idleFd, free, backlog, accepted, others, arrivals>>

AcceptIdle ==
  /\ pc = "accept"
  /\ pc' = "refuse"
  /\ IF free > 0
       THEN m_idleFd' = "connection" /\ free' = free - 1 /\ backlog' = backlog - 1
       ELSE m_idleFd' = "-1" /\ UNCHANGED <<free, backlog>>
  /\ UNCHANGED <<m_listening, accepted, others, arrivals>>

\* Mutant: the refused connection is not closed.
RefuseNot ==
  /\ pc = "refuse"
  /\ pc' = "open"
  /\ UNCHANGED <<m_listening, m_idleFd, free, backlog, accepted, others, arrivals>>

Refuse ==
  /\ pc = "refuse"
  /\ pc' = "open"
  /\ IF m_idleFd = "connection"
       THEN m_idleFd' = "closed" /\ free' = free + 1
       ELSE UNCHANGED <<m_idleFd, free>>
  /\ UNCHANGED <<m_listening, backlog, accepted, others, arrivals>>

OpenIdle ==
  /\ pc = "open"
  /\ pc' = "idle"
  /\ IF free > 0
       THEN m_idleFd' = "null" /\ free' = free - 1
       ELSE m_idleFd' = "-1" /\ UNCHANGED free
  /\ UNCHANGED <<m_listening, backlog, accepted, others, arrivals>>

\* ~Acceptor, and ~Channel, which closes the listening socket.  Nobody closes the
\* spare descriptor.
CloseListener ==
  /\ pc = "idle" /\ m_listening
  /\ pc' = "gone"
  /\ m_listening' = FALSE
  /\ backlog' = 0
  /\ free' = free + 1
  /\ UNCHANGED <<m_idleFd, accepted, others, arrivals>>

-----------------------------------------------------------------------------
(* The rest of the process.                                                *)

\* An accepted connection is deleted, which closes its descriptor; an I/O loop may do
\* so while the base loop is in onRead.
ConnectionEnds ==
  /\ accepted > 0
  /\ accepted' = accepted - 1
  /\ free' = free + 1
  /\ UNCHANGED <<pc, m_listening, m_idleFd, backlog, others, arrivals>>

OtherOpens ==
  /\ free > 0
  /\ pc \in {"idle", "gone"} \/ Others
  /\ others' = others + 1
  /\ free' = free - 1
  /\ UNCHANGED <<pc, m_listening, m_idleFd, backlog, accepted, arrivals>>

OtherCloses ==
  /\ others > 0
  /\ others' = others - 1
  /\ free' = free + 1
  /\ UNCHANGED <<pc, m_listening, m_idleFd, backlog, accepted, arrivals>>

-----------------------------------------------------------------------------
\* The constructor opens the spare descriptor.
AcceptorInit ==
  /\ pc = "idle" /\ m_listening = FALSE
  /\ m_idleFd = "null"
  /\ free = Descriptors - 1
  /\ backlog = 0 /\ accepted = 0 /\ others = 0 /\ arrivals = 0

\* The steps of onRead when it cannot accept.
LimitStep == onReadLimit \/ CloseIdle \/ AcceptIdle \/ Refuse \/ OpenIdle

AcceptorNext ==
  \/ listen \/ Arrive \/ onRead \/ onReadAborted \/ LimitStep \/ CloseListener
  \/ ConnectionEnds \/ OtherOpens \/ OtherCloses

AcceptorSpec == AcceptorInit /\ [][AcceptorNext]_acceptorVars

-----------------------------------------------------------------------------
(* Properties.                                                             *)

\* The spare descriptor is there again whenever onRead has returned, however often
\* the limit was reached: what is given up for one connection is won back.
SpareKept == pc = "idle" => m_idleFd = "null"
=============================================================================
