------------------------------- MODULE Channel -------------------------------
(***************************************************************************)
(* A Channel of src/src/net/Channel.h together with what EpollPoller and   *)
(* the kernel know of it: operators on one channel record                  *)
(*   events      m_events, the interest the channel asks for               *)
(*   status      m_status: kNew, kAdded or kDeleted                        *)
(*   mapped      whether Poller::m_channels holds it                       *)
(*   registered  whether the kernel's epoll instance holds its descriptor  *)
(*   interest    the events it is registered for                           *)
(*   failed      whether an epoll_ctl on it failed (and was only logged)   *)
(***************************************************************************)
EXTENDS Naturals

Events == {"in", "out"}    \* kReadEvent (EPOLLIN | EPOLLPRI) and kWriteEvent (EPOLLOUT)

Statuses == {"kNew", "kAdded", "kDeleted"}

ChannelType ==
  [events : SUBSET Events, status : Statuses, mapped : BOOLEAN,
   registered : BOOLEAN, interest : SUBSET Events, failed : BOOLEAN]

NewChannel ==
  [events |-> {}, status |-> "kNew", mapped |-> FALSE,
   registered |-> FALSE, interest |-> {}, failed |-> FALSE]

-----------------------------------------------------------------------------
(* epoll_ctl: ADD fails on a descriptor that is registered (EEXIST), MOD   *)
(* and DEL on one that is not (ENOENT).                                    *)

CtlAdd(ch) ==
  IF ch.registered
    THEN [ch EXCEPT !.failed = TRUE]
    ELSE [ch EXCEPT !.registered = TRUE, !.interest = ch.events]

CtlMod(ch) ==
  IF ch.registered
    THEN [ch EXCEPT !.interest = ch.events]
    ELSE [ch EXCEPT !.failed = TRUE]

CtlDel(ch) ==
  IF ch.registered
    THEN [ch EXCEPT !.registered = FALSE, !.interest = {}]
    ELSE [ch EXCEPT !.failed = TRUE]

-----------------------------------------------------------------------------
(* EpollPoller::updateChannel and removeChannel.                           *)

\* Mutant: a channel without events is deleted, but keeps the status kAdded.
UpdateForgetsStatus(ch) ==
  IF ch.status \in {"kNew", "kDeleted"}
    THEN CtlAdd([ch EXCEPT !.status = "kAdded", !.mapped = TRUE])
    ELSE IF ch.events = {}
      THEN CtlDel(ch)
      ELSE CtlMod(ch)

\* A channel that is new or deleted is added, be its events empty; one that is
\* added is deleted when its events are, and modified otherwise.
Update(ch) ==
  IF ch.status \in {"kNew", "kDeleted"}
    THEN CtlAdd([ch EXCEPT !.status = "kAdded", !.mapped = @ \/ ch.status = "kNew"])
    ELSE IF ch.events = {}
      THEN [CtlDel(ch) EXCEPT !.status = "kDeleted"]
      ELSE CtlMod(ch)

\* Mutant: removal leaves the registration of an added channel in place.
RemoveKeepsRegistration(ch) == [ch EXCEPT !.mapped = FALSE, !.status = "kNew"]

\* Channel::remove.
Remove(ch) ==
  LET unmapped == [ch EXCEPT !.mapped = FALSE]
      deleted  == IF ch.status = "kAdded" THEN CtlDel(unmapped) ELSE unmapped
  IN  [deleted EXCEPT !.status = "kNew"]

-----------------------------------------------------------------------------
(* The operations of Channel.h.                                            *)

EnableReading(ch)  == Update([ch EXCEPT !.events = @ \cup {"in"}])
DisableReading(ch) == Update([ch EXCEPT !.events = @ \ {"in"}])
EnableWriting(ch)  == Update([ch EXCEPT !.events = @ \cup {"out"}])
DisableWriting(ch) == Update([ch EXCEPT !.events = @ \ {"out"}])
DisableAll(ch)     == Update([ch EXCEPT !.events = {}])

IsWriting(ch) == "out" \in ch.events

\* What m_status promises: the poller and the kernel agree on the channel.
InSync(ch) ==
  /\ ~ch.failed
  /\ ch.registered = (ch.status = "kAdded")
  /\ ch.registered => ch.interest = ch.events
  /\ ch.mapped = (ch.status # "kNew")
=============================================================================
