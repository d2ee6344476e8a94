----------------------------- MODULE MCDispatch -----------------------------
EXTENDS FactoryDispatch

\* The one job is either the plain order's, with all restarts, or the prepared one's, with
\* one: the two orders share the slot and the rows of neither.  Nothing looks at the pause of
\* dispatch once the only prepared order is claimed.
PlainUntouched   == (\A o \in Plain : order[o] = "queued") /\ (\A c \in Starts : ~Awaiting(c))
                    /\ ~(Busy /\ job.order \in Plain)
ManagedUntouched == \A o \in Managed : order[o] = "absent"
PauseMatters     == \A o \in Managed : log[o].claimed => ~paused
Followed == (PlainUntouched /\ restarts <= 1 /\ PauseMatters) \/ ManagedUntouched
=============================================================================
