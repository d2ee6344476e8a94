--------------------------- MODULE DispatchProofs ---------------------------
(***************************************************************************)
(* What the job manager and the dispatch of a connection keep, for any     *)
(* orders, start calls, handlers and restarts, with or without signed      *)
(* results, a gateway and an injected agent.                               *)
(*                                                                         *)
(* The argument.  The job is at the last run of its order, which is the    *)
(* only open one.  A process of a plain order is the one the job waits     *)
(* for or is held with its order.  A prepared order has one run, which is  *)
(* executed once, after its claim; what a read found of an attempt that    *)
(* was over when it asked stays true until it decides.  From this follow   *)
(* what a terminal answer says, the bounds on runs and workers, that an    *)
(* abort is final, and that an attempt is a BoundAttempt at every step.    *)
(***************************************************************************)
EXTENDS FactoryDispatch, TLAPS

Starting == {"resolve", "register"}
Working  == Pcs \ {"resolve", "register", "closing"}
JobOn(o) == Busy /\ job.order = o
Last(o)  == runs[o][Len(runs[o])]

\* The job and the run it is at.
JobAt ==
  /\ Busy /\ job.pc \in Starting => job.n = 0 /\ (job.prepare <=> job.order \in Managed)
  /\ Busy /\ job.pc \notin Starting =>
       /\ job.n = Len(runs[job.order]) /\ job.n > 0
       /\ ThisRun.kind = IF job.order \in Managed THEN "claimed" ELSE "started"
  /\ Busy /\ job.pc \in Working => ThisRun.state \in Open
  /\ Busy /\ job.pc = "closing" => ThisRun.state \in Closed
  /\ Busy /\ job.order \in Plain =>
       /\ ~job.gated /\ job.step = "first"
       /\ job.pc \notin {"checkpoint", "open", "complete", "closing"}
       /\ job.pc \in {"begin", "reproduce", "preflight", "spawn"} => ThisRun.recorded = {}
       /\ job.pc = "agent" => ThisRun.recorded = {"first"}

\* Starts that may still succeed, and runs that are still to be registered, are within the limit.
Limit(o) == IF o \in Managed THEN 1 ELSE 2
RunsKept ==
  /\ \A o \in Orders : Len(runs[o]) <= MaxAttempts /\ Len(runs[o]) <= Limit(o)
  /\ \A o \in Orders : JobOn(o) /\ job.n = 0 => Len(runs[o]) < Limit(o)
  /\ \A c \in Starts : Awaiting(c) => starts[c].order \in Plain /\ (starts[c].fresh => Len(runs[starts[c].order]) < 2)

\* A process of a plain order is the one the job waits for, or holds its order.
Held(p) == hold[p[1]] # NoHold /\
  (hold[p[1]].clearable => hold[p[1]].pids = {} \/ p \in hold[p[1]].pids)
HoldInv ==
  /\ \A o \in Plain : hold[o] # NoHold => runs[o] # <<>> /\ Last(o).state = "interrupted" /\ ~JobOn(o)
  /\ \A p \in alive : p[1] \in Plain => Held(p) \/ (At("agent") /\ p = Agent("first"))
  /\ \A p \in alive : p[1] \in Managed => p[2] = 1

ManagedInv == \A o \in Managed :
  /\ order[o] = "absent" => runs[o] = <<>> /\ ~JobOn(o)
  /\ HasRun(o) \/ JobOn(o) => authority[o] # "none"
  /\ ~HasRun(o) => ~Answered(o) /\ ~log[o].settled
  /\ HasRun(o) =>
       /\ TheRun(o).kind = IF log[o].claimed THEN "claimed" ELSE "prepared"
       /\ ~log[o].claimed => TheRun(o).recorded = {} /\ (TheRun(o).state = "planning" \/ IsTerminal(o))
       /\ TheRun(o).recovered => log[o].claimed /\ TheRun(o).state \in {"interrupted", "cancelled"}
       /\ log[o].settled => log[o].claimed /\ ~ActiveRun(o)

\* What a read found when it asked: the attempt was over.
Over(o) ==
  /\ \A p \in ProcsOf(o, 1) : p \notin alive
  /\ IF log[o].claimed THEN TheRun(o).state \in Closed ELSE log[o].stopped
Sound(call) ==
  /\ HasRun(call.order)
  /\ call.ripe => /\ Over(call.order)
                  /\ IsTerminal(call.order) \/
                       (TheRun(call.order).state = call.state /\ log[call.order].claimed = call.claimed)
CallInv == \A c \in Callers : calls[c] # NoCall => Sound(calls[c])

\* What a terminal answer says: TerminalFenced, TerminalQuiet and TerminalTruth of one attempt.
Final(o) ==
  /\ HasRun(o) /\ authority[o] \in {"fenced", "cancelled", "gone"}
  /\ ~ActiveRun(o) /\ \A p \in ProcsOf(o, 1) : p \notin alive
  /\ TheRun(o).state = CASE log[o].terminal = "COMPLETED"  -> "ready_for_review"
                         [] log[o].terminal = "FAILED" -> "failed"
                         [] OTHER                      -> "cancelled"
  /\ log[o].terminal = "NOT_DISPATCHED" => TheRun(o).recorded = {}
TerminalInv == \A o \in Managed : IsTerminal(o) => Final(o)

DispatchInv ==
  /\ DispatchTypeOK /\ JobAt /\ RunsKept /\ HoldInv /\ ManagedInv /\ CallInv /\ TerminalInv
  /\ RecordsAgree /\ Attended
-----------------------------------------------------------------------------
(* Writing a run *)

RunsTyped == order \in [Orders -> OrderState] /\ runs \in [Orders -> Seq(Run)]

\* The n-th run of an order becomes `run', and nothing else of the runs changes.
Wrote(o, n, run) ==
  /\ runs' \in [Orders -> Seq(Run)]
  /\ \A q \in Orders : Len(runs'[q]) = Len(runs[q])
  /\ \A q \in Orders : \A m \in 1..Len(runs[q]) :
       runs'[q][m] = IF q = o /\ m = n THEN run ELSE runs[q][m]

LEMMA RunWritten ==
  ASSUME runs \in [Orders -> Seq(Run)], NEW o \in Orders, NEW n \in 1..Len(runs[o]), NEW run \in Run,
         runs' = [runs EXCEPT ![o][n] = run]
  PROVE  Wrote(o, n, run)
<1> DEFINE row == [runs[o] EXCEPT ![n] = run]
<1>1. row \in Seq(Run) /\ Len(row) = Len(runs[o]) OBVIOUS
<1>2. \A m \in 1..Len(runs[o]) : row[m] = IF m = n THEN run ELSE runs[o][m] OBVIOUS
<1>3. runs' = [runs EXCEPT ![o] = row] OBVIOUS
<1> HIDE DEF row
<1> QED BY <1>1, <1>2, <1>3 DEF Wrote

\* Nothing was written.
LEMMA NothingWritten ==
  ASSUME runs \in [Orders -> Seq(Run)], NEW o \in Orders, NEW n \in 1..Len(runs[o]), UNCHANGED runs
  PROVE  Wrote(o, n, runs[o][n])
BY DEF Wrote

LEMMA Rows ==
  ASSUME runs \in [Orders -> Seq(Run)], NEW o \in Orders
  PROVE  /\ Len(runs[o]) \in Nat /\ DOMAIN runs[o] = 1..Len(runs[o])
         /\ \A n \in 1..Len(runs[o]) : runs[o][n] \in Run
         /\ runs[o] = <<>> <=> Len(runs[o]) = 0
OBVIOUS
-----------------------------------------------------------------------------
(* Steps of the job while its run is open *)

Before == {"begin", "reproduce", "preflight", "spawn"}

\* Start calls keep what they read, or are refused, or find that their order was saved since.
StartsKept ==
  /\ starts' \in [Starts -> [order : Orders, fresh : BOOLEAN] \cup {NoCall}]
  /\ \A c \in Starts : starts'[c] # NoCall =>
       /\ starts[c] # NoCall /\ starts'[c].order = starts[c].order
       /\ starts'[c].fresh => starts[c].fresh

\* The values that no argument depends on keep their types.
OthersTyped ==
  /\ paused' \in BOOLEAN /\ alive' \subseteq Process
  /\ containers' \subseteq Orders \X (1..MaxAttempts) /\ restarts' \in 0..MaxRestarts
  /\ late' \subseteq Managed

\* Calls go on with what they read, or end.
CallsKept ==
  /\ calls' \in [Callers -> Call \cup {NoCall}]
  /\ \A c \in Callers : calls'[c] # NoCall => calls'[c] = calls[c]

\* What an order may say while its last run is in a state.
Agrees(state, orderState) ==
  orderState \in CASE state = "failed"      -> {"failed", "needs_investigation", "awaiting_environment"}
                   [] state = "interrupted" -> {"interrupted", "awaiting_environment"}
                   [] OTHER                 -> {state}

\* A step of the job writes its run and its order.
Writes(run, orderState) ==
  /\ Busy /\ job.pc \in Working /\ run \in Run
  /\ Wrote(job.order, job.n, run)
  /\ run.kind = ThisRun.kind
  /\ job.order \in Managed /\ run.recovered => run.state = "interrupted"
  /\ run.result \in {"none", run.state}
  /\ \/ job' = NoJob /\ run.state \in Closed
     \/ job' \in Job /\ job'.order = job.order /\ job'.n = job.n
  /\ order' = [order EXCEPT ![job.order] = orderState]
  /\ orderState \in OrderState \ {"absent"} /\ Agrees(run.state, orderState)
  /\ StartsKept /\ CallsKept /\ OthersTyped /\ hold' \in [Orders -> Hold \cup {NoHold}]
  /\ \A p \in alive' : p \in alive \/ \E s \in Steps : p = Agent(s)
  /\ UNCHANGED <<log, authority>>

LEMMA ManagedOnce ==
  ASSUME DispatchInv, NEW o \in Managed
  PROVE  o \in Orders /\ (Len(runs[o]) = 0 \/ Len(runs[o]) = 1)
<1>1. o \in Orders /\ runs \in [Orders -> Seq(Run)] BY DEF Orders, DispatchInv, DispatchTypeOK, JobTypeOK
<1>2. Len(runs[o]) \in Nat BY <1>1, Rows
<1>3. Len(runs[o]) <= 1 BY <1>1 DEF DispatchInv, RunsKept, Limit
<1>4. \A k \in Nat : k <= 1 => k = 0 \/ k = 1 OBVIOUS
<1> QED BY <1>1, <1>2, <1>3, <1>4

LEMMA JobWorks ==
  ASSUME DispatchInv, Busy, job.pc \in Working
  PROVE  /\ job \in Job /\ job.order \in Orders
         /\ runs \in [Orders -> Seq(Run)] /\ order \in [Orders -> OrderState]
         /\ job.n = Len(runs[job.order]) /\ job.n \in 1..Len(runs[job.order])
         /\ ThisRun \in Run /\ ThisRun.state \in Open /\ ThisRun.result = "none"
         /\ ThisRun.kind = IF job.order \in Managed THEN "claimed" ELSE "started"
         /\ job.order \in Managed =>
              /\ job.n = 1 /\ ThisRun = TheRun(job.order) /\ HasRun(job.order)
              /\ log[job.order].claimed /\ ~IsTerminal(job.order) /\ ~ThisRun.recovered
              /\ ~log[job.order].settled /\ authority[job.order] # "none"
<1>1. /\ job \in Job /\ job.order \in Orders
      /\ runs \in [Orders -> Seq(Run)] /\ order \in [Orders -> OrderState]
  BY DEF DispatchInv, DispatchTypeOK, JobTypeOK, Busy, Job
<1>2. /\ job.n = Len(runs[job.order]) /\ job.n > 0 /\ ThisRun.state \in Open
      /\ ThisRun.kind = IF job.order \in Managed THEN "claimed" ELSE "started"
  BY DEF DispatchInv, JobAt, Working, Starting
<1>3. job.n \in 1..Len(runs[job.order]) /\ runs[job.order] # <<>> BY <1>1, <1>2, Rows
<1>4. ThisRun \in Run BY <1>1, <1>3, Rows DEF ThisRun
<1>5. ThisRun.result = "none"
  <2>1. job.n \in DOMAIN runs[job.order] BY <1>1, <1>3, Rows
  <2>2. ThisRun.result # "none" => ThisRun.result = ThisRun.state
    BY <1>1, <2>1 DEF DispatchInv, RecordsAgree, ResultTrue, ThisRun
  <2> QED BY <1>2, <1>4, <2>2 DEF Run, Open
<1>6. ASSUME job.order \in Managed
      PROVE  /\ job.n = 1 /\ ThisRun = TheRun(job.order) /\ HasRun(job.order)
             /\ log[job.order].claimed /\ ~IsTerminal(job.order) /\ ~ThisRun.recovered
             /\ ~log[job.order].settled /\ authority[job.order] # "none"
  <2>1. job.n = 1 BY <1>2, <1>3, <1>6, ManagedOnce
  <2>2. HasRun(job.order) BY <1>3 DEF HasRun
  <2>3. ThisRun = TheRun(job.order) BY <2>1 DEF ThisRun, TheRun
  <2>4. ActiveRun(job.order) BY <2>1 DEF ActiveRun
  <2>5. log[job.order].claimed /\ ~ThisRun.recovered /\ ~log[job.order].settled /\ authority[job.order] # "none"
    BY <1>2, <1>6, <2>2, <2>3, <2>4 DEF DispatchInv, ManagedInv, Open
  <2>6. ~IsTerminal(job.order) BY <1>6, <2>4 DEF DispatchInv, TerminalInv, Final
  <2> QED BY <2>1, <2>2, <2>3, <2>5, <2>6
<1> QED BY <1>1, <1>2, <1>3, <1>4, <1>5, <1>6

LEMMA WritesRows ==
  ASSUME DispatchInv, NEW run, NEW orderState, Writes(run, orderState)
  PROVE  /\ \A o \in Orders : Len(runs'[o]) = Len(runs[o]) /\ (runs'[o] = <<>> <=> runs[o] = <<>>)
         /\ \A o \in Orders : o # job.order => \A m \in 1..Len(runs[o]) : runs'[o][m] = runs[o][m]
         /\ runs'[job.order][job.n] = run /\ DOMAIN runs'[job.order] = 1..Len(runs[job.order])
         /\ \A o \in Managed : o # job.order => TheRun(o)' = TheRun(o) \/ ~HasRun(o)
         /\ \A o \in Managed : HasRun(o)' = HasRun(o)
         /\ \A o \in Managed : o # job.order => \A p \in alive' : p[1] = o => p \in alive
         /\ \A o \in Managed : ActiveRun(o)' => ActiveRun(o)
<1>1. /\ job.order \in Orders /\ runs \in [Orders -> Seq(Run)] /\ job.n \in 1..Len(runs[job.order])
  BY JobWorks DEF Writes
<1>2. /\ runs' \in [Orders -> Seq(Run)]
      /\ \A o \in Orders : Len(runs'[o]) = Len(runs[o])
      /\ \A o \in Orders : o # job.order => \A m \in 1..Len(runs[o]) : runs'[o][m] = runs[o][m]
      /\ runs'[job.order][job.n] = run
  BY <1>1 DEF Writes, Wrote
<1>3. \A o \in Orders : runs'[o] = <<>> <=> runs[o] = <<>> BY <1>1, <1>2, Rows
<1>4. DOMAIN runs'[job.order] = 1..Len(runs[job.order]) BY <1>1, <1>2
<1>5. \A o \in Managed : o # job.order => TheRun(o)' = TheRun(o) \/ ~HasRun(o)
  <2> SUFFICES ASSUME NEW o \in Managed, o # job.order, HasRun(o) PROVE runs'[o][1] = runs[o][1]
    BY DEF TheRun
  <2>1. 1 \in 1..Len(runs[o]) BY <1>1, ManagedOnce, Rows DEF HasRun
  <2> QED BY <1>2, <2>1, ManagedOnce
<1>6. \A o \in Managed : HasRun(o)' = HasRun(o) BY <1>3 DEF HasRun, Orders
<1>7. \A o \in Managed : o # job.order => \A p \in alive' : p[1] = o => p \in alive BY DEF Writes, Agent
<1>8. \A o \in Managed : ActiveRun(o)' => ActiveRun(o) BY DEF Writes, ActiveRun, Busy
<1> QED BY <1>2, <1>3, <1>4, <1>5, <1>6, <1>7, <1>8

LEMMA WritesTypes ==
  ASSUME DispatchInv, NEW run, NEW orderState, Writes(run, orderState)
  PROVE  DispatchTypeOK' /\ RunsKept' /\ Attended'
<1>1. /\ job.order \in Orders /\ runs \in [Orders -> Seq(Run)] /\ job.n \in 1..Len(runs[job.order])
      /\ order \in [Orders -> OrderState]
  BY JobWorks DEF Writes
<1>2. DispatchTypeOK'
  <2>1. order' \in [Orders -> OrderState] BY <1>1 DEF Writes
  <2> QED BY <2>1 DEF DispatchInv, DispatchTypeOK, JobTypeOK, Writes, Wrote, OthersTyped, StartsKept, CallsKept
<1>3. RunsKept'
  <2>1. \A o \in Orders : Len(runs'[o]) = Len(runs[o]) BY DEF Writes, Wrote
  <2>2. \A c \in Starts : starts'[c] # NoCall => starts'[c].order \in Plain /\ starts'[c].order \in Orders
    BY DEF DispatchInv, RunsKept, Awaiting, Writes, StartsKept, Orders
  <2>3. \A c \in Starts : starts'[c] # NoCall /\ starts'[c].fresh => Len(runs[starts'[c].order]) < 2
    BY DEF DispatchInv, RunsKept, Awaiting, Writes, StartsKept
  <2>4. job' # NoJob => job'.n # 0 BY <1>1 DEF Writes
  <2> QED BY <2>1, <2>2, <2>3, <2>4 DEF DispatchInv, RunsKept, Limit, JobOn, Awaiting, Busy
<1>4. Attended'
  <2> SUFFICES ASSUME NEW o \in Orders, NEW n \in 1..Len(runs[o]), runs'[o][n].state \in Open
               PROVE  (job' # NoJob /\ <<job'.order, job'.n>> = <<o, n>>) \/ runs'[o][n].kind = "prepared"
    <3>1. \A o \in Orders : DOMAIN runs'[o] = 1..Len(runs[o]) BY DEF Writes, Wrote
    <3> QED BY <3>1 DEF Attended, Attempt, Busy
  <2>1. CASE o = job.order /\ n = job.n
    <3>1. runs'[o][n] = run BY <2>1, WritesRows
    <3>2. run.state \notin Closed BY <3>1 DEF Open, Closed
    <3> QED BY <2>1, <3>2, Sentinels DEF Writes
  <2>2. CASE ~(o = job.order /\ n = job.n)
    <3>1. runs'[o][n] = runs[o][n] BY <2>2 DEF Writes, Wrote
    <3>2. n \in DOMAIN runs[o] BY <1>1, Rows
    <3> QED BY <2>2, <3>1, <3>2 DEF DispatchInv, Attended, Attempt
  <2> QED BY <2>1, <2>2
<1> QED BY <1>2, <1>3, <1>4

LEMMA WritesManaged ==
  ASSUME DispatchInv, NEW run, NEW orderState, Writes(run, orderState)
  PROVE  ManagedInv'
<1> SUFFICES ASSUME NEW o \in Managed
             PROVE  (/\ order[o] = "absent" => runs[o] = <<>> /\ ~JobOn(o)
                     /\ HasRun(o) \/ JobOn(o) => authority[o] # "none"
                     /\ ~HasRun(o) => ~Answered(o) /\ ~log[o].settled
                     /\ HasRun(o) =>
                          /\ TheRun(o).kind = IF log[o].claimed THEN "claimed" ELSE "prepared"
                          /\ ~log[o].claimed => TheRun(o).recorded = {} /\ (TheRun(o).state = "planning" \/ IsTerminal(o))
                          /\ TheRun(o).recovered => log[o].claimed /\ TheRun(o).state \in {"interrupted", "cancelled"}
                          /\ log[o].settled => log[o].claimed /\ ~ActiveRun(o))'
  BY DEF ManagedInv
<1>1. o \in Orders /\ log'[o] = log[o] /\ authority'[o] = authority[o] BY DEF Writes, Orders
<1>2. Answered(o)' = Answered(o) /\ IsTerminal(o)' = IsTerminal(o) BY <1>1 DEF Answered, IsTerminal
<1>3. (ActiveRun(o)' => ActiveRun(o)) /\ HasRun(o)' = HasRun(o) BY WritesRows
<1>4. CASE o # job.order
  <2>1. order'[o] = order[o] /\ ~JobOn(o)' BY <1>1, <1>4, JobWorks DEF Writes, JobOn, Busy
  <2>2. HasRun(o) => TheRun(o)' = TheRun(o) BY <1>4, WritesRows
  <2> QED BY <1>1, <1>2, <1>3, <2>1, <2>2 DEF DispatchInv, ManagedInv, HasRun
<1>5. CASE o = job.order
  <2>1. TheRun(o)' = run
    <3>1. job.n = 1 BY <1>5, JobWorks DEF Writes
    <3>2. runs'[job.order][job.n] = run BY WritesRows
    <3> QED BY <1>5, <3>1, <3>2 DEF TheRun
  <2>2. /\ log[o].claimed /\ ~log[o].settled /\ authority[o] # "none" /\ run.kind = "claimed"
    BY <1>5, JobWorks DEF Writes
  <2>3. order'[o] # "absent" BY <1>5, JobWorks DEF Writes
  <2>4. HasRun(o) BY <1>5, JobWorks DEF Writes
  <2>5. TheRun(o)'.kind = "claimed" /\ (TheRun(o)'.recovered => TheRun(o)'.state = "interrupted")
    BY <1>5, <2>1, <2>2 DEF Writes
  <2>6. log'[o].claimed /\ ~log'[o].settled /\ authority'[o] # "none" BY <1>1, <2>2
  <2>7. HasRun(o)' BY <1>3, <2>4
  <2> QED BY <2>3, <2>5, <2>6, <2>7
<1> QED BY <1>4, <1>5

\* What holds of an attempt once a connection was told that it is over.
LEMMA FinalStays ==
  ASSUME NEW o \in Managed, Final(o), TheRun(o)'.state = TheRun(o).state, TheRun(o)'.recorded = TheRun(o).recorded,
         HasRun(o)', ~ActiveRun(o)', \A p \in alive' : p[1] = o => p \in alive,
         log'[o].terminal = log[o].terminal,
         authority'[o] \in {"fenced", "cancelled", "gone"}
  PROVE  Final(o)'
<1>1. ProcsOf(o, 1)' = ProcsOf(o, 1) BY DEF ProcsOf, TheRun
<1>2. \A p \in ProcsOf(o, 1) : p[1] = o /\ p \notin alive BY DEF ProcsOf, Final
<1> QED BY <1>1, <1>2 DEF Final

\* A step that leaves an attempt alone, with its events, leaves alone what was found of it.
LEMMA SoundStays ==
  ASSUME NEW call, call.order \in Managed, Sound(call), HasRun(call.order)',
         TheRun(call.order)'.recorded = TheRun(call.order).recorded,
         TheRun(call.order)'.state = TheRun(call.order).state,
         \A p \in alive' : p[1] = call.order => p \in alive,
         log'[call.order].claimed = log[call.order].claimed,
         log[call.order].stopped => log'[call.order].stopped,
         IsTerminal(call.order) => IsTerminal(call.order)'
  PROVE  Sound(call)'
<1>1. ProcsOf(call.order, 1)' = ProcsOf(call.order, 1) BY DEF ProcsOf, TheRun
<1>2. \A p \in ProcsOf(call.order, 1) : p[1] = call.order BY DEF ProcsOf
<1> QED BY <1>1, <1>2 DEF Sound, Over
\* What is said of an attempt that the job is not at, or that is over, does not change.
LEMMA WritesReads ==
  ASSUME DispatchInv, NEW run, NEW orderState, Writes(run, orderState)
  PROVE  CallInv' /\ TerminalInv'
<1>1. job.pc \in Working /\ Busy /\ log' = log /\ authority' = authority BY DEF Writes
<1>2. CallInv'
  <2> SUFFICES ASSUME NEW c \in Callers, calls'[c] # NoCall PROVE Sound(calls[c])'
    BY <1>1 DEF CallInv
  <2>1. calls[c] \in Call /\ calls[c].order \in Managed /\ Sound(calls[c]) /\ calls'[c] = calls[c]
    BY DEF Writes, CallsKept, DispatchInv, DispatchTypeOK, CallInv, Call
  <2> PICK call \in Call : call = calls[c] /\ call.order \in Managed BY <2>1
  <2>2. Sound(call) /\ log' = log /\ HasRun(call.order) /\ HasRun(call.order)'
    BY <1>1, <2>1, WritesRows DEF Sound
  <2>3. CASE call.order = job.order
    <3>1. ~call.ripe BY <1>1, <2>2, <2>3, JobWorks DEF Sound, Over, Open, Closed
    <3>2. Sound(call)' BY <2>2, <3>1 DEF Sound
    <3> QED BY <2>1, <3>2
  <2>4. CASE call.order # job.order
    <3>1. IsTerminal(call.order)' = IsTerminal(call.order) BY <2>2 DEF IsTerminal
    <3>2. TheRun(call.order)' = TheRun(call.order) /\ \A p \in alive' : p[1] = call.order => p \in alive
      BY <2>2, <2>4, WritesRows
    <3>3. Sound(call)' BY <2>2, <3>1, <3>2, SoundStays
    <3> QED BY <2>1, <3>3
  <2> QED BY <2>3, <2>4
<1>3. TerminalInv'
  <2> SUFFICES ASSUME NEW o \in Managed, IsTerminal(o)' PROVE Final(o)'
    BY DEF TerminalInv, Final
  <2>1. IsTerminal(o) BY <1>1 DEF IsTerminal
  <2>2. o # job.order /\ Final(o) BY <1>1, <2>1, JobWorks DEF DispatchInv, TerminalInv
  <2>3. TheRun(o)' = TheRun(o) /\ HasRun(o)' = HasRun(o) /\ (ActiveRun(o)' => ActiveRun(o))
        /\ \A p \in alive' : p[1] = o => p \in alive
    BY <2>2, WritesRows DEF Final
  <2>4. authority'[o] \in {"fenced", "cancelled", "gone"} /\ HasRun(o)' /\ ~ActiveRun(o)' BY <1>1, <2>2, <2>3 DEF Final
  <2> QED BY <1>1, <2>2, <2>3, <2>4, FinalStays
<1> QED BY <1>2, <1>3

LEMMA WritesRecords ==
  ASSUME DispatchInv, NEW run, NEW orderState, Writes(run, orderState)
  PROVE  RecordsAgree'
<1>0. /\ job.order \in Orders /\ runs \in [Orders -> Seq(Run)] /\ order \in [Orders -> OrderState]
      /\ job.n = Len(runs[job.order]) /\ job.n \in 1..Len(runs[job.order])
  BY JobWorks DEF Writes
<1>1. ASSUME NEW o \in Orders, runs'[o] # <<>>
      PROVE  Agrees(runs'[o][Len(runs'[o])].state, order'[o])
  <2>1. Len(runs'[o]) = Len(runs[o]) BY WritesRows
  <2>2. CASE o = job.order
    <3>1. runs'[o][Len(runs'[o])] = run BY <1>0, <2>1, <2>2, WritesRows
    <3>2. order'[o] = orderState BY <1>0, <2>2 DEF Writes
    <3> QED BY <3>1, <3>2 DEF Writes
  <2>3. CASE o # job.order
    <3>1. order'[o] = order[o] BY <1>0, <2>3 DEF Writes
    <3>2. runs[o] # <<>> BY <1>1, WritesRows
    <3>3. Len(runs[o]) \in 1..Len(runs[o]) BY <1>0, <3>2, Rows
    <3>4. runs'[o][Len(runs'[o])] = runs[o][Len(runs[o])] BY <2>1, <2>3, <3>3, WritesRows
    <3> QED BY <3>1, <3>2, <3>4 DEF DispatchInv, RecordsAgree, OrderFollowsRun, Agrees
  <2> QED BY <2>2, <2>3
<1>2. ASSUME NEW o \in Orders, NEW n \in 1..Len(runs[o]), runs'[o][n].result # "none"
      PROVE  runs'[o][n].result = runs'[o][n].state
  <2>1. CASE o = job.order /\ n = job.n
    <3>1. runs'[o][n] = run BY <2>1, WritesRows
    <3> QED BY <1>2, <3>1 DEF Writes
  <2>2. CASE ~(o = job.order /\ n = job.n)
    <3>1. runs'[o][n] = runs[o][n] BY <2>2 DEF Writes, Wrote
    <3>2. n \in DOMAIN runs[o] BY <1>0, Rows
    <3> QED BY <1>2, <3>1, <3>2 DEF DispatchInv, RecordsAgree, ResultTrue
  <2> QED BY <2>1, <2>2
<1>3. \A o \in Orders : DOMAIN runs'[o] = 1..Len(runs[o]) BY DEF Writes, Wrote
<1> QED BY <1>1, <1>2, <1>3 DEF RecordsAgree, OrderFollowsRun, ResultTrue, Agrees


LEMMA WritesOnce ==
  ASSUME DispatchInv, NEW run, NEW orderState, Writes(run, orderState), NEW p \in alive', p[1] \in Managed
  PROVE  p[2] = 1
<1>1. CASE p \in alive BY <1>1 DEF DispatchInv, HoldInv
<1>2. CASE p \notin alive
  <2>1. p[1] = job.order /\ p[2] = job.n BY <1>2 DEF Writes, Agent
  <2> QED BY <2>1, JobWorks DEF Writes
<1> QED BY <1>1, <1>2

\* The job goes on with its run, which stays open.
Moves(pc, step, run) ==
  /\ Busy /\ job.pc \in Working /\ pc \in Working /\ step \in {"first", "repair"} /\ run \in Run
  /\ job' = [job EXCEPT !.pc = pc, !.step = step]
  /\ Wrote(job.order, job.n, run)
  /\ run.kind = ThisRun.kind /\ run.recovered = ThisRun.recovered /\ run.result = ThisRun.result
  /\ run.state \in Open
  /\ order' = [order EXCEPT ![job.order] = run.state]
  /\ StartsKept /\ OthersTyped /\ hold' = hold
  /\ \A p \in alive' : p \in alive \/ \E s \in Steps : p = Agent(s)
  /\ job.order \in Plain =>
       /\ step = "first" /\ pc \notin {"checkpoint", "open", "complete"}
       /\ pc \in Before => run.recorded = {}
       /\ pc = "agent" => run.recorded = {"first"}
       /\ \A p \in alive' : p # Agent("first") => p \in alive
       /\ pc # "agent" => alive' \subseteq alive /\ (job.pc = "agent" => Agent("first") \notin alive')
  /\ UNCHANGED <<log, authority, calls>>

LEMMA MovesWrites ==
  ASSUME DispatchInv, NEW pc, NEW step, NEW run, Moves(pc, step, run)
  PROVE  Writes(run, run.state) /\ Busy' /\ job'.order = job.order /\ job'.n = job.n /\ job'.pc = pc
         /\ job'.step = step /\ job'.gated = job.gated
<1>1. job \in Job /\ job' \in Job /\ Busy'
  BY JobWorks, Sentinels DEF Moves, Job, Busy, Working
<1>2. job'.order = job.order /\ job'.n = job.n /\ job'.pc = pc /\ job'.step = step /\ job'.gated = job.gated
  BY <1>1 DEF Moves, Job
<1>3. job.order \in Managed => ~run.recovered BY JobWorks DEF Moves
<1>4. run.result = "none" /\ run.state \in OrderState \ {"absent"} /\ Agrees(run.state, run.state)
  BY JobWorks DEF Moves, Open, OrderState, Agrees
<1>5. hold' \in [Orders -> Hold \cup {NoHold}] /\ CallsKept
  BY DEF Moves, DispatchInv, DispatchTypeOK, JobTypeOK, CallsKept
<1> QED BY <1>1, <1>2, <1>3, <1>4, <1>5 DEF Moves, Writes

LEMMA MovesKeep ==
  ASSUME DispatchInv, NEW pc, NEW step, NEW run, Moves(pc, step, run)
  PROVE  DispatchInv'
<1>1. Writes(run, run.state) /\ Busy' /\ job'.order = job.order /\ job'.n = job.n /\ job'.pc = pc
      /\ job'.step = step /\ job'.gated = job.gated
  BY MovesWrites
<1>2. /\ job \in Job /\ Busy /\ job.order \in Orders /\ runs \in [Orders -> Seq(Run)]
      /\ job.n = Len(runs[job.order]) /\ job.n \in 1..Len(runs[job.order])
  BY JobWorks DEF Moves
<1>3. JobAt'
  <2>1. ThisRun' = run /\ Len(runs'[job'.order]) = Len(runs[job.order]) BY <1>1, <1>2, WritesRows DEF ThisRun
  <2>2. job'.pc \in Working /\ job'.pc \notin Starting /\ job'.pc # "closing" BY <1>1 DEF Moves, Working, Starting
  <2>3. ThisRun'.kind = (IF job'.order \in Managed THEN "claimed" ELSE "started")
    BY <1>1, <2>1, JobWorks DEF Moves
  <2>4. job'.n = Len(runs'[job'.order]) /\ job'.n > 0 BY <1>1, <1>2, <2>1
  <2>5. job'.order \in Plain =>
       /\ ~job'.gated /\ job'.step = "first"
       /\ job'.pc \notin {"checkpoint", "open", "complete", "closing"}
       /\ job'.pc \in {"begin", "reproduce", "preflight", "spawn"} => ThisRun'.recorded = {}
       /\ job'.pc = "agent" => ThisRun'.recorded = {"first"}
    BY <1>1, <2>1, <2>2 DEF Moves, Before, DispatchInv, JobAt
  <2> QED BY <2>1, <2>2, <2>3, <2>4, <2>5 DEF JobAt, Moves
<1>4. HoldInv'
  <2>1. ASSUME NEW o \in Plain, hold'[o] # NoHold
        PROVE  runs'[o] # <<>> /\ Last(o)'.state = "interrupted" /\ ~JobOn(o)'
    <3>1. o \in Orders /\ runs[o] # <<>> /\ Last(o).state = "interrupted" /\ ~JobOn(o)
      BY <2>1 DEF DispatchInv, HoldInv, Orders, Moves
    <3>2. o # job.order BY <1>2, <3>1 DEF JobOn
    <3>3. Len(runs[o]) \in 1..Len(runs[o]) BY <1>2, <3>1, Rows
    <3>4. Last(o)' = Last(o) /\ runs'[o] # <<>> BY <1>1, <3>1, <3>2, <3>3, WritesRows DEF Last
    <3> QED BY <1>1, <3>1, <3>2, <3>4 DEF JobOn
  <2>2. ASSUME NEW p \in alive', p[1] \in Plain PROVE Held(p)' \/ (At("agent")' /\ p = Agent("first")')
    <3>1. CASE p \in alive /\ Held(p) BY <3>1 DEF Held, Moves
    <3>2. CASE p \in alive /\ ~Held(p)
      <4>1. job.pc = "agent" /\ p = Agent("first") /\ p[1] = job.order
        BY <2>2, <3>2 DEF DispatchInv, HoldInv, At, Agent
      <4>2. pc = "agent" BY <2>2, <4>1 DEF Moves
      <4> QED BY <1>1, <4>1, <4>2 DEF At, Agent
    <3>3. CASE p \notin alive
      <4>1. p[1] = job.order BY <2>2, <3>3 DEF Moves, Agent
      <4>2. pc = "agent" /\ p = Agent("first") BY <2>2, <3>3, <4>1 DEF Moves
      <4> QED BY <1>1, <4>1, <4>2 DEF At, Agent
    <3> QED BY <3>1, <3>2, <3>3
  <2>3. ASSUME NEW p \in alive', p[1] \in Managed PROVE p[2] = 1 BY <2>3, WritesOnce, <1>1
  <2> QED BY <2>1, <2>2, <2>3 DEF HoldInv
<1> QED BY <1>1, <1>3, <1>4, WritesTypes, WritesManaged, WritesReads, WritesRecords DEF DispatchInv
-----------------------------------------------------------------------------
(* The end of #execute *)

LEMMA StartsOutdated ==
  ASSUME DispatchInv, NEW o \in Orders, starts' = Outdated(o)
  PROVE  StartsKept
BY DEF DispatchInv, DispatchTypeOK, JobTypeOK, Outdated, Awaiting, StartsKept

LEMMA StartsSame ==
  ASSUME DispatchInv, starts' = starts
  PROVE  StartsKept
BY DEF DispatchInv, DispatchTypeOK, JobTypeOK, StartsKept

\* The run ends, with its processes reaped; its order may be held.
Ends(state, orderState) ==
  /\ Busy /\ job.pc \in Working /\ state \in Closed
  /\ orderState \in OrderState \ {"absent"} /\ Agrees(state, orderState)
  /\ Conclude(state, orderState)
  /\ OthersTyped /\ alive' \subseteq alive /\ (job.pc = "agent" => Agent(job.step) \notin alive')
  /\ hold' = hold \/ (state = "interrupted" /\ \E h \in Hold : hold' = [hold EXCEPT ![job.order] = h])
  /\ UNCHANGED <<log, authority, calls>>

LEMMA EndsWrites ==
  ASSUME DispatchInv, NEW state, NEW orderState, Ends(state, orderState)
  PROVE  \E run \in Run : run.state = state /\ Writes(run, orderState)
<1> DEFINE ended == [ThisRun EXCEPT !.state = state, !.recovered = @ \/ state = "interrupted"]
<1>1. /\ job \in Job /\ job.order \in Orders /\ runs \in [Orders -> Seq(Run)] /\ job.n \in 1..Len(runs[job.order])
      /\ ThisRun \in Run /\ ThisRun.result = "none" /\ (job.order \in Managed => ~ThisRun.recovered)
  BY JobWorks DEF Ends
<1>2. PICK run \in Finalize(ended) : Transition(run, orderState) BY DEF Ends, Conclude
<1>3. state \in Closed /\ (ThisRun.recovered \/ state = "interrupted") \in BOOLEAN BY DEF Ends
<1>4. /\ ended \in Run /\ ended.state = state /\ ended.result = "none" /\ ended.kind = ThisRun.kind
      /\ ended.recovered => ThisRun.recovered \/ state = "interrupted"
  BY <1>1, <1>3 DEF Run
<1> HIDE DEF ended
<1>5. run = ended \/ (run = [ended EXCEPT !.result = ended.state] /\ Ended(ended.state)) BY <1>2 DEF Finalize
<1>6. /\ run \in Run /\ run.state = state /\ run.result \in {"none", state} /\ run.kind = ThisRun.kind
      /\ run.recovered => ThisRun.recovered \/ state = "interrupted"
  BY <1>4, <1>5 DEF Run, Ended
<1>7. Wrote(job.order, job.n, run) BY <1>1, <1>2, <1>6, RunWritten DEF Transition
<1>8. \/ job' = NoJob
      \/ job' \in Job /\ job'.order = job.order /\ job'.n = job.n
  BY <1>1 DEF Ends, Conclude, Job, Pcs
<1>9. StartsKept /\ order' = [order EXCEPT ![job.order] = orderState]
  BY <1>1, <1>2, StartsOutdated DEF Transition
<1>10. hold' \in [Orders -> Hold \cup {NoHold}] /\ CallsKept
  BY <1>1 DEF Ends, DispatchInv, DispatchTypeOK, JobTypeOK, CallsKept
<1>11. \A p \in alive' : p \in alive BY DEF Ends
<1> QED BY <1>1, <1>3, <1>6, <1>7, <1>8, <1>9, <1>10, <1>11 DEF Ends, Writes

LEMMA EndsKeep ==
  ASSUME DispatchInv, NEW state, NEW orderState, Ends(state, orderState)
  PROVE  DispatchInv'
<1>1. PICK run \in Run : run.state = state /\ Writes(run, orderState) BY EndsWrites
<1>2. /\ job \in Job /\ Busy /\ job.order \in Orders /\ runs \in [Orders -> Seq(Run)]
      /\ job.n = Len(runs[job.order]) /\ job.n \in 1..Len(runs[job.order]) /\ runs[job.order] # <<>>
      /\ ThisRun.kind = IF job.order \in Managed THEN "claimed" ELSE "started"
  BY JobWorks, Rows DEF Ends
<1>3. job' = IF job.order \in Managed THEN [job EXCEPT !.pc = "closing"] ELSE NoJob
  BY <1>2 DEF Ends, Conclude
<1>4. job.order \in Managed => job' \in Job /\ job'.order = job.order /\ job'.n = job.n /\ job'.pc = "closing"
  BY <1>2, <1>3 DEF Job, Pcs
<1>5. runs'[job.order][job.n] = run /\ Len(runs'[job.order]) = Len(runs[job.order]) BY <1>1, <1>2, WritesRows
<1>6. JobAt'
  <2>1. CASE job.order \in Managed
    <3>1. ThisRun' = run /\ run.kind = "claimed" /\ run.state \in Closed
      BY <1>1, <1>2, <1>4, <1>5, <2>1 DEF ThisRun, Writes, Ends
    <3>2. job'.order \notin Plain BY <1>4, <2>1, OrdersDisjoint
    <3>3. job'.n = Len(runs'[job'.order]) /\ job'.n > 0 BY <1>2, <1>4, <1>5, <2>1
    <3> QED BY <1>4, <2>1, <3>1, <3>2, <3>3 DEF JobAt, Starting, Working
  <2>2. CASE job.order \notin Managed BY <1>3, <2>2 DEF JobAt, Busy
  <2> QED BY <2>1, <2>2
<1>7. HoldInv'
  <2>1. ASSUME NEW o \in Plain, hold'[o] # NoHold
        PROVE  runs'[o] # <<>> /\ Last(o)'.state = "interrupted" /\ ~JobOn(o)'
    <3>0. o \in Orders /\ o \notin Managed BY OrdersDisjoint DEF Orders
    <3>1. ~JobOn(o)' BY <1>3, <1>4, <3>0 DEF JobOn, Busy
    <3>2. CASE o = job.order
      <4>1. hold[o] = NoHold BY <1>2, <3>2 DEF DispatchInv, HoldInv, JobOn
      <4>2. state = "interrupted" BY <2>1, <4>1 DEF Ends
      <4>3. Last(o)' = run BY <1>2, <1>5, <3>2 DEF Last
      <4>4. runs'[o] # <<>> BY <1>1, <1>2, <3>2, WritesRows
      <4> QED BY <1>1, <3>1, <4>2, <4>3, <4>4
    <3>3. CASE o # job.order
      <4>1. hold'[o] = hold[o] BY <3>0, <3>3 DEF Ends, DispatchInv, DispatchTypeOK, JobTypeOK
      <4>2. runs[o] # <<>> /\ Last(o).state = "interrupted" BY <2>1, <4>1 DEF DispatchInv, HoldInv
      <4>3. Len(runs[o]) \in 1..Len(runs[o]) BY <1>2, <3>0, <4>2, Rows
      <4>4. Last(o)' = Last(o) /\ runs'[o] # <<>> BY <1>1, <3>0, <3>3, <4>2, <4>3, WritesRows DEF Last
      <4> QED BY <3>1, <4>2, <4>4
    <3> QED BY <3>2, <3>3
  <2>2. ASSUME NEW p \in alive', p[1] \in Plain PROVE Held(p)'
    <3>1. p \in alive /\ p[1] \in Orders BY <2>2 DEF Ends, Orders
    <3>2. CASE Held(p)
      <4>1. p[1] # job.order BY <1>2, <2>2, <3>2 DEF Held, DispatchInv, HoldInv, JobOn
      <4>2. hold'[p[1]] = hold[p[1]] BY <3>1, <4>1 DEF Ends, DispatchInv, DispatchTypeOK, JobTypeOK
      <4> QED BY <3>2, <4>2 DEF Held
    <3>3. CASE ~Held(p)
      <4>1. job.pc = "agent" /\ p = Agent("first") /\ job.order = p[1]
        BY <2>2, <3>1, <3>3 DEF DispatchInv, HoldInv, At, Agent
      <4>2. job.step = "first" BY <1>2, <2>2, <4>1 DEF DispatchInv, JobAt
      <4> QED BY <2>2, <4>1, <4>2 DEF Ends
    <3> QED BY <3>2, <3>3
  <2>3. ASSUME NEW p \in alive', p[1] \in Managed PROVE p[2] = 1 BY <1>1, <2>3, WritesOnce
  <2> QED BY <2>1, <2>2, <2>3 DEF HoldInv
<1> QED BY <1>1, <1>6, <1>7, WritesTypes, WritesManaged, WritesReads, WritesRecords DEF DispatchInv
-----------------------------------------------------------------------------
(* #execute *)

AbortedNotReady(state) == state = "ready_for_review" => ~Aborted

Advances == \E pc \in Working, step \in {"first", "repair"}, run \in Run : Moves(pc, step, run)
Finishes == \E state \in Closed, orderState \in OrderState : AbortedNotReady(state) /\ Ends(state, orderState)

LEMMA VerifierGone ==
  ASSUME DispatchInv, NEW available \in BOOLEAN, VerifierEnds(available)
  PROVE  containers' \subseteq Orders \X (1..MaxAttempts)
BY DEF DispatchInv, DispatchTypeOK, JobTypeOK, VerifierEnds

LEMMA HostSame ==
  ASSUME DispatchInv, alive' \subseteq Process, containers' \subseteq Orders \X (1..MaxAttempts),
         UNCHANGED <<paused, restarts, late>>
  PROVE  OthersTyped
BY DEF DispatchInv, DispatchTypeOK, JobTypeOK, OthersTyped

LEMMA HereTyped ==
  ASSUME DispatchInv, Busy, job.pc \in Working
  PROVE  /\ Attempt \in Orders \X (1..MaxAttempts) /\ \A s \in Steps : Agent(s) \in Process
         /\ alive \subseteq Process /\ containers \subseteq Orders \X (1..MaxAttempts)
<1>1. job.order \in Orders /\ job.n \in 1..Len(runs[job.order]) /\ runs \in [Orders -> Seq(Run)] BY JobWorks
<1>2. Len(runs[job.order]) \in Nat /\ Len(runs[job.order]) <= MaxAttempts /\ MaxAttempts \in Nat
  BY <1>1, Rows, Bounds DEF DispatchInv, RunsKept
<1>3. job.n \in 1..MaxAttempts BY <1>1, <1>2
<1> QED BY <1>1, <1>3 DEF Attempt, Agent, Process, DispatchInv, DispatchTypeOK, JobTypeOK

\* A step that leaves the run, its order and the processes alone.
LEMMA PlainMove ==
  ASSUME DispatchInv, Busy, job.pc \in Working, NEW pc \in Working, NEW step \in {"first", "repair"},
         job' = [job EXCEPT !.pc = pc, !.step = step],
         UNCHANGED <<dbVars, starts, paused, restarts, late, log, authority, calls>>,
         containers' \subseteq Orders \X (1..MaxAttempts),
         alive' = alive \/ alive' = alive \ {Agent("first")} \/ (alive' \subseteq alive /\ job.order \in Managed),
         job.pc # "agent" \/ alive' = alive \ {Agent("first")} \/ job.order \in Managed,
         job.order \in Plain => step = "first" /\ pc \notin {"checkpoint", "open", "complete", "agent"}
                                /\ (pc \in Before => job.pc \in Before)
  PROVE  Advances
<1>1. /\ job \in Job /\ job.order \in Orders /\ ThisRun \in Run /\ ThisRun.state \in Open
      /\ runs \in [Orders -> Seq(Run)] /\ order \in [Orders -> OrderState]
      /\ job.n = Len(runs[job.order]) /\ job.n \in 1..Len(runs[job.order]) /\ runs[job.order] # <<>>
  BY JobWorks, Rows
<1>2. Wrote(job.order, job.n, ThisRun) BY <1>1, NothingWritten DEF ThisRun, dbVars
<1>3. order' = [order EXCEPT ![job.order] = ThisRun.state]
  <2>1. order[job.order] = ThisRun.state
    BY <1>1 DEF DispatchInv, RecordsAgree, OrderFollowsRun, ThisRun, Open
  <2> QED BY <1>1, <2>1 DEF dbVars
<1>4. StartsKept BY StartsSame
<1>5. OthersTyped BY HereTyped, HostSame
<1>6. job.order \in Plain /\ pc \in Before => ThisRun.recorded = {} BY DEF DispatchInv, JobAt, Before
<1>7. job.order \in Plain => alive' \subseteq alive /\ (job.pc = "agent" => Agent("first") \notin alive')
  BY OrdersDisjoint
<1>8. \A p \in alive' : p \in alive OBVIOUS
<1>9. hold' = hold BY DEF dbVars
<1>10. Moves(pc, step, ThisRun) BY <1>1, <1>2, <1>3, <1>4, <1>5, <1>6, <1>7, <1>8, <1>9 DEF Moves
<1> QED BY <1>1, <1>10 DEF Advances

LEMMA GoesTo ==
  ASSUME DispatchInv, Busy, NEW pc, Goto(pc)
  PROVE  job' = [job EXCEPT !.pc = pc, !.step = job.step] /\ job.step \in {"first", "repair"}
BY DEF DispatchInv, DispatchTypeOK, JobTypeOK, Busy, Goto, Job

\* The run is written on the way.
LEMMA WritingMove ==
  ASSUME DispatchInv, Busy, job.pc \in Working, NEW pc \in Working, NEW run \in Run, Goto(pc),
         runs' = [runs EXCEPT ![job.order][job.n] = run],
         run.kind = ThisRun.kind, run.recovered = ThisRun.recovered, run.result = ThisRun.result,
         run.state \in Open, order' = [order EXCEPT ![job.order] = run.state],
         starts' = starts \/ starts' = Outdated(job.order),
         UNCHANGED <<hold, paused, restarts, late, log, authority, calls>>,
         containers' \in {containers, containers \cup {Attempt}},
         NEW s \in Steps, alive' = alive \/ alive' = alive \cup {Agent(s)},
         job.order \in Plain =>
           /\ pc \notin {"checkpoint", "open", "complete"} /\ job.pc # "agent"
           /\ pc \in Before => run.recorded = {}
           /\ pc = "agent" => run.recorded = {"first"} /\ s = "first"
           /\ pc # "agent" => alive' = alive
  PROVE  Advances
<1>1. /\ job \in Job /\ job.order \in Orders /\ runs \in [Orders -> Seq(Run)]
      /\ job.n \in 1..Len(runs[job.order])
  BY JobWorks
<1>2. Wrote(job.order, job.n, run) BY <1>1, RunWritten
<1>3. job' = [job EXCEPT !.pc = pc, !.step = job.step] /\ job.step \in {"first", "repair"} BY GoesTo
<1>4. StartsKept BY <1>1, StartsSame, StartsOutdated
<1>5. alive' \subseteq Process /\ containers' \subseteq Orders \X (1..MaxAttempts) BY HereTyped
<1>6. OthersTyped BY <1>5, HostSame
<1>7. \A p \in alive' : p \in alive \/ p = Agent(s) OBVIOUS
<1>8. job.order \in Plain => job.step = "first" BY DEF DispatchInv, JobAt
<1>9. job.order \in Plain => \A p \in alive' : p # Agent("first") => p \in alive BY <1>7
<1>10. Moves(pc, job.step, run) BY <1>2, <1>3, <1>4, <1>6, <1>7, <1>8, <1>9 DEF Moves
<1> QED BY <1>3, <1>10 DEF Advances

LEMMA PlainAt ==
  ASSUME DispatchInv, Busy, job.pc \in {"checkpoint", "open", "complete"} \/ job.gated
  PROVE  job.order \in Managed
BY DEF DispatchInv, DispatchTypeOK, JobTypeOK, JobAt, Busy, Job, Orders

LEMMA MovingSteps ==
  ASSUME DispatchInv, UNCHANGED <<log, authority, late, calls>>,
         \/ Reproduce \/ NothingToReproduce \/ Reproduced \/ Implement \/ Spawn \/ Produced
         \/ CheckpointPasses \/ CheckpointRepairs \/ OpenCompletion \/ Completed \/ Commit
  PROVE  Advances
<1>0. Busy /\ job.pc \in Working /\ job.pc \in Pcs
  BY DEF Reproduce, NothingToReproduce, Reproduced, Implement, Spawn, Produced, CheckpointPasses,
         CheckpointRepairs, OpenCompletion, Completed, Commit, At, Working, Pcs
<1>1. /\ job \in Job /\ job.order \in Orders /\ ThisRun \in Run /\ ThisRun.state \in Open
      /\ runs \in [Orders -> Seq(Run)] /\ order \in [Orders -> OrderState]
      /\ job.n = Len(runs[job.order]) /\ job.n \in 1..Len(runs[job.order]) /\ runs[job.order] # <<>>
  BY <1>0, JobWorks, Rows
<1>2. order[job.order] = ThisRun.state
  BY <1>1 DEF DispatchInv, RecordsAgree, OrderFollowsRun, ThisRun, Open
<1>3. job.order \in Plain => job.step = "first" /\ (job.pc \in Before => ThisRun.recorded = {})
  BY <1>0 DEF DispatchInv, JobAt, Before
<1>4. \A pc \in Pcs \ {"resolve", "register", "closing"} : pc \in Working BY DEF Working
<1>5. containers \subseteq Orders \X (1..MaxAttempts) /\ Attempt \in Orders \X (1..MaxAttempts) BY <1>0, HereTyped
<1>6. CASE Reproduce
  <2> DEFINE run == [ThisRun EXCEPT !.verifier = TRUE]
  <2>1. runs' = [runs EXCEPT ![job.order][job.n] = run] /\ Goto("reproduce") /\ job.pc = "begin"
    BY <1>6 DEF Reproduce, ThisRun, At
  <2>2. /\ run \in Run /\ run.kind = ThisRun.kind /\ run.recovered = ThisRun.recovered
        /\ run.result = ThisRun.result /\ run.state = ThisRun.state /\ run.recorded = ThisRun.recorded
    BY <1>1 DEF Run
  <2> HIDE DEF run
  <2>3. order' = [order EXCEPT ![job.order] = run.state] BY <1>1, <1>2, <1>6, <2>2 DEF Reproduce
  <2>4. "reproduce" \in Working /\ "first" \in Steps BY DEF Working, Pcs, Steps
  <2>5. job.order \in Plain => run.recorded = {} BY <1>3, <2>1, <2>2 DEF Before
  <2> QED BY <1>0, <1>1, <1>6, <2>1, <2>2, <2>3, <2>4, <2>5, WritingMove DEF Reproduce
<1>7. CASE Implement
  <2> DEFINE run == [ThisRun EXCEPT !.state = "implementing"]
  <2>1. /\ runs' = [runs EXCEPT ![job.order][job.n] = run] /\ Goto("spawn") /\ job.pc = "preflight"
        /\ order' = [order EXCEPT ![job.order] = "implementing"] /\ starts' = Outdated(job.order)
    BY <1>7 DEF Implement, Transition, At
  <2>2. /\ run \in Run /\ run.kind = ThisRun.kind /\ run.recovered = ThisRun.recovered
        /\ run.result = ThisRun.result /\ run.state = "implementing" /\ run.recorded = ThisRun.recorded
    BY <1>1 DEF Run, Open
  <2> HIDE DEF run
  <2>3. "spawn" \in Working /\ "first" \in Steps /\ run.state \in Open BY <2>2 DEF Working, Pcs, Steps, Open
  <2>4. job.order \in Plain => run.recorded = {} BY <1>3, <2>1, <2>2 DEF Before
  <2> QED BY <1>0, <1>1, <1>7, <2>1, <2>2, <2>3, <2>4, WritingMove DEF Implement
<1>8. CASE Spawn
  <2> DEFINE run == [ThisRun EXCEPT !.recorded = @ \cup {job.step}]
  <2>1. /\ runs' = [runs EXCEPT ![job.order][job.n] = run] /\ Goto("agent") /\ job.pc = "spawn"
        /\ alive' = alive \cup {Agent(job.step)}
    BY <1>8 DEF Spawn, Recorded, ThisRun, At
  <2>2. job.step \in Steps /\ ThisRun.recorded \cup {job.step} \in SUBSET Steps BY <1>1 DEF Job, Run, Steps
  <2>3. /\ run \in Run /\ run.kind = ThisRun.kind /\ run.recovered = ThisRun.recovered
        /\ run.result = ThisRun.result /\ run.state = ThisRun.state /\ run.recorded = ThisRun.recorded \cup {job.step}
    BY <1>1, <2>2 DEF Run
  <2> HIDE DEF run
  <2>4. order' = [order EXCEPT ![job.order] = run.state] BY <1>1, <1>2, <1>8, <2>3 DEF Spawn
  <2>5. "agent" \in Working /\ "agent" \notin Before /\ "agent" \notin {"checkpoint", "open", "complete"}
    BY DEF Working, Pcs, Before
  <2>6. job.order \in Plain => run.recorded = {"first"} /\ job.step = "first" BY <1>3, <2>1, <2>3 DEF Before
  <2> QED BY <1>0, <1>1, <1>8, <2>1, <2>2, <2>3, <2>4, <2>5, <2>6, WritingMove DEF Spawn
<1>9. CASE OpenCompletion
  <2> DEFINE run == [ThisRun EXCEPT !.recorded = @ \cup {"completion"}]
  <2>1. /\ runs' = [runs EXCEPT ![job.order][job.n] = run] /\ Goto("complete") /\ job.pc = "open"
        /\ alive' = alive \cup {Agent("completion")}
    BY <1>9 DEF OpenCompletion, Recorded, ThisRun, At
  <2>2. "completion" \in Steps /\ ThisRun.recorded \cup {"completion"} \in SUBSET Steps BY <1>1 DEF Run, Steps
  <2>3. /\ run \in Run /\ run.kind = ThisRun.kind /\ run.recovered = ThisRun.recovered
        /\ run.result = ThisRun.result /\ run.state = ThisRun.state
    BY <1>1, <2>2 DEF Run
  <2> HIDE DEF run
  <2>4. order' = [order EXCEPT ![job.order] = run.state] BY <1>1, <1>2, <1>9, <2>3 DEF OpenCompletion
  <2>5. "complete" \in Working BY DEF Working, Pcs
  <2>6. job.order \notin Plain BY <1>0, <2>1, PlainAt, OrdersDisjoint
  <2> QED BY <1>0, <1>1, <1>9, <2>1, <2>2, <2>3, <2>4, <2>5, <2>6, WritingMove DEF OpenCompletion
<1>10. CASE Commit
  <2> DEFINE run == [ThisRun EXCEPT !.state = "verifying", !.verifier = TRUE]
  <2>1. /\ runs' = [runs EXCEPT ![job.order][job.n] = run] /\ Goto("verify") /\ job.pc = "commit"
        /\ order' = [order EXCEPT ![job.order] = "verifying"] /\ starts' = Outdated(job.order)
    BY <1>10 DEF Commit, Transition, At
  <2>2. /\ run \in Run /\ run.kind = ThisRun.kind /\ run.recovered = ThisRun.recovered
        /\ run.result = ThisRun.result /\ run.state = "verifying"
    BY <1>1 DEF Run, Open
  <2> HIDE DEF run
  <2>3. "verify" \in Working /\ "first" \in Steps /\ run.state \in Open /\ "verify" \notin Before
    BY <2>2 DEF Working, Pcs, Steps, Open, Before
  <2> QED BY <1>0, <1>1, <1>10, <2>1, <2>2, <2>3, WritingMove DEF Commit
<1>11. CASE NothingToReproduce \/ Reproduced
  <2>1. /\ Goto("preflight") /\ job.pc \in {"begin", "reproduce"} /\ alive' = alive
        /\ UNCHANGED <<dbVars, starts, paused, restarts>> /\ containers' \subseteq Orders \X (1..MaxAttempts)
    BY <1>5, <1>11, VerifierGone DEF NothingToReproduce, Reproduced, At
  <2>2. "preflight" \in Working /\ "preflight" \in Before /\ job.pc \in Before BY <2>1 DEF Working, Pcs, Before
  <2>3. job' = [job EXCEPT !.pc = "preflight", !.step = job.step] /\ job.step \in {"first", "repair"}
    BY <1>0, <2>1, GoesTo
  <2> QED BY <1>0, <1>3, <2>1, <2>2, <2>3, PlainMove
<1>12. CASE Produced
  <2>1. /\ job.pc = "agent" /\ alive' = alive \ {Agent(job.step)}
        /\ UNCHANGED <<dbVars, starts, paused, restarts>> /\ containers' \subseteq Orders \X (1..MaxAttempts)
        /\ Goto(IF job.gated THEN "checkpoint" ELSE "commit")
    BY <1>5, <1>12 DEF Produced, Reaped, At
  <2> DEFINE pc == IF job.gated THEN "checkpoint" ELSE "commit"
  <2>2. pc \in Working /\ pc \notin Before /\ pc # "agent" BY DEF Working, Pcs, Before
  <2>3. job.order \in Managed \/ (alive' = alive \ {Agent("first")} /\ pc = "commit" /\ job.step = "first")
    BY <1>0, <1>1, <1>3, <2>1, PlainAt DEF Orders
  <2>4. job' = [job EXCEPT !.pc = pc, !.step = job.step] /\ job.step \in {"first", "repair"}
    BY <1>0, <2>1, GoesTo
  <2> HIDE DEF pc
  <2>5. job.order \in Plain => ~(job.order \in Managed) BY OrdersDisjoint
  <2> QED BY <1>0, <2>1, <2>2, <2>3, <2>4, <2>5, PlainMove
<1>13. CASE CheckpointPasses
  <2>1. /\ Goto("open") /\ job.pc = "checkpoint" /\ alive' = alive
        /\ UNCHANGED <<dbVars, starts, paused, restarts>> /\ containers' \subseteq Orders \X (1..MaxAttempts)
    BY <1>13, VerifierGone DEF CheckpointPasses, At
  <2>2. "open" \in Working BY DEF Working, Pcs
  <2>3. job' = [job EXCEPT !.pc = "open", !.step = job.step] /\ job.step \in {"first", "repair"}
    BY <1>0, <2>1, GoesTo
  <2>4. job.order \notin Plain BY <1>0, <2>1, PlainAt, OrdersDisjoint
  <2> QED BY <1>0, <2>1, <2>2, <2>3, <2>4, PlainMove
<1>14. CASE CheckpointRepairs
  <2>1. /\ job' = [job EXCEPT !.pc = "spawn", !.step = "repair"] /\ job.pc = "checkpoint" /\ alive' = alive
        /\ UNCHANGED <<dbVars, starts, paused, restarts>> /\ containers' \subseteq Orders \X (1..MaxAttempts)
    BY <1>14, VerifierGone DEF CheckpointRepairs, At
  <2>2. "spawn" \in Working BY DEF Working, Pcs
  <2>3. job.order \notin Plain BY <1>0, <2>1, PlainAt, OrdersDisjoint
  <2> QED BY <1>0, <2>1, <2>2, <2>3, PlainMove
<1>15. CASE Completed
  <2>1. /\ Goto("commit") /\ job.pc = "complete" /\ alive' \subseteq alive
        /\ UNCHANGED <<dbVars, starts, paused, restarts>> /\ containers' \subseteq Orders \X (1..MaxAttempts)
    BY <1>5, <1>15 DEF Completed, Reaped, At
  <2>2. "commit" \in Working BY DEF Working, Pcs
  <2>3. job' = [job EXCEPT !.pc = "commit", !.step = job.step] /\ job.step \in {"first", "repair"}
    BY <1>0, <2>1, GoesTo
  <2>4. job.order \notin Plain /\ job.order \in Managed BY <1>0, <2>1, PlainAt, OrdersDisjoint
  <2> QED BY <1>0, <2>1, <2>2, <2>3, <2>4, PlainMove
<1> QED BY <1>6, <1>7, <1>8, <1>9, <1>10, <1>11, <1>12, <1>13, <1>14, <1>15

LEMMA Ending ==
  ASSUME DispatchInv, Busy, job.pc \in Working, NEW state \in Closed, NEW orderState \in OrderState,
         orderState # "absent", Agrees(state, orderState), Conclude(state, orderState), AbortedNotReady(state),
         hold' = hold \/ (state = "interrupted" /\ \E h \in Hold : hold' = [hold EXCEPT ![job.order] = h]),
         (alive' = alive /\ job.pc # "agent") \/ (\E s \in Steps : alive' = alive \ {Agent(s)} /\ (job.pc = "agent" => s = job.step)),
         containers' \subseteq Orders \X (1..MaxAttempts),
         UNCHANGED <<paused, restarts, late, log, authority, calls>>
  PROVE  Finishes
<1>1. alive' \subseteq alive /\ (job.pc = "agent" => Agent(job.step) \notin alive') OBVIOUS
<1>2. alive' \subseteq Process BY <1>1, HereTyped
<1>3. OthersTyped BY <1>2, HostSame
<1>4. Ends(state, orderState) BY <1>1, <1>3 DEF Ends
<1> QED BY <1>4 DEF Finishes

LEMMA Throwing ==
  ASSUME Throw
  PROVE  hold' = hold /\ \E state \in {"cancelled", "interrupted", "failed"} : Conclude(state, state)
<1> DEFINE state == CASE job.abort = "user_cancel"      -> "cancelled"
                      [] job.abort = "service_shutdown" -> "interrupted"
                      [] OTHER                          -> "failed"
<1>1. state \in {"cancelled", "interrupted", "failed"} OBVIOUS
<1>2. Conclude(state, state) /\ hold' = hold BY DEF Throw
<1> HIDE DEF state
<1> QED BY <1>1, <1>2

LEMMA ThrowFinishes ==
  ASSUME DispatchInv, Busy, job.pc \in Working, Throw,
         (alive' = alive /\ job.pc # "agent") \/ (\E s \in Steps : alive' = alive \ {Agent(s)} /\ (job.pc = "agent" => s = job.step)),
         containers' \subseteq Orders \X (1..MaxAttempts),
         UNCHANGED <<paused, restarts, late, log, authority, calls>>
  PROVE  Finishes
<1>1. PICK state \in {"cancelled", "interrupted", "failed"} : Conclude(state, state) /\ hold' = hold BY Throwing
<1>2. state \in Closed /\ state \in OrderState /\ state # "absent" /\ Agrees(state, state) /\ AbortedNotReady(state)
  BY DEF Closed, OrderState, Agrees, AbortedNotReady
<1> QED BY <1>1, <1>2, Ending

LEMMA FailFinishes ==
  ASSUME DispatchInv, Busy, job.pc \in Working, job.pc # "agent",
         NEW orderState \in {"failed", "needs_investigation", "awaiting_environment"}, Fail(orderState),
         containers' \subseteq Orders \X (1..MaxAttempts),
         UNCHANGED <<alive, paused, restarts, late, log, authority, calls>>
  PROVE  Finishes
<1>1. "failed" \in Closed /\ orderState \in OrderState /\ orderState # "absent" /\ Agrees("failed", orderState)
      /\ AbortedNotReady("failed")
  BY DEF Closed, OrderState, Agrees, AbortedNotReady
<1> QED BY <1>1, Ending DEF Fail

LEMMA HoldFinishes ==
  ASSUME DispatchInv, Busy, job.pc \in Working, NEW pids \in SUBSET Process, NEW clearable \in BOOLEAN,
         Unresolved(pids, clearable),
         (alive' = alive /\ job.pc # "agent") \/ alive' = alive \ {Agent(job.step)},
         containers' \subseteq Orders \X (1..MaxAttempts),
         UNCHANGED <<paused, restarts, late, log, authority, calls>>
  PROVE  Finishes
<1>1. /\ "interrupted" \in Closed /\ "awaiting_environment" \in OrderState
      /\ Agrees("interrupted", "awaiting_environment") /\ AbortedNotReady("interrupted")
  BY DEF Closed, OrderState, Agrees, AbortedNotReady
<1>2. [clearable |-> clearable, pids |-> pids] \in Hold BY DEF Hold
<1>3. job.step \in Steps BY JobWorks DEF Job, Steps
<1> QED BY <1>1, <1>2, <1>3, Ending DEF Unresolved

LEMMA FinishingSteps ==
  ASSUME DispatchInv, UNCHANGED <<log, authority, late, calls>>,
         \/ NotReproduced \/ ReproductionUnavailable \/ Unqualified \/ TimedOut \/ AgentFails
         \/ CheckpointFails \/ CompletionFails \/ Verified \/ ChecksFail \/ VerificationUnavailable \/ StepThrows
  PROVE  Finishes
<1>0. Busy /\ job.pc \in Working
  BY DEF NotReproduced, ReproductionUnavailable, Unqualified, TimedOut, AgentFails, CheckpointFails,
         CompletionFails, Verified, ChecksFail, VerificationUnavailable, StepThrows, At, Working, Pcs
<1>1. job.step \in Steps /\ containers \subseteq Orders \X (1..MaxAttempts)
  BY <1>0, JobWorks, HereTyped DEF Job, Steps
<1>2. CASE NotReproduced
  <2>1. containers' \subseteq Orders \X (1..MaxAttempts) BY <1>2, VerifierGone DEF NotReproduced
  <2> QED BY <1>0, <1>2, <2>1, FailFinishes DEF NotReproduced, At
<1>3. CASE ReproductionUnavailable \/ VerificationUnavailable
  <2>1. containers' \subseteq Orders \X (1..MaxAttempts) BY <1>3, VerifierGone DEF ReproductionUnavailable, VerificationUnavailable
  <2>2. job.pc # "agent" /\ UNCHANGED <<alive, paused, restarts>> /\ (Throw \/ Unavailable)
    BY <1>3 DEF ReproductionUnavailable, VerificationUnavailable, At
  <2>3. CASE Throw BY <1>0, <2>1, <2>2, <2>3, ThrowFinishes
  <2>4. CASE Unavailable
    <3>1. CASE Producer BY <1>0, <2>1, <2>2, <2>4, <3>1, HoldFinishes DEF Unavailable
    <3>2. CASE ~Producer BY <1>0, <2>1, <2>2, <2>4, <3>2, FailFinishes DEF Unavailable
    <3> QED BY <3>1, <3>2
  <2> QED BY <2>2, <2>3, <2>4
<1>4. CASE Unqualified BY <1>0, <1>1, <1>4, FailFinishes DEF Unqualified, At
<1>5. CASE TimedOut
  <2>1. {Agent(job.step)} \in SUBSET Process BY <1>0, <1>1, HereTyped
  <2>2. Unresolved({Agent(job.step)}, TRUE) /\ alive' = alive \ {Agent(job.step)} /\ UNCHANGED <<containers, paused, restarts>>
    BY <1>5 DEF TimedOut, Reaped
  <2> QED BY <1>0, <1>1, <2>1, <2>2, HoldFinishes
<1>6. CASE AgentFails \/ CompletionFails
  <2>1. Throw /\ UNCHANGED <<containers, paused, restarts>>
        /\ \E s \in Steps : alive' = alive \ {Agent(s)} /\ (job.pc = "agent" => s = job.step)
    BY <1>1, <1>6 DEF AgentFails, CompletionFails, Reaped, At, Steps
  <2> QED BY <1>0, <1>1, <2>1, ThrowFinishes
<1>7. CASE CheckpointFails
  <2>1. containers' \subseteq Orders \X (1..MaxAttempts) BY <1>7, VerifierGone DEF CheckpointFails
  <2> QED BY <1>0, <1>7, <2>1, ThrowFinishes DEF CheckpointFails, At
<1>8. CASE StepThrows
  <2>1. job.pc # "agent" BY <1>8 DEF StepThrows, At
  <2> QED BY <1>0, <1>1, <1>8, <2>1, ThrowFinishes DEF StepThrows
<1>9. CASE ChecksFail
  <2>1. containers' \subseteq Orders \X (1..MaxAttempts) BY <1>9, VerifierGone DEF ChecksFail
  <2> QED BY <1>0, <1>9, <2>1, FailFinishes DEF ChecksFail, At
<1>10. CASE Verified
  <2>1. containers' \subseteq Orders \X (1..MaxAttempts) BY <1>10, VerifierGone DEF Verified
  <2>2. /\ "ready_for_review" \in Closed /\ "ready_for_review" \in OrderState
        /\ Agrees("ready_for_review", "ready_for_review")
    BY DEF Closed, OrderState, Agrees
  <2>3. AbortedNotReady("ready_for_review") BY <1>10 DEF Verified, AbortedNotReady
  <2> QED BY <1>0, <1>10, <2>1, <2>2, <2>3, Ending DEF Verified, At
<1> QED BY <1>2, <1>3, <1>4, <1>5, <1>6, <1>7, <1>8, <1>9, <1>10

LEMMA ExecuteSteps ==
  ASSUME DispatchInv, Execute, UNCHANGED <<log, authority, late, calls>>
  PROVE  Advances \/ Finishes
BY MovingSteps, FinishingSteps DEF Execute
-----------------------------------------------------------------------------
(* Steps that neither move the job nor end an attempt *)

\* The job is the same, or asked to end.
SameJob == job' = job \/ (Busy /\ \E a \in {"user_cancel", "service_shutdown"} : job' = [job EXCEPT !.abort = a])

\* Runs that differ at most in a result that says what they are.
SameRuns ==
  /\ runs' \in [Orders -> Seq(Run)]
  /\ \A o \in Orders : Len(runs'[o]) = Len(runs[o])
  /\ \A o \in Orders : \A n \in 1..Len(runs[o]) :
       /\ runs'[o][n].state = runs[o][n].state /\ runs'[o][n].kind = runs[o][n].kind
       /\ runs'[o][n].recorded = runs[o][n].recorded /\ runs'[o][n].recovered = runs[o][n].recovered
       /\ runs'[o][n].result \in {runs[o][n].result, runs[o][n].state}

StartsFair ==
  /\ starts' \in [Starts -> [order : Orders, fresh : BOOLEAN] \cup {NoCall}]
  /\ \A c \in Starts : starts'[c] # NoCall =>
       starts'[c].order \in Plain /\ (starts'[c].fresh => Len(runs[starts'[c].order]) < 2)

\* Events: at most a stop of an attempt that has its run.
LogStops ==
  /\ log' \in [Managed -> Log]
  /\ \A o \in Managed :
       /\ log'[o].claimed = log[o].claimed /\ log'[o].settled = log[o].settled
       /\ log'[o].terminal = log[o].terminal /\ (log[o].stopped => log'[o].stopped)
       /\ runs[o] = <<>> => log'[o].stopped = log[o].stopped

\* Paid authority is prepared once, and once it is taken away it stays so.
AuthorityFalls ==
  /\ authority' \in [Managed -> Authority]
  /\ \A o \in Managed :
       /\ authority[o] # "none" => authority'[o] # "none"
       /\ IsTerminal(o) /\ authority[o] \in {"fenced", "cancelled", "gone"}
            => authority'[o] \in {"fenced", "cancelled", "gone"}

CallsSound ==
  /\ calls' \in [Callers -> Call \cup {NoCall}]
  /\ \A c \in Callers : calls'[c] # NoCall => Sound(calls'[c])

\* An order is saved, if at all, before its first run.
OrdersStay ==
  /\ order' \in [Orders -> OrderState]
  /\ \A o \in Orders : order'[o] = order[o] \/ (runs[o] = <<>> /\ order'[o] # "absent")

Rests ==
  /\ SameJob /\ SameRuns /\ StartsFair /\ LogStops /\ AuthorityFalls /\ CallsSound /\ OthersTyped
  /\ alive' \subseteq alive /\ OrdersStay /\ UNCHANGED hold

LEMMA SameJobFields ==
  ASSUME DispatchInv, SameJob
  PROVE  /\ job' \in Job \cup {NoJob} /\ Busy' = Busy
         /\ Busy => /\ job \in Job /\ job'.order = job.order /\ job'.n = job.n /\ job'.prepare = job.prepare
                    /\ job'.gated = job.gated /\ job'.pc = job.pc /\ job'.step = job.step /\ job.order \in Orders
         /\ \A o \in Orders : JobOn(o)' = JobOn(o)
         /\ \A o \in Managed : ActiveRun(o)' = ActiveRun(o)
<1>1. Busy => job \in Job BY DEF DispatchInv, DispatchTypeOK, JobTypeOK, Busy
<1>2. CASE job' = job BY <1>1, <1>2 DEF Busy, JobOn, ActiveRun, Job, DispatchInv, DispatchTypeOK, JobTypeOK
<1>3. ASSUME Busy, NEW a \in {"user_cancel", "service_shutdown"}, job' = [job EXCEPT !.abort = a]
      PROVE  /\ job' \in Job /\ Busy' /\ job'.order = job.order /\ job'.n = job.n /\ job'.prepare = job.prepare
             /\ job'.gated = job.gated /\ job'.pc = job.pc /\ job'.step = job.step /\ job.order \in Orders
  BY <1>1, <1>3, Sentinels DEF Busy, Job
<1>4. CASE Busy /\ \E a \in {"user_cancel", "service_shutdown"} : job' = [job EXCEPT !.abort = a]
  BY <1>1, <1>3, <1>4 DEF JobOn, ActiveRun
<1> QED BY <1>2, <1>4 DEF SameJob

LEMMA SameRunsRows ==
  ASSUME DispatchInv, SameRuns
  PROVE  /\ \A o \in Orders : (runs'[o] = <<>> <=> runs[o] = <<>>) /\ DOMAIN runs'[o] = DOMAIN runs[o]
         /\ \A o \in Orders : \A n \in DOMAIN runs[o] : n \in 1..Len(runs[o])
         /\ \A o \in Orders : runs[o] # <<>> => Len(runs[o]) \in 1..Len(runs[o]) /\ 1 \in 1..Len(runs[o])
<1>1. runs \in [Orders -> Seq(Run)] BY DEF DispatchInv, DispatchTypeOK, JobTypeOK
<1>2. runs' \in [Orders -> Seq(Run)] /\ \A o \in Orders : Len(runs'[o]) = Len(runs[o]) BY DEF SameRuns
<1>3. \A o \in Orders : DOMAIN runs'[o] = 1..Len(runs'[o]) /\ (runs'[o] = <<>> <=> Len(runs'[o]) = 0) BY <1>2
<1> QED BY <1>1, <1>2, <1>3, Rows

LEMMA RestsTypes ==
  ASSUME DispatchInv, Rests
  PROVE  DispatchTypeOK' /\ JobAt' /\ RunsKept' /\ Attended'
<1>1. DispatchTypeOK'
  BY SameJobFields DEF DispatchInv, DispatchTypeOK, JobTypeOK, Rests, SameRuns, StartsFair, LogStops,
     AuthorityFalls, CallsSound, OthersTyped, OrdersStay
<1>2. JobAt'
  <2>1. CASE Busy /\ job.pc \notin Starting
    <3>1. job.n = Len(runs[job.order]) /\ job.n > 0 /\ job.order \in Orders
      BY <2>1, SameJobFields DEF Rests, DispatchInv, JobAt
    <3>2. job.n \in 1..Len(runs[job.order]) BY <3>1, Rows DEF DispatchInv, DispatchTypeOK, JobTypeOK
    <3>3. ThisRun' = runs'[job.order][job.n] BY <2>1, SameJobFields DEF ThisRun, Rests
    <3>4. ThisRun'.state = ThisRun.state /\ ThisRun'.kind = ThisRun.kind /\ ThisRun'.recorded = ThisRun.recorded
      BY <3>1, <3>2, <3>3 DEF Rests, SameRuns, ThisRun
    <3>5. Len(runs'[job'.order]) = Len(runs[job.order]) BY <2>1, <3>1, SameJobFields DEF Rests, SameRuns
    <3> QED BY <2>1, <3>1, <3>4, <3>5, SameJobFields DEF JobAt, DispatchInv, Rests
  <2>2. CASE ~(Busy /\ job.pc \notin Starting)
    BY <2>2, SameJobFields DEF JobAt, DispatchInv, Rests, Starting, Working
  <2> QED BY <2>1, <2>2
<1>3. RunsKept'
  <2>1. \A o \in Orders : Len(runs'[o]) = Len(runs[o]) BY DEF Rests, SameRuns
  <2>2. \A o \in Orders : JobOn(o)' /\ job'.n = 0 => JobOn(o) /\ job.n = 0
    BY SameJobFields DEF Rests, JobOn
  <2>3. \A c \in Starts : starts'[c] # NoCall => starts'[c].order \in Plain /\ starts'[c].order \in Orders
    BY DEF Rests, StartsFair, Orders
  <2>4. \A c \in Starts : starts'[c] # NoCall /\ starts'[c].fresh => Len(runs[starts'[c].order]) < 2
    BY DEF Rests, StartsFair
  <2> QED BY <2>1, <2>2, <2>3, <2>4 DEF DispatchInv, RunsKept, Limit, Awaiting
<1>4. Attended'
  <2> SUFFICES ASSUME NEW o \in Orders, NEW n \in DOMAIN runs[o], runs'[o][n].state \in Open
               PROVE  (Busy' /\ Attempt' = <<o, n>>) \/ runs'[o][n].kind = "prepared"
    BY SameRunsRows DEF Attended, Rests
  <2>1. n \in 1..Len(runs[o]) BY SameRunsRows DEF Rests
  <2>2. runs[o][n].state \in Open /\ runs'[o][n].kind = runs[o][n].kind BY <2>1 DEF Rests, SameRuns
  <2>3. Busy => Attempt' = Attempt BY SameJobFields DEF Rests, Attempt
  <2> QED BY <2>2, <2>3, SameJobFields DEF Rests, DispatchInv, Attended
<1> QED BY <1>1, <1>2, <1>3, <1>4

LEMMA RestsKeep ==
  ASSUME DispatchInv, Rests
  PROVE  DispatchInv'
<1>1. /\ SameRuns /\ OrdersStay /\ hold' = hold /\ alive' \subseteq alive
      /\ \A o \in Orders : JobOn(o)' = JobOn(o)
      /\ \A o \in Managed : ActiveRun(o)' = ActiveRun(o)
  BY SameJobFields DEF Rests
<1>2. \A o \in Managed : o \in Orders BY DEF Orders
<1>3. ASSUME NEW o \in Managed
      PROVE  /\ HasRun(o)' = HasRun(o) /\ IsTerminal(o)' = IsTerminal(o)
             /\ HasRun(o) => /\ TheRun(o)'.state = TheRun(o).state /\ TheRun(o)'.kind = TheRun(o).kind
                             /\ TheRun(o)'.recorded = TheRun(o).recorded /\ TheRun(o)'.recovered = TheRun(o).recovered
  <2>1. HasRun(o)' = HasRun(o) BY <1>1, <1>2, SameRunsRows DEF HasRun
  <2>2. IsTerminal(o)' = IsTerminal(o) BY DEF Rests, LogStops, IsTerminal
  <2>3. HasRun(o) => 1 \in 1..Len(runs[o]) BY <1>1, <1>2, SameRunsRows DEF HasRun
  <2> QED BY <1>1, <1>2, <2>1, <2>2, <2>3 DEF SameRuns, TheRun
<1>4. HoldInv'
  <2>1. ASSUME NEW o \in Plain, hold'[o] # NoHold
        PROVE  runs'[o] # <<>> /\ Last(o)'.state = "interrupted" /\ ~JobOn(o)'
    <3>1. o \in Orders /\ runs[o] # <<>> /\ Last(o).state = "interrupted" /\ ~JobOn(o)
      BY <1>1, <2>1 DEF DispatchInv, HoldInv, Orders
    <3>2. Len(runs[o]) \in 1..Len(runs[o]) /\ runs'[o] # <<>> BY <1>1, <3>1, SameRunsRows
    <3>3. Last(o)'.state = Last(o).state BY <1>1, <3>1, <3>2 DEF Last, SameRuns
    <3> QED BY <1>1, <3>1, <3>2, <3>3
  <2>2. ASSUME NEW p \in alive', p[1] \in Plain PROVE Held(p)' \/ (At("agent")' /\ p = Agent("first")')
    <3>1. CASE Held(p) BY <1>1, <3>1 DEF Held
    <3>2. CASE At("agent") /\ p = Agent("first") BY <3>2, SameJobFields DEF At, Agent, Rests
    <3> QED BY <1>1, <2>2, <3>1, <3>2 DEF DispatchInv, HoldInv
  <2>3. ASSUME NEW p \in alive', p[1] \in Managed PROVE p[2] = 1 BY <1>1, <2>3 DEF DispatchInv, HoldInv
  <2> QED BY <2>1, <2>2, <2>3 DEF HoldInv
<1>5. ManagedInv'
  <2> SUFFICES ASSUME NEW o \in Managed
               PROVE  (/\ order[o] = "absent" => runs[o] = <<>> /\ ~JobOn(o)
                       /\ HasRun(o) \/ JobOn(o) => authority[o] # "none"
                       /\ ~HasRun(o) => ~Answered(o) /\ ~log[o].settled
                       /\ HasRun(o) =>
                            /\ TheRun(o).kind = IF log[o].claimed THEN "claimed" ELSE "prepared"
                            /\ ~log[o].claimed => TheRun(o).recorded = {} /\ (TheRun(o).state = "planning" \/ IsTerminal(o))
                            /\ TheRun(o).recovered => log[o].claimed /\ TheRun(o).state \in {"interrupted", "cancelled"}
                            /\ log[o].settled => log[o].claimed /\ ~ActiveRun(o))'
    BY DEF ManagedInv
  <2>1. JobOn(o)' = JobOn(o) /\ ActiveRun(o)' = ActiveRun(o) BY <1>1, <1>2
  <2>2. log'[o].claimed = log[o].claimed /\ log'[o].settled = log[o].settled
        /\ (authority[o] # "none" => authority'[o] # "none") /\ (~HasRun(o) => Answered(o)' = Answered(o))
    BY DEF Rests, LogStops, AuthorityFalls, Answered, HasRun
  <2>3. order'[o] = "absent" => order[o] = "absent" BY <1>1, <1>2 DEF OrdersStay
  <2>4. runs[o] = <<>> => runs'[o] = <<>> BY <1>3 DEF HasRun
  <2> QED BY <1>3, <2>1, <2>2, <2>3, <2>4 DEF DispatchInv, ManagedInv
<1>6. CallInv'
  <2> SUFFICES ASSUME NEW c \in Callers, calls'[c] # NoCall PROVE Sound(calls[c])'
    BY DEF CallInv
  <2>1. calls'[c] \in Call /\ Sound(calls'[c]) BY DEF Rests, CallsSound
  <2> PICK call \in Call : call = calls'[c] BY <2>1
  <2>2. Sound(call) /\ call.order \in Managed BY <2>1 DEF Call
  <2>3. HasRun(call.order) BY <2>2 DEF Sound
  <2>4. log'[call.order].claimed = log[call.order].claimed /\ (log[call.order].stopped => log'[call.order].stopped)
    BY <2>2 DEF Rests, LogStops
  <2>5. \A p \in alive' : p[1] = call.order => p \in alive BY <1>1
  <2>6. Sound(call)' BY <1>3, <2>2, <2>3, <2>4, <2>5, SoundStays
  <2> QED BY <2>6
<1>7. TerminalInv'
  <2> SUFFICES ASSUME NEW o \in Managed, IsTerminal(o)' PROVE Final(o)' BY DEF TerminalInv
  <2>1. IsTerminal(o) /\ Final(o) BY <1>3 DEF DispatchInv, TerminalInv
  <2>2. HasRun(o)' /\ ~ActiveRun(o)' /\ authority'[o] \in {"fenced", "cancelled", "gone"}
        /\ log'[o].terminal = log[o].terminal
    BY <1>1, <1>3, <2>1 DEF Final, Rests, AuthorityFalls, LogStops
  <2>3. TheRun(o)'.state = TheRun(o).state /\ TheRun(o)'.recorded = TheRun(o).recorded BY <1>3, <2>1 DEF Final
  <2>4. \A p \in alive' : p[1] = o => p \in alive BY <1>1
  <2> QED BY <2>1, <2>2, <2>3, <2>4, FinalStays
<1>8. RecordsAgree'
  <2>1. ASSUME NEW o \in Orders, runs'[o] # <<>> PROVE Agrees(runs'[o][Len(runs'[o])].state, order'[o])
    <3>1. runs[o] # <<>> /\ Len(runs[o]) \in 1..Len(runs[o]) BY <1>1, <2>1, SameRunsRows
    <3>2. runs'[o][Len(runs'[o])].state = runs[o][Len(runs[o])].state BY <1>1, <3>1 DEF SameRuns
    <3>3. order'[o] = order[o] BY <1>1, <3>1 DEF OrdersStay
    <3> QED BY <3>1, <3>2, <3>3 DEF DispatchInv, RecordsAgree, OrderFollowsRun, Agrees
  <2>2. ASSUME NEW o \in Orders, NEW n \in DOMAIN runs[o], runs'[o][n].result # "none"
        PROVE  runs'[o][n].result = runs'[o][n].state
    <3>1. n \in 1..Len(runs[o]) BY <1>1, SameRunsRows
    <3> QED BY <1>1, <2>2, <3>1 DEF SameRuns, DispatchInv, RecordsAgree, ResultTrue
  <2> QED BY <1>1, <2>1, <2>2, SameRunsRows DEF RecordsAgree, OrderFollowsRun, ResultTrue, Agrees
<1> QED BY <1>4, <1>5, <1>6, <1>7, <1>8, RestsTypes DEF DispatchInv

LEMMA SameParts ==
  ASSUME DispatchInv
  PROVE  /\ runs' = runs => SameRuns
         /\ order' = order => OrdersStay
         /\ starts' = starts => StartsFair
         /\ log' = log => LogStops
         /\ authority' = authority => AuthorityFalls
         /\ calls' = calls => CallsSound
<1>1. runs' = runs => SameRuns BY DEF DispatchInv, DispatchTypeOK, JobTypeOK, SameRuns
<1>2. starts' = starts => StartsFair
  BY DEF DispatchInv, DispatchTypeOK, JobTypeOK, RunsKept, Awaiting, StartsFair
<1>3. log' = log => LogStops BY DEF DispatchInv, DispatchTypeOK, LogStops
<1>4. authority' = authority => AuthorityFalls BY DEF DispatchInv, DispatchTypeOK, AuthorityFalls
<1>5. calls' = calls => CallsSound BY DEF DispatchInv, DispatchTypeOK, CallInv, CallsSound
<1>6. order' = order => OrdersStay BY DEF DispatchInv, DispatchTypeOK, JobTypeOK, OrdersStay
<1> QED BY <1>1, <1>2, <1>3, <1>4, <1>5, <1>6

\* A call that ends, or one that begins or goes on with what is true.
LEMMA OneCall ==
  ASSUME DispatchInv, NEW c \in Callers, NEW call \in Call \cup {NoCall}, call # NoCall => Sound(call),
         calls' = [calls EXCEPT ![c] = call]
  PROVE  CallsSound
<1>1. calls' \in [Callers -> Call \cup {NoCall}] BY DEF DispatchInv, DispatchTypeOK
<1>2. ASSUME NEW d \in Callers, calls'[d] # NoCall PROVE Sound(calls'[d])
  <2>1. CASE d = c
    <3>1. calls'[d] = call BY <2>1 DEF DispatchInv, DispatchTypeOK
    <3> QED BY <1>2, <3>1
  <2>2. CASE d # c
    <3>1. calls'[d] = calls[d] BY <2>2 DEF DispatchInv, DispatchTypeOK
    <3> QED BY <1>2, <3>1 DEF DispatchInv, CallInv
  <2> QED BY <2>1, <2>2
<1> QED BY <1>1, <1>2 DEF CallsSound

LEMMA FenceFalls ==
  ASSUME DispatchInv, NEW o \in Managed, Fence(o)
  PROVE  AuthorityFalls
BY DEF DispatchInv, DispatchTypeOK, Fence, AuthorityFalls, Authority

LEMMA RipeOver ==
  ASSUME DispatchInv, NEW o \in Managed, HasRun(o), Ripe(o)
  PROVE  Over(o)
BY DEF DispatchInv, ManagedInv, Ripe, Over, Ended, Closed, Recoverable

LEMMA HumanRests ==
  ASSUME DispatchInv, UNCHANGED <<log, authority, late, calls>>,
         \/ \E c \in Starts : StartRefused(c) \/ \E o \in Plain : Start(c, o)
         \/ \E o \in Orders : CancelRun(o)
         \/ \E p \in BOOLEAN : SetPaused(p)
         \/ \E o \in Orders : ReadResult(o)
         \/ Host \/ Shutdown
  PROVE  Rests
<1>0. /\ LogStops /\ AuthorityFalls /\ CallsSound
      /\ alive \subseteq Process /\ containers \subseteq Orders \X (1..MaxAttempts)
      /\ paused \in BOOLEAN /\ restarts \in 0..MaxRestarts /\ late \subseteq Managed
  BY SameParts DEF DispatchInv, DispatchTypeOK, JobTypeOK
<1>1. CASE \E c \in Starts : StartRefused(c) \/ \E o \in Plain : Start(c, o)
  <2>1. SameJob /\ SameRuns /\ OthersTyped /\ alive' \subseteq alive /\ OrdersStay /\ UNCHANGED hold
    BY <1>0, <1>1, SameParts DEF StartRefused, Start, SameJob, OthersTyped, dbVars
  <2>2. StartsFair
    <3>1. PICK c \in Starts : StartRefused(c) \/ \E o \in Plain : Start(c, o) BY <1>1
    <3>2. CASE StartRefused(c)
      BY <3>2 DEF StartRefused, StartsFair, DispatchInv, DispatchTypeOK, JobTypeOK, RunsKept, Awaiting
    <3>3. ASSUME NEW o \in Plain, Start(c, o) PROVE StartsFair
      BY <3>3, Sentinels DEF Start, StartsFair, DispatchInv, DispatchTypeOK, JobTypeOK, RunsKept, Awaiting, Orders
    <3> QED BY <3>1, <3>2, <3>3
  <2> QED BY <1>0, <2>1, <2>2 DEF Rests
<1>2. CASE (\E o \in Orders : CancelRun(o)) \/ Shutdown
  BY <1>0, <1>2, SameParts DEF CancelRun, Shutdown, SameJob, OthersTyped, dbVars, Rests
<1>3. CASE \E p \in BOOLEAN : SetPaused(p)
  BY <1>0, <1>3, SameParts DEF SetPaused, SameJob, OthersTyped, dbVars, Rests
<1>4. CASE \E o \in Orders : ReadResult(o)
  <2> PICK o \in Orders : ReadResult(o) BY <1>4
  <2> PICK n \in DOMAIN runs[o] : \E run \in Finalize(runs[o][n]) : runs' = [runs EXCEPT ![o][n] = run]
    BY DEF ReadResult
  <2>1. PICK run \in Finalize(runs[o][n]) : runs' = [runs EXCEPT ![o][n] = run] OBVIOUS
  <2>2. n \in 1..Len(runs[o]) /\ runs[o][n] \in Run /\ runs \in [Orders -> Seq(Run)]
    BY Rows DEF DispatchInv, DispatchTypeOK, JobTypeOK
  <2>3. /\ run \in Run /\ run.state = runs[o][n].state /\ run.kind = runs[o][n].kind
        /\ run.recorded = runs[o][n].recorded /\ run.recovered = runs[o][n].recovered
        /\ run.result \in {runs[o][n].result, runs[o][n].state}
    <3>1. run = runs[o][n] \/ (run = [runs[o][n] EXCEPT !.result = runs[o][n].state] /\ Ended(runs[o][n].state))
      BY DEF Finalize
    <3> QED BY <2>2, <3>1 DEF Run, Ended
  <2>4. Wrote(o, n, run) BY <2>1, <2>2, <2>3, RunWritten
  <2>5. SameRuns BY <2>2, <2>3, <2>4 DEF Wrote, SameRuns
  <2>6. StartsFair BY SameParts DEF ReadResult
  <2> QED BY <1>0, <2>5, <2>6, SameParts DEF ReadResult, SameJob, OthersTyped, Rests
<1>5. CASE Host
  <2>1. /\ UNCHANGED <<dbVars, job, starts, paused, restarts>> /\ alive' \subseteq alive
        /\ containers' \subseteq containers
    BY <1>5 DEF Host, Exit, ExitContainer
  <2> QED BY <1>0, <2>1, SameParts DEF SameJob, OthersTyped, dbVars, Rests
<1> QED BY <1>1, <1>2, <1>3, <1>4, <1>5

LEMMA ConnectionRests ==
  ASSUME DispatchInv,
         \/ \E o \in Managed : PrepareAgain(o) \/ Deadline(o) \/ Supersede(o) \/ Stop(o) \/ ReadTerminal(o)
         \/ \E c \in Dispatchers : DispatchRefused(c) \/ \E o \in Managed : Dispatch(c, o)
         \/ \E c \in Readers : ProbeContainers(c) \/ \E o \in Managed : ReadProbe(c, o)
  PROVE  Rests
<1>0. /\ alive \subseteq Process /\ containers \subseteq Orders \X (1..MaxAttempts)
      /\ paused \in BOOLEAN /\ restarts \in 0..MaxRestarts /\ late \subseteq Managed
      /\ authority \in [Managed -> Authority] /\ log \in [Managed -> Log]
      /\ calls \in [Callers -> Call \cup {NoCall}] /\ Dispatchers \subseteq Callers /\ Readers \subseteq Callers
  BY DEF DispatchInv, DispatchTypeOK, JobTypeOK, Callers
<1>1. ASSUME UNCHANGED jobVars, UNCHANGED late
      PROVE  /\ SameJob /\ SameRuns /\ StartsFair /\ OthersTyped /\ alive' \subseteq alive
             /\ OrdersStay /\ UNCHANGED hold
  BY <1>0, <1>1, SameParts DEF jobVars, SameJob, OthersTyped
<1>2. ASSUME NEW o \in Managed, PrepareAgain(o) \/ Supersede(o) \/ ReadTerminal(o) PROVE Rests
  <2>1. UNCHANGED <<jobVars, log, late, calls>> BY <1>2 DEF PrepareAgain, Supersede, ReadTerminal
  <2>2. AuthorityFalls
    <3>1. CASE PrepareAgain(o) BY <1>0, <3>1 DEF PrepareAgain, AuthorityFalls, Authority
    <3>2. CASE Supersede(o) BY <1>0, <3>2 DEF Supersede, AuthorityFalls, Authority
    <3>3. CASE ReadTerminal(o) BY <3>3, FenceFalls DEF ReadTerminal
    <3> QED BY <1>2, <3>1, <3>2, <3>3
  <2> QED BY <1>1, <2>1, <2>2, SameParts DEF Rests
<1>3. ASSUME NEW o \in Managed, Deadline(o) PROVE Rests
  <2>1. /\ UNCHANGED <<dbVars, starts, paused, alive, containers, restarts, log, authority, calls>>
        /\ late' \subseteq Managed /\ SameJob
    BY <1>0, <1>3 DEF Deadline, SameJob, ActiveRun
  <2> QED BY <1>0, <2>1, SameParts DEF OthersTyped, dbVars, Rests
<1>4. ASSUME NEW o \in Managed, Stop(o) PROVE Rests
  <2>1. /\ UNCHANGED <<dbVars, starts, paused, alive, containers, restarts, late, calls>> /\ SameJob
    BY <1>4 DEF Stop, SameJob, ActiveRun
  <2>2. AuthorityFalls BY <1>0, <1>4, SameParts DEF Stop, AuthorityFalls, Authority
  <2>3. LogStops
    <3> DEFINE row == [log[o] EXCEPT !.bound = TRUE, !.stopped = TRUE]
    <3>1. log' = [log EXCEPT ![o] = row] /\ runs[o] # <<>> BY <1>4 DEF Stop, HasRun
    <3>2. /\ row \in Log /\ row.claimed = log[o].claimed /\ row.settled = log[o].settled
          /\ row.terminal = log[o].terminal /\ row.stopped
      BY <1>0 DEF Log
    <3> HIDE DEF row
    <3> QED BY <1>0, <3>1, <3>2 DEF LogStops
  <2> QED BY <1>0, <2>1, <2>2, <2>3, SameParts DEF OthersTyped, dbVars, Rests
<1>5. ASSUME NEW c \in Dispatchers, DispatchRefused(c) PROVE Rests
  <2>1. UNCHANGED <<jobVars, log, authority, late>> /\ calls' = [calls EXCEPT ![c] = NoCall]
    BY <1>5 DEF DispatchRefused, Done
  <2>2. CallsSound BY <1>0, <2>1, OneCall
  <2> QED BY <1>1, <2>1, <2>2, SameParts DEF Rests
<1>6. ASSUME NEW c \in Dispatchers, NEW o \in Managed, Dispatch(c, o) PROVE Rests
  <2> DEFINE call == [kind |-> "dispatch", order |-> o, ripe |-> FALSE,
                      claimed |-> FALSE, state |-> "planning", absent |-> FALSE]
  <2>1. /\ UNCHANGED <<jobVars, log, late>> /\ calls' = [calls EXCEPT ![c] = call] /\ HasRun(o) /\ ~IsTerminal(o)
    BY <1>6 DEF Dispatch, Answered, IsTerminal
  <2>2. call \in Call /\ Sound(call) BY <2>1 DEF Call, Sound, Open
  <2> HIDE DEF call
  <2>3. CallsSound BY <1>0, <2>1, <2>2, OneCall
  <2>4. AuthorityFalls BY <1>0, <1>6, <2>1, SameParts DEF Dispatch, AuthorityFalls, Authority
  <2> QED BY <1>1, <2>1, <2>3, <2>4, SameParts DEF Rests
<1>7. ASSUME NEW c \in Readers, ProbeContainers(c) PROVE Rests
  <2>1. PICK absent \in BOOLEAN : calls' = [calls EXCEPT ![c] = [calls[c] EXCEPT !.kind = "decide", !.absent = absent]]
    BY <1>7 DEF ProbeContainers
  <2>2. UNCHANGED <<jobVars, log, authority, late>> /\ calls[c] # NoCall BY <1>7 DEF ProbeContainers, Calling
  <2>3. calls[c] \in Call /\ Sound(calls[c]) BY <1>0, <2>2 DEF DispatchInv, CallInv
  <2> DEFINE call == [calls[c] EXCEPT !.kind = "decide", !.absent = absent]
  <2>4. /\ call \in Call /\ call.order = calls[c].order /\ call.ripe = calls[c].ripe
        /\ call.state = calls[c].state /\ call.claimed = calls[c].claimed
    BY <2>3 DEF Call
  <2>5. calls' = [calls EXCEPT ![c] = call] BY <2>1
  <2> HIDE DEF call
  <2>6. Sound(call) BY <2>3, <2>4 DEF Sound
  <2>7. CallsSound BY <1>0, <2>4, <2>5, <2>6, OneCall
  <2> QED BY <1>1, <2>2, <2>7, SameParts DEF Rests
<1>8. ASSUME NEW c \in Readers, NEW o \in Managed, ReadProbe(c, o) PROVE Rests
  <2> DEFINE call == [kind |-> "probe", order |-> o, ripe |-> Ripe(o),
                      claimed |-> log[o].claimed, state |-> TheRun(o).state, absent |-> FALSE]
  <2>1. UNCHANGED <<jobVars, log, authority, late>> /\ calls' = [calls EXCEPT ![c] = call] /\ HasRun(o)
    BY <1>8 DEF ReadProbe
  <2>2. TheRun(o) \in Run /\ log[o].claimed \in BOOLEAN
    <3>1. 1 \in 1..Len(runs[o]) /\ o \in Orders BY <2>1, ManagedOnce, Rows DEF HasRun, DispatchInv, DispatchTypeOK, JobTypeOK
    <3>2. TheRun(o) \in Run BY <3>1, Rows DEF TheRun, DispatchInv, DispatchTypeOK, JobTypeOK
    <3> QED BY <1>0, <3>2 DEF Log
  <2>3. Ripe(o) \in BOOLEAN /\ TheRun(o).state \in Open \cup Closed BY <2>2 DEF Ripe, Run
  <2>4. /\ call \in Call /\ call.order = o /\ call.ripe = Ripe(o) /\ call.state = TheRun(o).state
        /\ call.claimed = log[o].claimed
    BY <2>2, <2>3 DEF Call
  <2> HIDE DEF call
  <2>5. Sound(call) BY <2>1, <2>4, RipeOver DEF Sound
  <2>6. CallsSound BY <1>0, <2>1, <2>4, <2>5, OneCall
  <2> QED BY <1>1, <2>1, <2>6, SameParts DEF Rests
<1> QED BY <1>2, <1>3, <1>4, <1>5, <1>6, <1>7, <1>8
-----------------------------------------------------------------------------
(* The terminal answer *)

\* A read that finds an attempt over, with what it read of it.
Answers(o, claimed, state) ==
  /\ HasRun(o) /\ ~ActiveRun(o) /\ Over(o)
  /\ IsTerminal(o) \/ (TheRun(o).state = state /\ log[o].claimed = claimed)
  /\ Terminal(o, claimed, state) /\ CallsKept
  /\ UNCHANGED <<hold, job, starts, paused, alive, containers, restarts, late>>

TruthOf(claimed, state) ==
  IF ~claimed THEN "NOT_DISPATCHED"
  ELSE CASE state = "ready_for_review" -> "COMPLETED"
         [] state = "failed"           -> "FAILED"
         [] OTHER                      -> "CANCELLED"

LEMMA AnswersAgain ==
  ASSUME DispatchInv, NEW o \in Managed, NEW claimed, NEW state, Answers(o, claimed, state), UNCHANGED <<log, runs, order>>
  PROVE  Rests
<1>1. AuthorityFalls BY FenceFalls DEF Answers, Terminal
<1>2. CallsSound BY DEF Answers, CallsKept, CallsSound, DispatchInv, CallInv
<1>3. /\ UNCHANGED <<paused, alive, containers, restarts, late, hold>> /\ alive \subseteq Process
      /\ containers \subseteq Orders \X (1..MaxAttempts) /\ SameJob
  BY DEF Answers, SameJob, DispatchInv, DispatchTypeOK, JobTypeOK
<1>4. OthersTyped BY <1>3, HostSame
<1> QED BY <1>1, <1>2, <1>3, <1>4, SameParts DEF Answers, Rests

\* The run of an order that the job is not at is the one that is written.
LEMMA AnswersFirst ==
  ASSUME DispatchInv, NEW o \in Managed, NEW claimed, NEW state, Answers(o, claimed, state), ~UNCHANGED <<log, runs, order>>
  PROVE  \E run \in Run, row \in Log :
           /\ ~IsTerminal(o) /\ ~JobOn(o) /\ Wrote(o, 1, run) /\ log' = [log EXCEPT ![o] = row]
           /\ row.claimed = log[o].claimed /\ row.stopped = log[o].stopped /\ row.settled = log[o].settled
           /\ row.terminal = TruthOf(log[o].claimed, TheRun(o).state)
           /\ run.kind = TheRun(o).kind /\ run.recorded = TheRun(o).recorded /\ run.recovered = TheRun(o).recovered
           /\ run.result \in {"none", run.state}
           /\ run.state = IF Ended(TheRun(o).state) THEN TheRun(o).state ELSE "cancelled"
           /\ order' = IF Ended(TheRun(o).state) THEN order ELSE [order EXCEPT ![o] = "cancelled"]
           /\ authority' \in [Managed -> Authority] /\ authority'[o] \in {"fenced", "cancelled", "gone"}
           /\ \A q \in Managed : q # o => authority'[q] = authority[q]
<1>1. /\ o \in Orders /\ runs \in [Orders -> Seq(Run)] /\ 1 \in 1..Len(runs[o]) /\ Len(runs[o]) = 1
      /\ log \in [Managed -> Log] /\ authority \in [Managed -> Authority]
  BY ManagedOnce, Rows DEF Answers, HasRun, DispatchInv, DispatchTypeOK, JobTypeOK
<1>2. TheRun(o) \in Run /\ 1 \in DOMAIN runs[o] BY <1>1, Rows DEF TheRun
<1>3. /\ ~IsTerminal(o) /\ TheRun(o).state = state /\ log[o].claimed = claimed
      /\ log' = [log EXCEPT ![o].terminal = TruthOf(claimed, state)]
      /\ IF Ended(state) THEN UNCHANGED <<runs, order>>
         ELSE /\ runs' = [runs EXCEPT ![o][1].state = "cancelled"]
              /\ order' = [order EXCEPT ![o] = "cancelled"]
  BY DEF Answers, Terminal, IsTerminal, TruthOf
<1>4. ~JobOn(o)
  <2>1. JobOn(o) => job.n # 0
    <3>1. JobOn(o) /\ job.n = 0 => Len(runs[o]) < Limit(o) BY <1>1 DEF DispatchInv, RunsKept
    <3>2. Limit(o) = 1 /\ ~(1 < 1) BY DEF Limit
    <3> QED BY <1>1, <3>1, <3>2
  <2>2. JobOn(o) => job.pc \notin Starting BY <2>1 DEF JobOn, DispatchInv, JobAt
  <2>3. JobOn(o) => job.n = 1 BY <1>1, <2>2 DEF JobOn, DispatchInv, JobAt
  <2> QED BY <2>3 DEF Answers, ActiveRun, JobOn
<1>5. /\ authority' \in [Managed -> Authority] /\ authority'[o] \in {"fenced", "cancelled", "gone"}
      /\ \A q \in Managed : q # o => authority'[q] = authority[q]
  <2>1. authority[o] # "none" BY DEF Answers, DispatchInv, ManagedInv
  <2>2. authority[o] \in {"prepared", "active", "fenced", "cancelled", "gone"} BY <1>1, <2>1 DEF Authority
  <2> QED BY <1>1, <2>2 DEF Answers, Terminal, Fence, Authority
<1> DEFINE row == [log[o] EXCEPT !.terminal = TruthOf(claimed, state)]
<1>6. /\ row \in Log /\ row.claimed = log[o].claimed /\ row.stopped = log[o].stopped
      /\ row.settled = log[o].settled /\ row.terminal = TruthOf(log[o].claimed, TheRun(o).state)
  <2>1. TruthOf(claimed, state) \in Outcome BY DEF TruthOf, Outcome
  <2> QED BY <1>1, <1>3, <2>1 DEF Log
<1>7. log' = [log EXCEPT ![o] = row] BY <1>1, <1>3
<1> HIDE DEF row
<1>8. TheRun(o).result \in {"none", TheRun(o).state} /\ (~Ended(TheRun(o).state) => TheRun(o).result = "none")
  BY <1>1, <1>2 DEF DispatchInv, RecordsAgree, ResultTrue, TheRun, Ended, Run
<1>9. CASE Ended(state)
  <2>1. Wrote(o, 1, TheRun(o)) BY <1>1, <1>3, <1>9, NothingWritten DEF TheRun
  <2> QED BY <1>2, <1>3, <1>4, <1>5, <1>6, <1>7, <1>8, <1>9, <2>1
<1>10. CASE ~Ended(state)
  <2> DEFINE run == [TheRun(o) EXCEPT !.state = "cancelled"]
  <2>1. /\ run \in Run /\ run.kind = TheRun(o).kind /\ run.recorded = TheRun(o).recorded
        /\ run.recovered = TheRun(o).recovered /\ run.result = TheRun(o).result /\ run.state = "cancelled"
    BY <1>2 DEF Run, Closed
  <2>2. runs' = [runs EXCEPT ![o][1] = run] BY <1>3, <1>10 DEF TheRun
  <2> HIDE DEF run
  <2>3. Wrote(o, 1, run) BY <1>1, <2>1, <2>2, RunWritten
  <2> QED BY <1>2, <1>3, <1>4, <1>5, <1>6, <1>7, <1>8, <1>10, <2>1, <2>3
<1> QED BY <1>9, <1>10

LEMMA AnswersKeep ==
  ASSUME DispatchInv, NEW o \in Managed, NEW claimed, NEW state, Answers(o, claimed, state), ~UNCHANGED <<log, runs, order>>
  PROVE  DispatchInv'
<1>1. PICK run \in Run, row \in Log :
           /\ ~IsTerminal(o) /\ ~JobOn(o) /\ Wrote(o, 1, run) /\ log' = [log EXCEPT ![o] = row]
           /\ row.claimed = log[o].claimed /\ row.stopped = log[o].stopped /\ row.settled = log[o].settled
           /\ row.terminal = TruthOf(log[o].claimed, TheRun(o).state)
           /\ run.kind = TheRun(o).kind /\ run.recorded = TheRun(o).recorded /\ run.recovered = TheRun(o).recovered
           /\ run.result \in {"none", run.state}
           /\ run.state = IF Ended(TheRun(o).state) THEN TheRun(o).state ELSE "cancelled"
           /\ order' = IF Ended(TheRun(o).state) THEN order ELSE [order EXCEPT ![o] = "cancelled"]
           /\ authority' \in [Managed -> Authority] /\ authority'[o] \in {"fenced", "cancelled", "gone"}
           /\ \A q \in Managed : q # o => authority'[q] = authority[q]
  BY AnswersFirst
<1>2. /\ o \in Orders /\ runs \in [Orders -> Seq(Run)] /\ 1 \in 1..Len(runs[o]) /\ Len(runs[o]) = 1 /\ HasRun(o)
      /\ log \in [Managed -> Log] /\ order \in [Orders -> OrderState] /\ \A q \in Managed : q \in Orders
  BY ManagedOnce, Rows DEF Answers, HasRun, DispatchInv, DispatchTypeOK, JobTypeOK
<1>3. /\ UNCHANGED <<hold, job, starts, paused, alive, containers, restarts, late>>
      /\ calls' \in [Callers -> Call \cup {NoCall}] /\ \A c \in Callers : calls'[c] # NoCall => calls'[c] = calls[c]
      /\ ~ActiveRun(o) /\ Over(o)
  BY DEF Answers, CallsKept
<1>4. /\ runs' \in [Orders -> Seq(Run)] /\ \A q \in Orders : Len(runs'[q]) = Len(runs[q])
      /\ \A q \in Orders : q # o => \A m \in 1..Len(runs[q]) : runs'[q][m] = runs[q][m]
      /\ runs'[o][1] = run
  BY <1>1, <1>2 DEF Wrote
<1>5. \A q \in Orders : (runs'[q] = <<>> <=> runs[q] = <<>>) /\ DOMAIN runs'[q] = 1..Len(runs[q])
  BY <1>2, <1>4, Rows
<1>6. run.state \in Closed /\ TheRun(o)' = run /\ HasRun(o)' BY <1>1, <1>2, <1>4, <1>5 DEF Ended, Closed, TheRun, HasRun
<1>7. /\ log'[o] = row /\ \A q \in Managed : q # o => log'[q] = log[q]
      /\ IsTerminal(o)' /\ \A q \in Managed : q # o => IsTerminal(q)' = IsTerminal(q)
  <2>1. row.terminal # "none" BY <1>1 DEF TruthOf
  <2> QED BY <1>1, <1>2, <2>1 DEF IsTerminal
<1>8. \A q \in Managed : q # o => /\ HasRun(q)' = HasRun(q) /\ (HasRun(q) => TheRun(q)' = TheRun(q))
  <2> SUFFICES ASSUME NEW q \in Managed, q # o, HasRun(q) PROVE runs'[q][1] = runs[q][1]
    BY <1>2, <1>5 DEF HasRun, TheRun
  <2>1. 1 \in 1..Len(runs[q]) BY <1>2, Rows, ManagedOnce DEF HasRun
  <2> QED BY <1>2, <1>4, <2>1
<1>9. \A q \in Managed : ActiveRun(q)' = ActiveRun(q) BY <1>3 DEF ActiveRun, Busy
<1>10. \A q \in Orders : JobOn(q)' = JobOn(q) BY <1>3 DEF JobOn, Busy
<1>11. DispatchTypeOK'
  <2>1. order' \in [Orders -> OrderState] BY <1>1, <1>2 DEF OrderState, Closed
  <2>2. log' \in [Managed -> Log] BY <1>1, <1>2
  <2> QED BY <1>1, <1>3, <1>4, <2>1, <2>2 DEF DispatchInv, DispatchTypeOK, JobTypeOK
<1>12. JobAt'
  <2>1. CASE Busy /\ job.pc \notin Starting
    <3>1. job.n = Len(runs[job.order]) /\ job.n > 0 /\ job.order \in Orders /\ job.order # o
      BY <1>1, <2>1 DEF DispatchInv, JobAt, JobOn, DispatchTypeOK, JobTypeOK, Busy, Job
    <3>2. job.n \in 1..Len(runs[job.order]) BY <1>2, <3>1, Rows
    <3>3. ThisRun' = ThisRun BY <1>3, <1>4, <3>1, <3>2 DEF ThisRun
    <3>4. Len(runs'[job.order]) = Len(runs[job.order]) BY <1>4, <3>1
    <3> QED BY <1>3, <2>1, <3>3, <3>4 DEF JobAt, DispatchInv, Busy
  <2>2. CASE ~(Busy /\ job.pc \notin Starting)
    BY <1>3, <2>2 DEF JobAt, DispatchInv, Starting, Working, Busy
  <2> QED BY <2>1, <2>2
<1>13. RunsKept'
  <2>1. \A q \in Orders : JobOn(q)' /\ job'.n = 0 => JobOn(q) /\ job.n = 0 BY <1>3, <1>10
  <2>2. \A c \in Starts : starts'[c] # NoCall => starts[c].order \in Plain /\ starts[c].order \in Orders
    BY <1>3 DEF DispatchInv, RunsKept, Awaiting, Orders
  <2> QED BY <1>3, <1>4, <2>1, <2>2 DEF DispatchInv, RunsKept, Limit, Awaiting
<1>14. HoldInv'
  <2>1. ASSUME NEW q \in Plain, hold'[q] # NoHold
        PROVE  runs'[q] # <<>> /\ Last(q)'.state = "interrupted" /\ ~JobOn(q)'
    <3>1. q \in Orders /\ runs[q] # <<>> /\ Last(q).state = "interrupted" /\ ~JobOn(q) /\ q # o
      BY <1>3, <2>1, OrdersDisjoint DEF DispatchInv, HoldInv, Orders
    <3>2. Len(runs[q]) \in 1..Len(runs[q]) /\ runs'[q] # <<>> BY <1>2, <1>5, <3>1, Rows
    <3>3. Last(q)' = Last(q) BY <1>4, <3>1, <3>2 DEF Last
    <3> QED BY <1>10, <3>1, <3>2, <3>3
  <2>2. ASSUME NEW p \in alive', p[1] \in Plain PROVE Held(p)' \/ (At("agent")' /\ p = Agent("first")')
    BY <1>3, <2>2 DEF Held, At, Agent, Busy, DispatchInv, HoldInv
  <2>3. ASSUME NEW p \in alive', p[1] \in Managed PROVE p[2] = 1 BY <1>3, <2>3 DEF DispatchInv, HoldInv
  <2> QED BY <2>1, <2>2, <2>3 DEF HoldInv
<1>15. ManagedInv'
  <2> SUFFICES ASSUME NEW q \in Managed
               PROVE  (/\ order[q] = "absent" => runs[q] = <<>> /\ ~JobOn(q)
                       /\ HasRun(q) \/ JobOn(q) => authority[q] # "none"
                       /\ ~HasRun(q) => ~Answered(q) /\ ~log[q].settled
                       /\ HasRun(q) =>
                            /\ TheRun(q).kind = IF log[q].claimed THEN "claimed" ELSE "prepared"
                            /\ ~log[q].claimed => TheRun(q).recorded = {} /\ (TheRun(q).state = "planning" \/ IsTerminal(q))
                            /\ TheRun(q).recovered => log[q].claimed /\ TheRun(q).state \in {"interrupted", "cancelled"}
                            /\ log[q].settled => log[q].claimed /\ ~ActiveRun(q))'
    BY DEF ManagedInv
  <2>1. CASE q = o
    <3>1. order[o] # "absent" BY <1>2 DEF DispatchInv, ManagedInv, HasRun
    <3>2. order'[o] # "absent" BY <1>1, <1>2, <3>1
    <3>3. TheRun(o)'.kind = IF log'[o].claimed THEN "claimed" ELSE "prepared"
      BY <1>1, <1>2, <1>6, <1>7 DEF DispatchInv, ManagedInv
    <3>4. ~log'[o].claimed => TheRun(o)'.recorded = {}
      BY <1>1, <1>2, <1>6, <1>7 DEF DispatchInv, ManagedInv
    <3>5. TheRun(o)'.recovered => log'[o].claimed /\ TheRun(o)'.state \in {"interrupted", "cancelled"}
      BY <1>1, <1>2, <1>6, <1>7 DEF DispatchInv, ManagedInv, Ended
    <3>6. log'[o].settled => log'[o].claimed
      BY <1>1, <1>2, <1>6, <1>7 DEF DispatchInv, ManagedInv
    <3>7. authority'[o] # "none" BY <1>1
    <3> QED BY <1>3, <1>6, <1>7, <1>9, <2>1, <3>2, <3>3, <3>4, <3>5, <3>6, <3>7
  <2>2. CASE q # o
    <3>1. order'[q] = order[q] /\ JobOn(q)' = JobOn(q) /\ authority'[q] = authority[q]
      BY <1>1, <1>2, <1>10, <2>2
    <3>2. log'[q] = log[q] /\ IsTerminal(q)' = IsTerminal(q) /\ Answered(q)' = Answered(q)
      BY <1>7, <2>2 DEF Answered
    <3>3. runs[q] = <<>> => runs'[q] = <<>> BY <1>2, <1>5
    <3> QED BY <1>8, <1>9, <2>2, <3>1, <3>2, <3>3 DEF DispatchInv, ManagedInv
  <2> QED BY <2>1, <2>2
<1>16. CallInv'
  <2> SUFFICES ASSUME NEW c \in Callers, calls'[c] # NoCall PROVE Sound(calls[c])'
    BY DEF CallInv
  <2>1. calls'[c] \in Call /\ Sound(calls'[c]) BY <1>3 DEF DispatchInv, CallInv
  <2> PICK call \in Call : call = calls'[c] BY <2>1
  <2>2. Sound(call) /\ call.order \in Managed BY <2>1 DEF Call
  <2>3. CASE call.order = o
    <3>1. ProcsOf(o, 1)' = ProcsOf(o, 1) BY <1>1, <1>6 DEF ProcsOf, TheRun
    <3>2. Over(o)' BY <1>1, <1>3, <1>6, <1>7, <3>1 DEF Over
    <3>3. Sound(call)' BY <1>6, <1>7, <2>3, <3>2 DEF Sound
    <3> QED BY <3>3
  <2>4. CASE call.order # o
    <3>1. HasRun(call.order) BY <2>2 DEF Sound
    <3>2. Sound(call)' BY <1>3, <1>7, <1>8, <2>2, <2>4, <3>1, SoundStays
    <3> QED BY <3>2
  <2> QED BY <2>3, <2>4
<1>17. TerminalInv'
  <2> SUFFICES ASSUME NEW q \in Managed, IsTerminal(q)' PROVE Final(q)' BY DEF TerminalInv
  <2>1. CASE q = o
    <3>1. ProcsOf(o, 1)' = ProcsOf(o, 1) BY <1>1, <1>6 DEF ProcsOf, TheRun
    <3>2. log'[o].terminal = TruthOf(log[o].claimed, TheRun(o).state) BY <1>1, <1>7
    <3>3. ~log[o].claimed => TheRun(o).state = "planning" /\ TheRun(o).recorded = {}
      BY <1>1, <1>2 DEF DispatchInv, ManagedInv
    <3>4. run.state = CASE TruthOf(log[o].claimed, TheRun(o).state) = "COMPLETED"  -> "ready_for_review"
                         [] TruthOf(log[o].claimed, TheRun(o).state) = "FAILED" -> "failed"
                         [] OTHER                      -> "cancelled"
      BY <1>1, <3>3 DEF TruthOf, Ended
    <3>5. TruthOf(log[o].claimed, TheRun(o).state) = "NOT_DISPATCHED" => run.recorded = {}
      BY <1>1, <3>3 DEF TruthOf
    <3>6. \A p \in ProcsOf(o, 1)' : p \notin alive' BY <1>3, <3>1 DEF Over
    <3> QED BY <1>1, <1>3, <1>6, <1>9, <2>1, <3>2, <3>4, <3>5, <3>6 DEF Final
  <2>2. CASE q # o
    <3>1. IsTerminal(q) /\ Final(q) BY <1>7, <2>2 DEF DispatchInv, TerminalInv
    <3>2. HasRun(q)' /\ TheRun(q)' = TheRun(q) /\ ~ActiveRun(q)' /\ log'[q] = log[q]
          /\ authority'[q] \in {"fenced", "cancelled", "gone"}
      BY <1>1, <1>7, <1>8, <1>9, <2>2, <3>1 DEF Final
    <3> QED BY <1>3, <1>9, <3>1, <3>2, FinalStays
  <2> QED BY <2>1, <2>2
<1>18. RecordsAgree'
  <2>1. ASSUME NEW q \in Orders, runs'[q] # <<>> PROVE Agrees(runs'[q][Len(runs'[q])].state, order'[q])
    <3>1. runs[q] # <<>> /\ Len(runs[q]) \in 1..Len(runs[q]) BY <1>2, <1>5, <2>1, Rows
    <3>2. Agrees(runs[q][Len(runs[q])].state, order[q])
      BY <3>1 DEF DispatchInv, RecordsAgree, OrderFollowsRun, Agrees
    <3>3. CASE q = o
      <4>1. runs'[q][Len(runs'[q])] = run /\ runs[q][Len(runs[q])] = TheRun(o)
        BY <1>2, <1>4, <3>3 DEF TheRun
      <4>2. CASE Ended(TheRun(o).state) BY <1>1, <3>2, <3>3, <4>1, <4>2
      <4>3. CASE ~Ended(TheRun(o).state) BY <1>1, <1>2, <3>3, <4>1, <4>3 DEF Agrees
      <4> QED BY <4>2, <4>3
    <3>4. CASE q # o
      <4>1. runs'[q][Len(runs'[q])] = runs[q][Len(runs[q])] BY <1>4, <3>1, <3>4
      <4>2. order'[q] = order[q] BY <1>1, <1>2, <3>4
      <4> QED BY <3>2, <4>1, <4>2
    <3> QED BY <3>3, <3>4
  <2>2. ASSUME NEW q \in Orders, NEW n \in 1..Len(runs[q]), runs'[q][n].result # "none"
        PROVE  runs'[q][n].result = runs'[q][n].state
    <3>1. CASE q = o
      <4>1. n \in 1..1 BY <1>2, <3>1
      <4>2. n = 1 BY <4>1
      <4> QED BY <1>1, <1>4, <2>2, <3>1, <4>2
    <3>2. CASE q # o
      <4>1. runs'[q][n] = runs[q][n] /\ n \in DOMAIN runs[q] BY <1>2, <1>4, <3>2, Rows
      <4> QED BY <2>2, <4>1 DEF DispatchInv, RecordsAgree, ResultTrue
    <3> QED BY <3>1, <3>2
  <2> QED BY <1>5, <2>1, <2>2 DEF RecordsAgree, OrderFollowsRun, ResultTrue, Agrees
<1>19. Attended'
  <2> SUFFICES ASSUME NEW q \in Orders, NEW n \in 1..Len(runs[q]), runs'[q][n].state \in Open
               PROVE  (Busy' /\ Attempt' = <<q, n>>) \/ runs'[q][n].kind = "prepared"
    BY <1>5 DEF Attended
  <2>1. q # o
    <3>1. q = o => n \in 1..1 BY <1>2
    <3>2. \A k \in 1..1 : k = 1 OBVIOUS
    <3> QED BY <1>4, <1>6, <3>1, <3>2 DEF Open, Closed
  <2>2. runs'[q][n] = runs[q][n] /\ n \in DOMAIN runs[q] BY <1>2, <1>4, <2>1, Rows
  <2> QED BY <1>3, <2>2 DEF DispatchInv, Attended, Busy, Attempt
<1> QED BY <1>11, <1>12, <1>13, <1>14, <1>15, <1>16, <1>17, <1>18, <1>19 DEF DispatchInv

AnswersOnce == \E o \in Managed : \E claimed, state :
  Answers(o, claimed, state) /\ ~UNCHANGED <<log, runs, order>>

LEMMA ReadsAnswer ==
  ASSUME DispatchInv, (\E o \in Managed : ReadNow(o)) \/ (\E c \in Readers : ReadDecide(c))
  PROVE  (Rests /\ UNCHANGED log) \/ AnswersOnce
<1>1. ASSUME NEW o \in Managed, ReadNow(o) PROVE Answers(o, log[o].claimed, TheRun(o).state)
  BY <1>1, RipeOver DEF ReadNow, Answers, CallsKept, DispatchInv, DispatchTypeOK
<1>2. ASSUME NEW c \in Readers, ReadDecide(c)
      PROVE  (Rests /\ UNCHANGED log) \/ \E o \in Managed : \E claimed, state : Answers(o, claimed, state)
  <2>1. c \in Callers /\ calls[c] \in Call /\ Sound(calls[c]) /\ calls' = [calls EXCEPT ![c] = NoCall]
    BY <1>2 DEF ReadDecide, Done, Calling, Callers, DispatchInv, DispatchTypeOK, CallInv
  <2> PICK call \in Call : call = calls[c] BY <2>1
  <2>2. call.order \in Managed /\ Sound(call) BY <2>1 DEF Call
  <2>3. CASE call.ripe /\ call.absent /\ ~ActiveRun(call.order)
    <3>1. /\ Terminal(call.order, call.claimed, call.state)
          /\ UNCHANGED <<hold, job, starts, paused, alive, containers, restarts, late>>
      BY <1>2, <2>3 DEF ReadDecide
    <3>2. CallsKept BY <2>1 DEF CallsKept, DispatchInv, DispatchTypeOK
    <3>3. Answers(call.order, call.claimed, call.state) BY <2>2, <2>3, <3>1, <3>2 DEF Answers, Sound
    <3> QED BY <2>2, <3>3
  <2>4. CASE ~(call.ripe /\ call.absent /\ ~ActiveRun(call.order))
    <3>1. UNCHANGED <<jobVars, log, authority, late>> BY <1>2, <2>4 DEF ReadDecide, jobVars
    <3>2. CallsSound BY <2>1, OneCall
    <3>3. OthersTyped BY <3>1, HostSame DEF jobVars, DispatchInv, DispatchTypeOK, JobTypeOK
    <3> QED BY <3>1, <3>2, <3>3, SameParts DEF jobVars, SameJob, Rests
  <2> QED BY <2>3, <2>4
<1>3. ASSUME NEW o \in Managed, NEW claimed, NEW state, Answers(o, claimed, state)
      PROVE  (Rests /\ UNCHANGED log) \/ AnswersOnce
  <2>1. CASE UNCHANGED <<log, runs, order>> BY <1>3, <2>1, AnswersAgain
  <2>2. CASE ~UNCHANGED <<log, runs, order>> BY <1>3, <2>2 DEF AnswersOnce
  <2> QED BY <2>1, <2>2
<1> QED BY <1>1, <1>2, <1>3
-----------------------------------------------------------------------------
(* The job begins, goes on before it has a run, or ends after its run *)

Between == Busy => job.pc \in Starting \cup {"closing"}

Turns ==
  /\ Between /\ UNCHANGED <<runs, alive>> /\ StartsFair /\ CallsKept /\ OthersTyped /\ AuthorityFalls
  /\ \/ job' = NoJob
     \/ /\ job' \in Job /\ job'.n = 0 /\ job'.pc \in Starting /\ (job'.prepare <=> job'.order \in Managed)
        /\ job'.order \in Plain => ~job'.gated /\ job'.step = "first" /\ hold'[job'.order] = NoHold
        /\ Len(runs[job'.order]) < Limit(job'.order)
        /\ job'.order \in Managed => order'[job'.order] # "absent" /\ authority'[job'.order] # "none"
  /\ log' \in [Managed -> Log]
  /\ \A o \in Managed :
       /\ log'[o].claimed = log[o].claimed /\ log'[o].stopped = log[o].stopped
       /\ log'[o].terminal = log[o].terminal
       /\ log'[o].settled => log[o].settled \/ (HasRun(o) /\ log[o].claimed)
  /\ order' \in [Orders -> OrderState]
  /\ \A o \in Orders :
       /\ order'[o] = "absent" => order[o] = "absent"
       /\ order'[o] = order[o] \/ runs[o] = <<>> \/ (order'[o] = "interrupted" /\ Last(o).state = "interrupted")
  /\ hold' \in [Orders -> Hold \cup {NoHold}]
  /\ \A o \in Plain : hold'[o] = hold[o] \/ (hold'[o] = NoHold /\ \A p \in alive : p[1] # o)

LEMMA TurnsKeep ==
  ASSUME DispatchInv, Turns
  PROVE  DispatchInv'
<1>1. /\ runs \in [Orders -> Seq(Run)] /\ \A o \in Managed : o \in Orders
      /\ runs' = runs /\ alive' = alive
  BY DEF DispatchInv, DispatchTypeOK, JobTypeOK, Orders, Turns
<1>2. \A o \in Managed : ~ActiveRun(o)' BY Sentinels DEF Turns, ActiveRun, Busy
<1>3. \A o \in Managed : ActiveRun(o) => job.pc = "closing" BY DEF Turns, Between, ActiveRun, DispatchInv, JobAt
<1>4. ASSUME NEW o \in Managed
      PROVE  HasRun(o)' = HasRun(o) /\ TheRun(o)' = TheRun(o) /\ IsTerminal(o)' = IsTerminal(o)
             /\ Answered(o)' = Answered(o)
  BY <1>1 DEF HasRun, TheRun, IsTerminal, Answered, Turns
<1>5. ~At("agent") BY DEF Turns, Between, At, Starting
<1>6. DispatchTypeOK'
  BY DEF DispatchInv, DispatchTypeOK, JobTypeOK, Turns, StartsFair, CallsKept, OthersTyped, AuthorityFalls
<1>7. JobAt' BY DEF Turns, JobAt, Busy, Starting, Working
<1>8. RunsKept'
  <2>1. ASSUME NEW o \in Orders, JobOn(o)' PROVE Len(runs[o]) < Limit(o) BY <2>1 DEF Turns, JobOn, Busy
  <2>2. \A c \in Starts : starts'[c] # NoCall =>
          starts'[c].order \in Plain /\ (starts'[c].fresh => Len(runs[starts'[c].order]) < 2)
    BY DEF Turns, StartsFair
  <2> QED BY <1>1, <2>1, <2>2 DEF DispatchInv, RunsKept, Limit, Awaiting
<1>9. HoldInv'
  <2>1. ASSUME NEW o \in Plain, hold'[o] # NoHold
        PROVE  runs'[o] # <<>> /\ Last(o)'.state = "interrupted" /\ ~JobOn(o)'
    <3>1. hold'[o] = hold[o] BY <2>1 DEF Turns
    <3>2. runs[o] # <<>> /\ Last(o).state = "interrupted" BY <2>1, <3>1 DEF DispatchInv, HoldInv
    <3>3. ~JobOn(o)' BY <2>1 DEF Turns, JobOn, Busy
    <3> QED BY <1>1, <3>2, <3>3 DEF Last
  <2>2. ASSUME NEW p \in alive', p[1] \in Plain PROVE Held(p)'
    <3>1. Held(p) BY <1>1, <1>5, <2>2 DEF DispatchInv, HoldInv
    <3>2. hold'[p[1]] = hold[p[1]] BY <1>1, <2>2 DEF Turns
    <3> QED BY <3>1, <3>2 DEF Held
  <2>3. ASSUME NEW p \in alive', p[1] \in Managed PROVE p[2] = 1 BY <1>1, <2>3 DEF DispatchInv, HoldInv
  <2> QED BY <2>1, <2>2, <2>3 DEF HoldInv
<1>10. ManagedInv'
  <2> SUFFICES ASSUME NEW o \in Managed
               PROVE  (/\ order[o] = "absent" => runs[o] = <<>> /\ ~JobOn(o)
                       /\ HasRun(o) \/ JobOn(o) => authority[o] # "none"
                       /\ ~HasRun(o) => ~Answered(o) /\ ~log[o].settled
                       /\ HasRun(o) =>
                            /\ TheRun(o).kind = IF log[o].claimed THEN "claimed" ELSE "prepared"
                            /\ ~log[o].claimed => TheRun(o).recorded = {} /\ (TheRun(o).state = "planning" \/ IsTerminal(o))
                            /\ TheRun(o).recovered => log[o].claimed /\ TheRun(o).state \in {"interrupted", "cancelled"}
                            /\ log[o].settled => log[o].claimed /\ ~ActiveRun(o))'
    BY DEF ManagedInv
  <2>1. order'[o] = "absent" => runs'[o] = <<>> /\ ~JobOn(o)'
    BY <1>1 DEF DispatchInv, ManagedInv, Turns, JobOn, Busy
  <2>2. JobOn(o)' => authority'[o] # "none" BY DEF Turns, JobOn, Busy
  <2>3. HasRun(o) => authority'[o] # "none" BY DEF DispatchInv, ManagedInv, Turns, AuthorityFalls
  <2>4. log'[o].claimed = log[o].claimed /\ (log'[o].settled => log[o].settled \/ (HasRun(o) /\ log[o].claimed))
    BY DEF Turns
  <2> QED BY <1>2, <1>4, <2>1, <2>2, <2>3, <2>4 DEF DispatchInv, ManagedInv
<1>11. CallInv'
  <2> SUFFICES ASSUME NEW c \in Callers, calls'[c] # NoCall PROVE Sound(calls[c])'
    BY DEF CallInv
  <2>1. calls'[c] \in Call /\ Sound(calls'[c]) BY DEF Turns, CallsKept, DispatchInv, CallInv
  <2> PICK call \in Call : call = calls'[c] BY <2>1
  <2>2. Sound(call) /\ call.order \in Managed BY <2>1 DEF Call
  <2>3. HasRun(call.order) /\ HasRun(call.order)' BY <1>4, <2>2 DEF Sound
  <2>4. log'[call.order].claimed = log[call.order].claimed /\ log'[call.order].stopped = log[call.order].stopped
    BY <2>2 DEF Turns
  <2>5. Sound(call)' BY <1>1, <1>4, <2>2, <2>3, <2>4, SoundStays
  <2> QED BY <2>5
<1>12. TerminalInv'
  <2> SUFFICES ASSUME NEW o \in Managed, IsTerminal(o)' PROVE Final(o)' BY DEF TerminalInv
  <2>1. IsTerminal(o) /\ Final(o) BY <1>4 DEF DispatchInv, TerminalInv
  <2>2. HasRun(o)' /\ ~ActiveRun(o) /\ authority'[o] \in {"fenced", "cancelled", "gone"}
        /\ log'[o].terminal = log[o].terminal
    BY <1>4, <2>1 DEF Final, Turns, AuthorityFalls
  <2>3. ~ActiveRun(o)' BY <1>2
  <2> QED BY <1>1, <1>4, <2>1, <2>2, <2>3, FinalStays DEF Final
<1>13. RecordsAgree'
  <2>1. ASSUME NEW o \in Orders, runs'[o] # <<>> PROVE Agrees(runs'[o][Len(runs'[o])].state, order'[o])
    <3>1. Agrees(runs[o][Len(runs[o])].state, order[o])
      BY <1>1, <2>1 DEF DispatchInv, RecordsAgree, OrderFollowsRun, Agrees
    <3>2. order'[o] = order[o] \/ (order'[o] = "interrupted" /\ Last(o).state = "interrupted") BY <1>1, <2>1 DEF Turns
    <3> QED BY <1>1, <3>1, <3>2 DEF Last, Agrees
  <2> QED BY <1>1, <2>1 DEF DispatchInv, RecordsAgree, OrderFollowsRun, ResultTrue, Agrees
<1>14. Attended'
  <2> SUFFICES ASSUME NEW o \in Orders, NEW n \in DOMAIN runs[o], runs[o][n].state \in Open
               PROVE  runs[o][n].kind = "prepared"
    BY <1>1 DEF Attended
  <2>1. CASE Busy /\ Attempt = <<o, n>>
    <3>1. job.order = o /\ job.n = n /\ n > 0 BY <1>1, <2>1, Rows DEF Attempt
    <3>2. job.pc = "closing" BY <2>1, <3>1 DEF Turns, Between, DispatchInv, JobAt, Starting
    <3>3. ThisRun.state \in Closed BY <2>1, <3>2 DEF DispatchInv, JobAt
    <3> QED BY <3>1, <3>3 DEF ThisRun, Open, Closed
  <2>2. CASE ~(Busy /\ Attempt = <<o, n>>) BY <2>2 DEF DispatchInv, Attended
  <2> QED BY <2>1, <2>2
<1> QED BY <1>6, <1>7, <1>8, <1>9, <1>10, <1>11, <1>12, <1>13, <1>14 DEF DispatchInv

\* What a turn of the job leaves alone.
LEMMA TurnParts ==
  ASSUME DispatchInv
  PROVE  /\ calls' = calls => CallsKept
         /\ UNCHANGED <<paused, alive, containers, restarts, late>> => OthersTyped
         /\ order' = order => order' \in [Orders -> OrderState]
         /\ hold' = hold => hold' \in [Orders -> Hold \cup {NoHold}]
         /\ log' = log => log' \in [Managed -> Log]
         /\ order \in [Orders -> OrderState] /\ hold \in [Orders -> Hold \cup {NoHold}] /\ log \in [Managed -> Log]
         /\ authority \in [Managed -> Authority] /\ \A o \in Managed : o \in Orders
  BY DEF DispatchInv, DispatchTypeOK, JobTypeOK, CallsKept, OthersTyped, Orders

LEMMA StartingTurns ==
  ASSUME DispatchInv, Resolve \/ StartFails, UNCHANGED <<log, authority, late, calls>>
  PROVE  Turns
<1>1. /\ UNCHANGED <<runs, order, hold, starts, paused, alive, containers, restarts>>
      /\ Busy /\ job.pc \in Starting
  BY DEF Resolve, StartFails, dbVars, At, Starting
<1>2. /\ job \in Job /\ job.order \in Orders /\ job.n = 0 /\ (job.prepare <=> job.order \in Managed)
      /\ Len(runs[job.order]) < Limit(job.order)
  BY <1>1 DEF DispatchInv, DispatchTypeOK, JobTypeOK, JobAt, Busy, Job, RunsKept, JobOn
<1>3. job.order \in Plain => ~job.gated /\ job.step = "first" /\ hold[job.order] = NoHold
  BY <1>1 DEF DispatchInv, JobAt, HoldInv, JobOn
<1>4. job.order \in Managed => order[job.order] # "absent" /\ authority[job.order] # "none"
  BY <1>1 DEF DispatchInv, ManagedInv, JobOn
<1>5. CASE Resolve
  <2>1. job' = [job EXCEPT !.pc = "register"] BY <1>5 DEF Resolve, Goto
  <2>2. /\ job' \in Job /\ job'.n = 0 /\ job'.pc = "register" /\ job'.prepare = job.prepare
        /\ job'.order = job.order /\ job'.gated = job.gated /\ job'.step = job.step
    BY <1>2, <2>1 DEF Job, Pcs
  <2>3. "register" \in Starting BY DEF Starting
  <2> QED BY <1>1, <1>2, <1>3, <1>4, <2>2, <2>3, SameParts, TurnParts DEF Turns, Between
<1>6. CASE StartFails
  <2>1. job' = NoJob BY <1>6 DEF StartFails
  <2> QED BY <1>1, <2>1, SameParts, TurnParts DEF Turns, Between
<1> QED BY <1>5, <1>6

LEMMA SettleTurns ==
  ASSUME DispatchInv, Settle
  PROVE  Turns
<1>1. /\ UNCHANGED <<runs, order, starts, paused, alive, containers, restarts, late, calls>>
      /\ Busy /\ job.pc = "closing" /\ job' = NoJob
  BY DEF Settle, At
<1>2. job.order \in Orders BY <1>1 DEF DispatchInv, DispatchTypeOK, JobTypeOK, Busy, Job
<1>3. job.order \in Managed BY <1>1, <1>2 DEF DispatchInv, JobAt, Orders
<1>4. AuthorityFalls BY <1>3, FenceFalls, SameParts DEF Settle, FenceFails
<1>a. hold' \in [Orders -> Hold \cup {NoHold}] /\ \A o \in Plain : hold'[o] = hold[o]
  <2>1. hold \in [Orders -> Hold \cup {NoHold}] BY DEF DispatchInv, DispatchTypeOK, JobTypeOK
  <2>2. \E h \in Hold : hold' = hold \/ hold' = [hold EXCEPT ![job.order] = h]
    <3>1. [clearable |-> FALSE, pids |-> {}] \in Hold BY DEF Hold
    <3> QED BY <3>1 DEF Settle, FenceFails
  <2>3. \A o \in Plain : o \in Orders /\ o # job.order BY <1>3, OrdersDisjoint DEF Orders
  <2> QED BY <1>2, <2>1, <2>2, <2>3
<1> DEFINE row == [log[job.order] EXCEPT !.settled = TRUE]
<1>5. HasRun(job.order) /\ log[job.order].claimed
  <2>1. job.n = Len(runs[job.order]) /\ job.n > 0 /\ ThisRun.kind = "claimed"
    BY <1>1, <1>3 DEF DispatchInv, JobAt, Starting
  <2>2. job.n = 1 /\ HasRun(job.order) BY <1>3, <2>1, ManagedOnce, Rows DEF HasRun, DispatchInv, DispatchTypeOK, JobTypeOK
  <2>3. TheRun(job.order).kind = "claimed" BY <2>1, <2>2 DEF TheRun, ThisRun
  <2> QED BY <1>3, <2>2, <2>3 DEF DispatchInv, ManagedInv
<1>6. /\ row \in Log /\ row.claimed = log[job.order].claimed /\ row.stopped = log[job.order].stopped
      /\ row.terminal = log[job.order].terminal
  <2>1. log[job.order] \in Log BY <1>3, TurnParts
  <2> QED BY <2>1 DEF Log
<1>7. log' = [log EXCEPT ![job.order] = row] BY <1>3, TurnParts DEF Settle
<1> HIDE DEF row
<1>8. /\ log' \in [Managed -> Log]
      /\ \A o \in Managed : /\ log'[o].claimed = log[o].claimed /\ log'[o].stopped = log[o].stopped
                            /\ log'[o].terminal = log[o].terminal
                            /\ log'[o].settled => log[o].settled \/ (HasRun(o) /\ log[o].claimed)
  BY <1>3, <1>5, <1>6, <1>7, TurnParts
<1> QED BY <1>1, <1>4, <1>a, <1>8, SameParts, TurnParts DEF Turns, Between

LEMMA NewJobTyped ==
  ASSUME DispatchInv, NEW o \in Orders, NEW prepare \in BOOLEAN
  PROVE  /\ NewJob(o, 0, prepare, FALSE, "resolve") \in Job
         /\ LET new == NewJob(o, 0, prepare, FALSE, "resolve")
            IN new.order = o /\ new.n = 0 /\ new.prepare = prepare /\ ~new.gated /\ new.pc = "resolve" /\ new.step = "first"
BY Bounds DEF NewJob, Job, Pcs

LEMMA StartTurns ==
  ASSUME DispatchInv, NEW c \in Starts, StartConfirmed(c), UNCHANGED <<log, authority, late, calls>>
  PROVE  Turns
<1>1. PICK o \in Plain : o = starts[c].order BY DEF StartConfirmed
<1>2. /\ ~Busy /\ Clearable(o) /\ job' = NewJob(o, 0, FALSE, FALSE, "resolve")
      /\ hold' = [hold EXCEPT ![o] = NoHold]
      /\ order' = (IF hold[o] = NoHold THEN order ELSE [order EXCEPT ![o] = "interrupted"])
      /\ UNCHANGED <<runs, paused, alive, containers, restarts>>
  BY <1>1 DEF StartConfirmed, Initialize
<1>3. /\ o \in Orders /\ o \notin Managed /\ starts \in [Starts -> [order : Orders, fresh : BOOLEAN] \cup {NoCall}]
  BY OrdersDisjoint DEF Orders, DispatchInv, DispatchTypeOK, JobTypeOK
<1>4. Len(runs[o]) < 2 BY <1>1 DEF StartConfirmed, DispatchInv, RunsKept
<1>5. StartsFair
  <2>1. \A d \in Starts : starts'[d] = IF d = c THEN NoCall
                          ELSE IF hold[o] = NoHold THEN starts[d] ELSE Outdated(o)[d]
    BY <1>1 DEF StartConfirmed
  <2>2. starts' \in [Starts -> [order : Orders, fresh : BOOLEAN] \cup {NoCall}]
    BY <1>1, <1>3 DEF StartConfirmed, Outdated, Awaiting
  <2>3. ASSUME NEW d \in Starts, starts'[d] # NoCall
        PROVE  starts[d] # NoCall /\ starts'[d].order = starts[d].order /\ (starts'[d].fresh => starts[d].fresh)
    <3>1. starts'[d] = starts[d] \/ starts'[d] = Outdated(o)[d] BY <2>1, <2>3
    <3>2. Outdated(o)[d] = starts[d] \/ (starts[d] # NoCall /\ Outdated(o)[d] = [starts[d] EXCEPT !.fresh = FALSE])
      BY DEF Outdated, Awaiting
    <3> QED BY <1>3, <2>3, <3>1, <3>2
  <2> QED BY <2>2, <2>3 DEF StartsFair, DispatchInv, RunsKept, Awaiting
<1>6. /\ job' \in Job /\ job'.order = o /\ job'.n = 0 /\ ~job'.prepare /\ ~job'.gated /\ job'.pc = "resolve"
      /\ job'.step = "first"
  BY <1>2, <1>3, NewJobTyped
<1>7. /\ hold' \in [Orders -> Hold \cup {NoHold}] /\ hold'[o] = NoHold /\ \A q \in Plain : q # o => hold'[q] = hold[q]
  BY <1>2, <1>3, TurnParts DEF Orders
<1>8. ASSUME NEW p \in alive, p[1] = o PROVE FALSE
  <2>1. Held(p) BY <1>1, <1>2, <1>8 DEF DispatchInv, HoldInv, At
  <2> QED BY <1>2, <1>8, <2>1 DEF Held, Clearable
<1>9. /\ order' \in [Orders -> OrderState]
      /\ \A q \in Orders : order'[q] = order[q] \/ (q = o /\ order'[q] = "interrupted" /\ hold[o] # NoHold)
  <2>1. "interrupted" \in OrderState BY DEF OrderState, Closed
  <2> QED BY <1>2, <1>3, <2>1, TurnParts
<1>10. hold[o] # NoHold => Last(o).state = "interrupted" BY DEF DispatchInv, HoldInv
<1>11. "resolve" \in Starting /\ Limit(o) = 2 BY <1>3 DEF Starting, Limit
<1>12. Len(runs[job'.order]) < Limit(job'.order) BY <1>4, <1>6, <1>11
<1>13. \A q \in Orders : order'[q] = "absent" => order[q] = "absent" BY <1>9
<1>14. \A q \in Plain : hold'[q] = hold[q] \/ (hold'[q] = NoHold /\ \A p \in alive : p[1] # q) BY <1>7, <1>8
<1> QED BY <1>2, <1>3, <1>5, <1>6, <1>7, <1>9, <1>10, <1>11, <1>12, <1>13, <1>14, SameParts, TurnParts DEF Turns, Between

LEMMA PrepareTurns ==
  ASSUME DispatchInv, NEW o \in Managed, Prepare(o)
  PROVE  Turns \/ Rests
<1>1. /\ order[o] = "absent" /\ order' = [order EXCEPT ![o] = "queued"]
      /\ UNCHANGED <<runs, hold, starts, paused, alive, containers, restarts, log, late, calls>>
  BY DEF Prepare
<1>2. o \in Orders /\ runs[o] = <<>> /\ "queued" \in OrderState BY <1>1 DEF DispatchInv, ManagedInv, Orders, OrderState
<1>3. /\ order' \in [Orders -> OrderState] /\ order'[o] = "queued" /\ \A q \in Orders : q # o => order'[q] = order[q]
  BY <1>1, <1>2, TurnParts
<1>4. CASE UNCHANGED <<authority, job>>
  BY <1>1, <1>2, <1>3, <1>4, SameParts, TurnParts DEF Rests, OrdersStay, SameJob
<1>5. CASE /\ authority' = [authority EXCEPT ![o] = "prepared"]
           /\ job' = IF Busy THEN job ELSE NewJob(o, 0, TRUE, FALSE, "resolve")
  <2>1. AuthorityFalls /\ authority'[o] = "prepared"
    <3>1. ~IsTerminal(o) BY <1>2 DEF DispatchInv, ManagedInv, Answered, HasRun, IsTerminal
    <3> QED BY <1>5, <3>1, TurnParts DEF AuthorityFalls, Authority
  <2>2. CASE Busy BY <1>1, <1>2, <1>3, <1>5, <2>1, <2>2, SameParts, TurnParts DEF Rests, OrdersStay, SameJob
  <2>3. CASE ~Busy
    <3>1. /\ job' \in Job /\ job'.order = o /\ job'.n = 0 /\ job'.prepare /\ job'.pc = "resolve"
      BY <1>2, <1>5, <2>3, NewJobTyped
    <3>2. "resolve" \in Starting /\ Limit(o) = 1 /\ Len(runs[o]) = 0 /\ 0 < 1 BY <1>2 DEF Starting, Limit
    <3>3. o \notin Plain BY OrdersDisjoint
    <3>4. Len(runs[job'.order]) < Limit(job'.order) BY <3>1, <3>2
    <3> QED BY <1>1, <1>2, <1>3, <2>1, <2>3, <3>1, <3>2, <3>3, <3>4, SameParts, TurnParts DEF Turns, Between
  <2> QED BY <2>2, <2>3
<1> QED BY <1>4, <1>5 DEF Prepare
-----------------------------------------------------------------------------
(* The supervisor dies and starts again *)

LEMMA RestartTurns ==
  ASSUME DispatchInv, RestartSupervisor, ~(Busy /\ job.pc \in Working)
  PROVE  Turns
<1>1. Between BY DEF Between, Working, Starting, DispatchInv, DispatchTypeOK, JobTypeOK, Busy, Job
<1>2. runs \in [Orders -> Seq(Run)] /\ order \in [Orders -> OrderState] /\ hold \in [Orders -> Hold \cup {NoHold}]
  BY DEF DispatchInv, DispatchTypeOK, JobTypeOK
<1>3. ASSUME NEW o \in Orders, NEW n \in DOMAIN runs[o] PROVE ~NeedsRecovery(runs[o][n])
  <2>1. CASE Busy /\ Attempt = <<o, n>>
    <3>1. job.order = o /\ job.n = n /\ n > 0 BY <1>2, <2>1, Rows DEF Attempt
    <3>2. job.pc = "closing" BY <1>1, <2>1, <3>1 DEF Between, DispatchInv, JobAt, Starting
    <3>3. ThisRun.state \in Closed BY <2>1, <3>2 DEF DispatchInv, JobAt
    <3> QED BY <3>1, <3>3 DEF ThisRun, Open, Closed, NeedsRecovery
  <2>2. CASE ~(Busy /\ Attempt = <<o, n>>) BY <2>2 DEF DispatchInv, Attended, NeedsRecovery
  <2> QED BY <2>1, <2>2
<1>4. runs' = runs /\ order' = order /\ hold' = hold
  <2>1. \A o \in Orders : {n \in DOMAIN runs[o] : NeedsRecovery(runs[o][n])} = {} BY <1>3
  <2>2. RecoverInterrupted BY DEF RestartSupervisor, Restart
  <2>3. order' = [o \in Orders |-> order[o]] BY <2>1, <2>2 DEF RecoverInterrupted
  <2>4. hold' = [o \in Orders |-> hold[o]] BY <2>1, <2>2 DEF RecoverInterrupted
  <2>5. runs' = [o \in Orders |-> [n \in DOMAIN runs[o] |-> runs[o][n]]] BY <2>1, <2>2 DEF RecoverInterrupted
  <2>6. \A o \in Orders : [n \in DOMAIN runs[o] |-> runs[o][n]] = runs[o] BY <1>2
  <2>7. runs' = [o \in Orders |-> runs[o]] BY <2>5, <2>6
  <2> QED BY <1>2, <2>3, <2>4, <2>7
<1>5. alive' = alive
  <2>1. ~At("spawn") /\ ~At("open") BY DEF At, Working, Pcs
  <2>2. Unrecorded = {{}} BY <2>1 DEF Unrecorded
  <2> QED BY <2>2 DEF RestartSupervisor, Restart
<1>6. OthersTyped
  BY <1>5, Bounds DEF OthersTyped, RestartSupervisor, Restart, DispatchInv, DispatchTypeOK, JobTypeOK
<1>7. StartsFair /\ CallsKept /\ job' = NoJob /\ UNCHANGED <<log, authority>>
  BY DEF StartsFair, CallsKept, RestartSupervisor, Restart
<1> QED BY <1>1, <1>4, <1>5, <1>6, <1>7, SameParts, TurnParts DEF Turns

\* The run the job was at is the only one that a restart finds open.
LEMMA RestartFinds ==
  ASSUME DispatchInv, Busy, job.pc \in Working
  PROVE  \A o \in Orders : {n \in DOMAIN runs[o] : NeedsRecovery(runs[o][n])} = IF o = job.order THEN {job.n} ELSE {}
<1>1. /\ job.order \in Orders /\ job.n \in DOMAIN runs[job.order] /\ NeedsRecovery(ThisRun)
  BY JobWorks, Rows DEF NeedsRecovery
<1>2. ASSUME NEW o \in Orders, NEW n \in DOMAIN runs[o], NeedsRecovery(runs[o][n]) PROVE o = job.order /\ n = job.n
  BY <1>2 DEF DispatchInv, Attended, NeedsRecovery, Attempt
<1> QED BY <1>1, <1>2 DEF ThisRun

LEMMA RestartWrites ==
  ASSUME DispatchInv, RestartSupervisor, Busy, job.pc \in Working
  PROVE  /\ \E run \in Run, orderState \in {"interrupted", "awaiting_environment"} :
              run.state = "interrupted" /\ Writes(run, orderState)
         /\ job' = NoJob
         /\ \A o \in Orders : o # job.order => hold'[o] = hold[o]
         /\ hold'[job.order] = IF WorkerGone(job.order, job.n) THEN hold[job.order]
                               ELSE [clearable |-> ThisRun.state = "implementing", pids |-> ProcsOf(job.order, job.n)]
<1> DEFINE o == job.order
           n == job.n
           orderState == IF WorkerGone(o, n) THEN "interrupted" ELSE "awaiting_environment"
           run == [ThisRun EXCEPT !.state = "interrupted", !.recovered = TRUE]
           kept == IF WorkerGone(o, n) THEN hold[o]
                   ELSE [clearable |-> ThisRun.state = "implementing", pids |-> ProcsOf(o, n)]
           open(q) == {m \in DOMAIN runs[q] : NeedsRecovery(runs[q][m])}
<1>1. /\ o \in Orders /\ runs \in [Orders -> Seq(Run)] /\ order \in [Orders -> OrderState]
      /\ n \in 1..Len(runs[o]) /\ ThisRun \in Run /\ ThisRun.result = "none"
      /\ hold \in [Orders -> Hold \cup {NoHold}]
  BY JobWorks DEF DispatchInv, DispatchTypeOK, JobTypeOK
<1>2. \A q \in Orders : open(q) = IF q = o THEN {n} ELSE {} BY RestartFinds
<1>3. /\ runs' = [q \in Orders |-> [m \in DOMAIN runs[q] |->
            IF m \in open(q) THEN [runs[q][m] EXCEPT !.state = "interrupted", !.recovered = TRUE]
            ELSE runs[q][m]]]
      /\ order' = [q \in Orders |-> IF open(q) = {} THEN order[q]
                       ELSE IF \A m \in open(q) : WorkerGone(q, m) THEN "interrupted" ELSE "awaiting_environment"]
      /\ hold' = [q \in Orders |-> IF open(q) = {} \/ (\A m \in open(q) : WorkerGone(q, m)) THEN hold[q]
            ELSE [clearable |-> \A m \in open(q) : runs[q][m].state = "implementing",
                  pids |-> UNION {ProcsOf(q, m) : m \in open(q)}]]
  BY DEF RestartSupervisor, Restart, RecoverInterrupted
<1>4. /\ run \in Run /\ run.state = "interrupted" /\ run.kind = ThisRun.kind /\ run.result = "none"
  BY <1>1 DEF Run, Closed
<1>5. Wrote(o, n, run)
  <2> HIDE DEF open
  <2>1. ASSUME NEW q \in Orders
        PROVE  /\ runs'[q] = [m \in DOMAIN runs[q] |->
                     IF m \in open(q) THEN [runs[q][m] EXCEPT !.state = "interrupted", !.recovered = TRUE]
                     ELSE runs[q][m]]
    BY <1>3
  <2>2. ASSUME NEW q \in Orders, q # o PROVE runs'[q] = runs[q]
    <3>1. \A m \in DOMAIN runs[q] : m \notin open(q) BY <1>2, <2>2
    <3>2. runs'[q] = [m \in DOMAIN runs[q] |-> runs[q][m]] BY <2>1, <3>1
    <3> QED BY <1>1, <3>2
  <2>3. runs'[o] = [m \in DOMAIN runs[o] |-> IF m = n THEN run ELSE runs[o][m]]
    <3> DEFINE made(m) == IF m \in open(o) THEN [runs[o][m] EXCEPT !.state = "interrupted", !.recovered = TRUE]
                          ELSE runs[o][m]
    <3>1. runs'[o] = [m \in DOMAIN runs[o] |-> made(m)] BY <1>1, <2>1
    <3>2. \A m \in DOMAIN runs[o] : m \in open(o) <=> m = n BY <1>1, <1>2
    <3>3. \A m \in DOMAIN runs[o] : made(m) = IF m = n THEN run ELSE runs[o][m] BY <3>2 DEF ThisRun
    <3> HIDE DEF made, run
    <3> QED BY <3>1, <3>3
  <2>4. runs'[o] = [runs[o] EXCEPT ![n] = run] BY <1>1, <2>3
  <2>5. runs' = [runs EXCEPT ![o][n] = run]
    <3> DEFINE row == [runs[o] EXCEPT ![n] = run]
    <3>1. runs' = [q \in Orders |-> runs'[q]] BY <1>3
    <3>2. runs' = [runs EXCEPT ![o] = row] BY <1>1, <2>2, <2>4, <3>1
    <3> QED BY <3>2
  <2> HIDE DEF run
  <2> QED BY <1>1, <1>4, <2>5, RunWritten
<1>6. order' = [order EXCEPT ![o] = orderState]
  <2>1. \A q \in Orders : order'[q] = IF q = o THEN orderState ELSE order[q] BY <1>2, <1>3
  <2>2. order' = [q \in Orders |-> order'[q]] BY <1>3
  <2> HIDE DEF orderState
  <2> QED BY <1>1, <2>1, <2>2
<1>7. hold' \in [Orders -> Hold \cup {NoHold}] /\ hold'[o] = kept /\ \A q \in Orders : q # o => hold'[q] = hold[q]
  <2>1. ASSUME NEW q \in Orders, q # o PROVE hold'[q] = hold[q] BY <1>2, <1>3, <2>1
  <2>2. hold'[o] = kept
    <3>1. UNION {ProcsOf(o, m) : m \in {n}} = ProcsOf(o, n) OBVIOUS
    <3>2. (\A m \in {n} : WorkerGone(o, m)) <=> WorkerGone(o, n) OBVIOUS
    <3>3. (\A m \in {n} : runs[o][m].state = "implementing") = (ThisRun.state = "implementing")
      BY DEF ThisRun
    <3>4. open(o) = {n} BY <1>1, <1>2
    <3> HIDE DEF open
    <3> QED BY <1>1, <1>3, <3>1, <3>2, <3>3, <3>4
  <2>3. kept \in Hold \cup {NoHold}
    <3>1. ProcsOf(o, n) \in SUBSET Process
      <4>1. ThisRun.recorded \subseteq Steps BY <1>1 DEF Run
      <4>2. \A s \in Steps : Agent(s) \in Process BY HereTyped
      <4> QED BY <4>1, <4>2 DEF ProcsOf, ThisRun, Agent
    <3> QED BY <1>1, <3>1 DEF Hold
  <2>4. hold' = [q \in Orders |-> hold'[q]] BY <1>3
  <2> HIDE DEF kept
  <2> QED BY <1>1, <2>1, <2>2, <2>3, <2>4
<1>8. job' = NoJob /\ StartsKept /\ CallsKept /\ UNCHANGED <<log, authority>>
  BY DEF RestartSupervisor, Restart, StartsKept, CallsKept
<1>9. \A p \in alive' : p \in alive \/ \E s \in Steps : p = Agent(s)
  <2>1. job.step \in Steps /\ "completion" \in Steps BY JobWorks DEF Job, Steps
  <2> QED BY <2>1 DEF RestartSupervisor, Restart, Unrecorded
<1>10. OthersTyped
  <2>1. alive' \subseteq Process BY <1>9, HereTyped
  <2> QED BY <2>1, Bounds DEF OthersTyped, RestartSupervisor, Restart, DispatchInv, DispatchTypeOK, JobTypeOK
<1>11. orderState \in OrderState \ {"absent"} /\ Agrees("interrupted", orderState)
       /\ orderState \in {"interrupted", "awaiting_environment"}
  BY DEF OrderState, Closed, Agrees
<1>12. "interrupted" \in Closed /\ run.result \in {"none", run.state} BY <1>4 DEF Closed
<1> HIDE DEF run, orderState, kept
<1>13. Writes(run, orderState)
  BY <1>4, <1>5, <1>6, <1>7, <1>8, <1>9, <1>10, <1>11, <1>12 DEF Writes
<1> QED BY <1>4, <1>7, <1>8, <1>11, <1>13 DEF kept

LEMMA RestartKeeps ==
  ASSUME DispatchInv, RestartSupervisor
  PROVE  DispatchInv'
<1>1. CASE ~(Busy /\ job.pc \in Working) BY <1>1, RestartTurns, TurnsKeep
<1>2. CASE Busy /\ job.pc \in Working
  <2>1. PICK run \in Run, orderState \in {"interrupted", "awaiting_environment"} :
             run.state = "interrupted" /\ Writes(run, orderState)
    BY <1>2, RestartWrites
  <2>2. /\ job' = NoJob
        /\ \A o \in Orders : o # job.order => hold'[o] = hold[o]
        /\ hold'[job.order] = IF WorkerGone(job.order, job.n) THEN hold[job.order]
                              ELSE [clearable |-> ThisRun.state = "implementing", pids |-> ProcsOf(job.order, job.n)]
    BY <1>2, RestartWrites
  <2>3. /\ job.order \in Orders /\ runs \in [Orders -> Seq(Run)]
        /\ job.n = Len(runs[job.order]) /\ job.n \in 1..Len(runs[job.order])
    BY <1>2, JobWorks
  <2>4. JobAt' BY <2>2 DEF JobAt, Busy
  <2>5. ASSUME NEW o \in Plain, hold'[o] # NoHold
        PROVE  runs'[o] # <<>> /\ Last(o)'.state = "interrupted" /\ ~JobOn(o)'
    <3>1. ~JobOn(o)' /\ o \in Orders BY <2>2 DEF JobOn, Busy, Orders
    <3>2. CASE o = job.order
      <4>1. Last(o)' = run /\ runs'[o] # <<>> BY <2>1, <2>3, <3>2, WritesRows, Rows DEF Last
      <4> QED BY <2>1, <3>1, <4>1
    <3>3. CASE o # job.order
      <4>1. runs[o] # <<>> /\ Last(o).state = "interrupted" BY <2>2, <2>5, <3>1, <3>3 DEF DispatchInv, HoldInv
      <4>2. Len(runs[o]) \in 1..Len(runs[o]) BY <2>3, <3>1, <4>1, Rows
      <4>3. Last(o)' = Last(o) /\ runs'[o] # <<>> BY <2>1, <3>1, <3>3, <4>1, <4>2, WritesRows DEF Last
      <4> QED BY <3>1, <4>1, <4>3
    <3> QED BY <3>2, <3>3
  <2>6. ASSUME NEW p \in alive', p[1] \in Plain PROVE Held(p)'
    <3>1. p[1] \in Orders BY <2>6 DEF Orders
    <3>2. CASE p[1] # job.order
      <4>1. p \in alive BY <2>1, <2>6, <3>2 DEF Writes, Agent
      <4>2. Held(p) BY <2>6, <3>2, <4>1 DEF DispatchInv, HoldInv, Agent
      <4> QED BY <2>2, <3>1, <3>2, <4>2 DEF Held
    <3>3. CASE p[1] = job.order
      <4>1. job.order \in Plain /\ hold[job.order] = NoHold /\ job.step = "first" /\ ~At("open")
        BY <1>2, <2>6, <3>3 DEF DispatchInv, HoldInv, JobAt, JobOn, At
      <4>2. p = Agent("first") /\ ((At("agent") /\ p \in alive) \/ At("spawn"))
        <5>1. CASE p \in alive
          <6>1. ~Held(p) BY <3>3, <4>1 DEF Held
          <6> QED BY <2>6, <5>1, <6>1 DEF DispatchInv, HoldInv
        <5>2. CASE p \notin alive
          <6>1. PICK spawned \in Unrecorded : alive' = alive \cup spawned BY DEF RestartSupervisor, Restart
          <6>2. p \in spawned BY <2>6, <5>2, <6>1
          <6>3. At("spawn") /\ p = Agent("first") BY <4>1, <6>1, <6>2 DEF Unrecorded
          <6> QED BY <6>3
        <5> QED BY <5>1, <5>2
      <4>3. CASE At("spawn")
        <5>1. ThisRun.recorded = {} BY <4>1, <4>3 DEF At, DispatchInv, JobAt
        <5>2. ~WorkerGone(job.order, job.n) /\ ProcsOf(job.order, job.n) = {}
          BY <5>1 DEF WorkerGone, ProcsOf, ThisRun
        <5>3. hold'[p[1]] = [clearable |-> ThisRun.state = "implementing", pids |-> {}] BY <2>2, <3>3, <5>2
        <5>4. [clearable |-> ThisRun.state = "implementing", pids |-> {}] \in Hold BY DEF Hold
        <5> QED BY <5>3, <5>4, Sentinels DEF Held
      <4>4. CASE At("agent") /\ p \in alive
        <5>1. ThisRun.recorded = {"first"} BY <4>1, <4>4 DEF At, DispatchInv, JobAt
        <5>2. p \in ProcsOf(job.order, job.n) BY <4>2, <5>1 DEF ProcsOf, ThisRun, Agent
        <5>3. ~WorkerGone(job.order, job.n) BY <4>4, <5>2 DEF WorkerGone
        <5>4. hold'[p[1]] = [clearable |-> ThisRun.state = "implementing", pids |-> ProcsOf(job.order, job.n)]
          BY <2>2, <3>3, <5>3
        <5>5. hold'[p[1]] \in Hold \cup {NoHold} BY <2>1, <3>1 DEF Writes
        <5>6. hold'[p[1]] # NoHold
          <6>1. ProcsOf(job.order, job.n) \in SUBSET Process
            <7>1. \A s \in Steps : Agent(s) \in Process BY <1>2, HereTyped
            <7> QED BY <5>1, <7>1 DEF ProcsOf, ThisRun, Agent, Steps
          <6>2. [clearable |-> ThisRun.state = "implementing", pids |-> ProcsOf(job.order, job.n)] \in Hold
            BY <6>1 DEF Hold
          <6> QED BY <5>4, <6>2, Sentinels
        <5> QED BY <5>2, <5>4, <5>6 DEF Held
      <4> QED BY <4>2, <4>3, <4>4
    <3> QED BY <3>2, <3>3
  <2>7. ASSUME NEW p \in alive', p[1] \in Managed PROVE p[2] = 1 BY <2>1, <2>7, WritesOnce
  <2>8. HoldInv' BY <2>5, <2>6, <2>7 DEF HoldInv
  <2> QED BY <2>1, <2>4, <2>8, WritesTypes, WritesManaged, WritesReads, WritesRecords DEF DispatchInv
<1> QED BY <1>1, <1>2
-----------------------------------------------------------------------------
(* A run is registered, and a prepared one is claimed *)

LEMMA Appended ==
  ASSUME runs \in [Orders -> Seq(Run)], NEW o \in Orders, NEW run \in Run,
         runs' = [runs EXCEPT ![o] = Append(@, run)]
  PROVE  /\ runs' \in [Orders -> Seq(Run)]
         /\ \A q \in Orders : q # o => runs'[q] = runs[q]
         /\ Len(runs'[o]) = Len(runs[o]) + 1 /\ DOMAIN runs'[o] = 1..(Len(runs[o]) + 1)
         /\ \A n \in 1..Len(runs[o]) : runs'[o][n] = runs[o][n]
         /\ runs'[o][Len(runs[o]) + 1] = run
<1> DEFINE row == Append(runs[o], run)
<1>1. /\ row \in Seq(Run) /\ Len(row) = Len(runs[o]) + 1 /\ DOMAIN row = 1..(Len(runs[o]) + 1)
      /\ \A n \in 1..Len(runs[o]) : row[n] = runs[o][n]
      /\ row[Len(runs[o]) + 1] = run
  OBVIOUS
<1>2. runs' = [runs EXCEPT ![o] = row] OBVIOUS
<1> HIDE DEF row
<1> QED BY <1>1, <1>2

LEMMA RegisterKeeps ==
  ASSUME DispatchInv, Register, UNCHANGED <<log, authority, late, calls>>
  PROVE  DispatchInv'
<1> DEFINE new == [state |-> "planning", kind |-> IF job.prepare THEN "prepared" ELSE "started",
                   recorded |-> {}, verifier |-> FALSE, recovered |-> FALSE, result |-> "none"]
<1> PICK o \in Orders : o = job.order
  BY DEF Register, At, Busy, DispatchInv, DispatchTypeOK, JobTypeOK, Job
<1>1. /\ Busy /\ job \in Job /\ job.pc = "register" /\ JobOn(o) /\ job.n = 0 /\ (job.prepare <=> o \in Managed)
      /\ runs \in [Orders -> Seq(Run)] /\ order \in [Orders -> OrderState]
      /\ Len(runs[o]) \in Nat /\ Len(runs[o]) < Limit(o) /\ Len(runs[o]) < MaxAttempts
      /\ \A q \in Managed : q \in Orders
  BY Rows DEF Register, At, Busy, DispatchInv, DispatchTypeOK, JobTypeOK, JobAt, Starting, RunsKept, JobOn, Orders
<1>2. /\ new \in Run /\ new.state = "planning" /\ new.recorded = {} /\ ~new.recovered /\ new.result = "none"
      /\ new.kind = IF o \in Managed THEN "prepared" ELSE "started"
  BY <1>1 DEF Run, Open
<1>3. /\ runs' = [runs EXCEPT ![o] = Append(@, new)]
      /\ order' = [order EXCEPT ![o] = "planning"] /\ starts' = Outdated(o)
      /\ job' = IF o \in Managed THEN NoJob ELSE [job EXCEPT !.pc = "begin", !.n = Len(runs[o]) + 1]
      /\ UNCHANGED <<hold, paused, alive, containers, restarts, late, log, authority, calls>>
  BY <1>1 DEF Register
<1> HIDE DEF new
<1>4. /\ runs' \in [Orders -> Seq(Run)]
      /\ \A q \in Orders : q # o => runs'[q] = runs[q]
      /\ Len(runs'[o]) = Len(runs[o]) + 1 /\ DOMAIN runs'[o] = 1..(Len(runs[o]) + 1)
      /\ \A n \in 1..Len(runs[o]) : runs'[o][n] = runs[o][n]
      /\ runs'[o][Len(runs[o]) + 1] = new
  BY <1>1, <1>2, <1>3, Appended
<1>5. Len(runs[o]) + 1 \in 0..MaxAttempts /\ Len(runs[o]) + 1 > 0 /\ Len(runs[o]) + 1 # 0
      /\ Len(runs[o]) + 1 <= Limit(o) /\ Len(runs[o]) + 1 <= MaxAttempts
  <2>1. ASSUME NEW k \in Nat, NEW m \in Nat, k < m PROVE k + 1 <= m /\ k + 1 \in 0..m /\ k + 1 > 0 /\ k + 1 # 0
    BY <2>1
  <2>2. Limit(o) \in Nat /\ MaxAttempts \in Nat BY Bounds DEF Limit
  <2> QED BY <1>1, <2>1, <2>2
<1>6. job' = NoJob \/ (job' \in Job /\ job'.order = o /\ o \in Plain /\ o \notin Managed)
  <2>1. o \notin Managed => o \in Plain BY DEF Orders
  <2>2. o \notin Managed => job' \in Job /\ job'.order = o BY <1>1, <1>3, <1>5 DEF Job, Pcs
  <2> QED BY <1>3, <2>1, <2>2
<1>7. \A q \in Managed : ~ActiveRun(q)' /\ ~JobOn(q)' BY <1>6 DEF ActiveRun, JobOn, Busy
<1>8. o \in Managed => runs[o] = <<>>
  <2>1. \A k \in Nat : k < 1 => k = 0 OBVIOUS
  <2> QED BY <1>1, <2>1, Rows DEF Limit
<1>9. \A q \in Managed : HasRun(q) => q # o /\ HasRun(q)' /\ TheRun(q)' = TheRun(q)
  BY <1>1, <1>4, <1>8 DEF HasRun, TheRun
<1>10. DispatchTypeOK'
  <2>1. order' \in [Orders -> OrderState] BY <1>1, <1>3 DEF OrderState, Open
  <2>2. starts' \in [Starts -> [order : Orders, fresh : BOOLEAN] \cup {NoCall}]
    BY <1>3, StartsOutdated DEF StartsKept
  <2> QED BY <1>3, <1>4, <1>6, <2>1, <2>2 DEF DispatchInv, DispatchTypeOK, JobTypeOK
<1>11. JobAt'
  <2>1. CASE o \in Managed BY <1>3, <2>1 DEF JobAt, Busy
  <2>2. CASE o \notin Managed
    <3>1. job' = [job EXCEPT !.pc = "begin", !.n = Len(runs[o]) + 1] BY <1>3, <2>2
    <3>2. job'.pc = "begin" /\ job'.n = Len(runs[o]) + 1 /\ job'.order = o /\ job'.gated = job.gated /\ job'.step = job.step
      BY <1>1, <3>1 DEF Job
    <3>3. ThisRun' = new /\ Len(runs'[job'.order]) = job'.n BY <1>4, <3>2 DEF ThisRun
    <3>4. ~job.gated /\ job.step = "first" BY <1>1, <1>6, <2>2 DEF DispatchInv, JobAt, Orders
    <3>5. "begin" \notin Starting /\ "begin" \in Working /\ new.state \in Open
      BY <1>2 DEF Starting, Working, Pcs, Open
    <3> QED BY <1>2, <1>5, <2>2, <3>2, <3>3, <3>4, <3>5 DEF JobAt
  <2> QED BY <2>1, <2>2
<1>12. RunsKept'
  <2>1. \A q \in Orders : Len(runs'[q]) <= MaxAttempts /\ Len(runs'[q]) <= Limit(q)
    BY <1>4, <1>5 DEF DispatchInv, RunsKept
  <2>2. \A q \in Orders : JobOn(q)' => job'.n # 0
    <3>1. o \notin Managed => job'.n = Len(runs[o]) + 1 BY <1>1, <1>3 DEF Job
    <3> QED BY <1>3, <1>5, <3>1 DEF JobOn, Busy
  <2>3. ASSUME NEW c \in Starts, starts'[c] # NoCall
        PROVE  starts'[c].order \in Plain /\ (starts'[c].fresh => Len(runs'[starts'[c].order]) < 2)
    <3>1. starts[c] # NoCall /\ starts'[c].order = starts[c].order /\ (starts'[c].fresh => starts[c].fresh)
      BY <1>3, <2>3, StartsOutdated DEF StartsKept
    <3>2. starts[c].order = o => ~starts'[c].fresh
      <4>1. starts[c] \in [order : Orders, fresh : BOOLEAN] BY <3>1 DEF DispatchInv, DispatchTypeOK, JobTypeOK
      <4> QED BY <1>3, <3>1, <4>1 DEF Outdated, Awaiting
    <3>3. starts[c].order \in Plain /\ starts[c].order \in Orders
          /\ (starts[c].fresh => Len(runs[starts[c].order]) < 2)
      BY <3>1 DEF DispatchInv, RunsKept, Awaiting, Orders
    <3>4. starts[c].order # o => runs'[starts[c].order] = runs[starts[c].order] BY <1>4, <3>3
    <3> QED BY <3>1, <3>2, <3>3, <3>4
  <2> QED BY <2>1, <2>2, <2>3 DEF RunsKept, Limit, Awaiting
<1>13. HoldInv'
  <2>1. ASSUME NEW q \in Plain, hold'[q] # NoHold
        PROVE  runs'[q] # <<>> /\ Last(q)'.state = "interrupted" /\ ~JobOn(q)'
    <3>1. q \in Orders /\ runs[q] # <<>> /\ Last(q).state = "interrupted" /\ q # o
      BY <1>1, <1>3, <2>1 DEF DispatchInv, HoldInv, Orders
    <3>2. runs'[q] = runs[q] BY <1>4, <3>1
    <3>3. ~JobOn(q)' BY <1>6, <3>1 DEF JobOn, Busy
    <3> QED BY <3>1, <3>2, <3>3 DEF Last
  <2>2. ASSUME NEW p \in alive', p[1] \in Plain PROVE Held(p)'
    BY <1>1, <1>3, <2>2 DEF Held, DispatchInv, HoldInv, At
  <2>3. ASSUME NEW p \in alive', p[1] \in Managed PROVE p[2] = 1 BY <1>3, <2>3 DEF DispatchInv, HoldInv
  <2> QED BY <2>1, <2>2, <2>3 DEF HoldInv
<1>14. ManagedInv'
  <2> SUFFICES ASSUME NEW q \in Managed
               PROVE  (/\ order[q] = "absent" => runs[q] = <<>> /\ ~JobOn(q)
                       /\ HasRun(q) \/ JobOn(q) => authority[q] # "none"
                       /\ ~HasRun(q) => ~Answered(q) /\ ~log[q].settled
                       /\ HasRun(q) =>
                            /\ TheRun(q).kind = IF log[q].claimed THEN "claimed" ELSE "prepared"
                            /\ ~log[q].claimed => TheRun(q).recorded = {} /\ (TheRun(q).state = "planning" \/ IsTerminal(q))
                            /\ TheRun(q).recovered => log[q].claimed /\ TheRun(q).state \in {"interrupted", "cancelled"}
                            /\ log[q].settled => log[q].claimed /\ ~ActiveRun(q))'
    BY DEF ManagedInv
  <2>0. log' = log /\ authority' = authority /\ Answered(q)' = Answered(q) BY <1>3 DEF Answered
  <2>1. CASE q = o
    <3>1. ~Answered(o) /\ ~log[o].settled /\ authority[o] # "none"
      BY <1>1, <1>8, <2>1 DEF DispatchInv, ManagedInv, HasRun
    <3>2. order'[o] = "planning" BY <1>1, <1>3
    <3>3. HasRun(o)' /\ TheRun(o)' = new
      <4>1. Len(runs[o]) = 0 BY <1>8, <2>1
      <4>2. runs'[o][1] = new /\ Len(runs'[o]) = 1 BY <1>4, <4>1
      <4> QED BY <4>2 DEF HasRun, TheRun
    <3> QED BY <1>2, <2>0, <2>1, <3>1, <3>2, <3>3 DEF Answered
  <2>2. CASE q # o
    <3>1. order'[q] = order[q] /\ runs'[q] = runs[q] BY <1>1, <1>3, <1>4, <2>2
    <3>2. HasRun(q)' = HasRun(q) /\ TheRun(q)' = TheRun(q) /\ IsTerminal(q)' = IsTerminal(q)
      BY <2>0, <3>1 DEF HasRun, TheRun, IsTerminal
    <3> QED BY <1>7, <2>0, <3>1, <3>2 DEF DispatchInv, ManagedInv
  <2> QED BY <2>1, <2>2
<1>15. CallInv'
  <2> SUFFICES ASSUME NEW c \in Callers, calls'[c] # NoCall PROVE Sound(calls[c])'
    BY DEF CallInv
  <2>1. calls'[c] \in Call /\ Sound(calls'[c]) BY <1>3 DEF DispatchInv, DispatchTypeOK, CallInv
  <2> PICK call \in Call : call = calls'[c] BY <2>1
  <2>2. Sound(call) /\ call.order \in Managed /\ HasRun(call.order) BY <2>1 DEF Call, Sound
  <2>3. IsTerminal(call.order)' = IsTerminal(call.order) BY <1>3 DEF IsTerminal
  <2>4. Sound(call)' BY <1>3, <1>9, <2>2, <2>3, SoundStays
  <2> QED BY <2>4
<1>16. TerminalInv'
  <2> SUFFICES ASSUME NEW q \in Managed, IsTerminal(q)' PROVE Final(q)' BY DEF TerminalInv
  <2>1. IsTerminal(q) /\ Final(q) BY <1>3 DEF DispatchInv, TerminalInv, IsTerminal
  <2>2. HasRun(q)' /\ TheRun(q)' = TheRun(q) /\ authority'[q] \in {"fenced", "cancelled", "gone"} /\ ~ActiveRun(q)
    BY <1>3, <1>9, <2>1 DEF Final
  <2> QED BY <1>3, <1>7, <2>1, <2>2, FinalStays
<1>17. RecordsAgree'
  <2>1. ASSUME NEW q \in Orders, runs'[q] # <<>> PROVE Agrees(runs'[q][Len(runs'[q])].state, order'[q])
    <3>1. CASE q = o
      <4>1. runs'[q][Len(runs'[q])] = new /\ order'[q] = "planning" BY <1>1, <1>3, <1>4, <3>1
      <4> QED BY <1>2, <4>1 DEF Agrees
    <3>2. CASE q # o
      <4>1. runs'[q] = runs[q] /\ order'[q] = order[q] BY <1>1, <1>3, <1>4, <3>2
      <4> QED BY <2>1, <4>1 DEF DispatchInv, RecordsAgree, OrderFollowsRun, Agrees
    <3> QED BY <3>1, <3>2
  <2>2. ASSUME NEW q \in Orders, NEW n \in DOMAIN runs'[q], runs'[q][n].result # "none"
        PROVE  runs'[q][n].result = runs'[q][n].state
    <3>1. CASE runs'[q][n] = new BY <1>2, <2>2, <3>1
    <3>2. CASE runs'[q][n] = runs[q][n] /\ n \in DOMAIN runs[q]
      BY <2>2, <3>2 DEF DispatchInv, RecordsAgree, ResultTrue
    <3>3. q = o => n \in 1..Len(runs[o]) \/ n = Len(runs[o]) + 1 BY <1>1, <1>4
    <3> QED BY <1>1, <1>4, <3>1, <3>2, <3>3, Rows
  <2> QED BY <2>1, <2>2 DEF RecordsAgree, OrderFollowsRun, ResultTrue, Agrees
<1>18. Attended'
  <2> SUFFICES ASSUME NEW q \in Orders, NEW n \in DOMAIN runs'[q], runs'[q][n].state \in Open
               PROVE  (Busy' /\ Attempt' = <<q, n>>) \/ runs'[q][n].kind = "prepared"
    BY DEF Attended
  <2>1. CASE q = o /\ n = Len(runs[o]) + 1
    <3>1. CASE o \in Managed BY <1>2, <1>4, <2>1, <3>1
    <3>2. CASE o \notin Managed
      <4>1. job' # NoJob BY <1>1, <1>3, <1>5, <3>2, Sentinels DEF Job, Pcs
      <4>2. job'.order = o /\ job'.n = n BY <1>1, <1>3, <2>1, <3>2 DEF Job
      <4> QED BY <2>1, <4>1, <4>2 DEF Busy, Attempt
    <3> QED BY <3>1, <3>2
  <2>2. CASE ~(q = o /\ n = Len(runs[o]) + 1)
    <3>1. runs'[q][n] = runs[q][n] /\ n \in DOMAIN runs[q] /\ n \in 1..Len(runs[q])
      <4>1. q = o => n \in 1..Len(runs[o]) BY <1>1, <1>4, <2>2
      <4> QED BY <1>1, <1>4, <4>1, Rows
    <3>2. n # 0 BY <3>1
    <3>3. ~(Busy /\ Attempt = <<q, n>>) BY <1>1, <3>2 DEF Attempt
    <3> QED BY <3>1, <3>3 DEF DispatchInv, Attended
  <2> QED BY <2>1, <2>2
<1> QED BY <1>10, <1>11, <1>12, <1>13, <1>14, <1>15, <1>16, <1>17, <1>18 DEF DispatchInv

LEMMA ClaimKeeps ==
  ASSUME DispatchInv, NEW c \in Dispatchers, Claim(c)
  PROVE  DispatchInv'
<1>1. c \in Callers /\ calls[c] \in Call /\ Sound(calls[c]) /\ calls' = [calls EXCEPT ![c] = NoCall]
  BY DEF Claim, Done, Calling, Callers, DispatchInv, DispatchTypeOK, CallInv
<1> PICK o \in Managed : o = calls[c].order BY <1>1 DEF Call
<1>2. /\ ~Busy /\ ~Answered(o) /\ HasRun(o)
      /\ log' = [log EXCEPT ![o] = [@ EXCEPT !.bound = TRUE, !.claimed = TRUE]]
      /\ runs' = [runs EXCEPT ![o][1].kind = "claimed"]
      /\ job' = NewJob(o, 1, FALSE, Metered, "begin")
      /\ UNCHANGED <<order, hold, starts, paused, alive, containers, restarts, authority, late>>
  BY <1>1 DEF Claim, Claimable, Sound
<1>3. /\ o \in Orders /\ o \notin Plain /\ runs \in [Orders -> Seq(Run)] /\ 1 \in 1..Len(runs[o]) /\ Len(runs[o]) = 1
      /\ log \in [Managed -> Log] /\ \A q \in Managed : q \in Orders
  BY <1>2, ManagedOnce, Rows, OrdersDisjoint DEF HasRun, DispatchInv, DispatchTypeOK, JobTypeOK
<1>4. TheRun(o) \in Run /\ 1 \in DOMAIN runs[o] /\ runs[o][1] = TheRun(o) BY <1>3, Rows DEF TheRun
<1>5. /\ TheRun(o).kind = "prepared" /\ TheRun(o).state = "planning" /\ ~TheRun(o).recovered
      /\ ~log[o].claimed /\ ~log[o].stopped /\ ~IsTerminal(o) /\ ~log[o].settled
      /\ TheRun(o).result = "none" /\ authority[o] # "none" /\ order[o] # "absent"
  <2>1. ~log[o].claimed /\ ~log[o].stopped /\ ~IsTerminal(o) BY <1>2 DEF Answered, IsTerminal
  <2>2. TheRun(o).kind = "prepared" /\ TheRun(o).state = "planning" /\ ~TheRun(o).recovered /\ ~log[o].settled
        /\ authority[o] # "none" /\ order[o] # "absent"
    BY <1>2, <2>1 DEF DispatchInv, ManagedInv, HasRun
  <2>3. TheRun(o).result # "none" => TheRun(o).result = TheRun(o).state
    BY <1>3, <1>4 DEF DispatchInv, RecordsAgree, ResultTrue
  <2> QED BY <1>4, <2>1, <2>2, <2>3 DEF Run
<1> DEFINE run == [TheRun(o) EXCEPT !.kind = "claimed"]
           row == [log[o] EXCEPT !.bound = TRUE, !.claimed = TRUE]
<1>6. /\ run \in Run /\ run.state = "planning" /\ run.kind = "claimed" /\ ~run.recovered /\ run.result = "none"
      /\ run.recorded = TheRun(o).recorded
  BY <1>4, <1>5 DEF Run
<1>7. runs' = [runs EXCEPT ![o][1] = run] BY <1>2, <1>4
<1>8. /\ row \in Log /\ row.claimed /\ row.stopped = log[o].stopped /\ row.terminal = log[o].terminal
      /\ row.settled = log[o].settled
  BY <1>3 DEF Log
<1>9. log' = [log EXCEPT ![o] = row] BY <1>2
<1> HIDE DEF run, row
<1>10. /\ runs' \in [Orders -> Seq(Run)] /\ \A q \in Orders : Len(runs'[q]) = Len(runs[q])
       /\ \A q \in Orders : q # o => \A m \in 1..Len(runs[q]) : runs'[q][m] = runs[q][m]
       /\ runs'[o][1] = run
  <2>1. Wrote(o, 1, run) BY <1>3, <1>6, <1>7, RunWritten
  <2> QED BY <1>3, <2>1 DEF Wrote
<1>11. \A q \in Orders : (runs'[q] = <<>> <=> runs[q] = <<>>) /\ DOMAIN runs'[q] = 1..Len(runs[q])
  BY <1>3, <1>10, Rows
<1>12. /\ log'[o] = row /\ \A q \in Managed : q # o => log'[q] = log[q]
       /\ \A q \in Managed : IsTerminal(q)' = IsTerminal(q)
       /\ \A q \in Managed : q # o => Answered(q)' = Answered(q)
  BY <1>3, <1>8, <1>9 DEF IsTerminal, Answered
<1>13. /\ HasRun(o)' /\ TheRun(o)' = run
       /\ \A q \in Managed : q # o => /\ HasRun(q)' = HasRun(q) /\ (HasRun(q) => TheRun(q)' = TheRun(q))
  <2>1. HasRun(o)' /\ TheRun(o)' = run BY <1>2, <1>3, <1>10, <1>11 DEF HasRun, TheRun
  <2>2. ASSUME NEW q \in Managed, q # o, HasRun(q) PROVE runs'[q][1] = runs[q][1]
    <3>1. 1 \in 1..Len(runs[q]) BY <1>3, <2>2, Rows, ManagedOnce DEF HasRun
    <3> QED BY <1>3, <1>10, <2>2, <3>1
  <2> QED BY <1>3, <1>11, <2>1, <2>2 DEF HasRun, TheRun
<1>14. /\ job' \in Job /\ job' # NoJob /\ job'.order = o /\ job'.n = 1 /\ job'.pc = "begin"
  <2>1. 1 \in 0..MaxAttempts
    <3>1. Len(runs[o]) <= MaxAttempts BY <1>3 DEF DispatchInv, RunsKept
    <3>2. 1 <= MaxAttempts /\ MaxAttempts \in Nat BY <1>3, <3>1, Bounds
    <3> QED BY <3>2
  <2>2. Metered \in BOOLEAN BY Switches
  <2>3. job' \in Job BY <1>2, <1>3, <2>1, <2>2 DEF NewJob, Job, Pcs
  <2> QED BY <1>2, <2>3, Sentinels DEF NewJob
<1>15. /\ \A q \in Managed : ActiveRun(q)' => q = o
       /\ \A q \in Orders : JobOn(q)' => q = o
  BY <1>14 DEF ActiveRun, JobOn
<1>16. DispatchTypeOK'
  <2>1. calls' \in [Callers -> Call \cup {NoCall}] BY <1>1 DEF DispatchInv, DispatchTypeOK
  <2>2. log' \in [Managed -> Log] BY <1>3, <1>8, <1>9
  <2> QED BY <1>2, <1>10, <1>14, <2>1, <2>2 DEF DispatchInv, DispatchTypeOK, JobTypeOK
<1>17. JobAt'
  <2>1. ThisRun' = run /\ Len(runs'[job'.order]) = 1 BY <1>3, <1>10, <1>14 DEF ThisRun
  <2>2. "begin" \notin Starting /\ "begin" \in Working /\ run.state \in Open /\ 1 > 0
    BY <1>6 DEF Starting, Working, Pcs, Open
  <2> QED BY <1>3, <1>6, <1>14, <2>1, <2>2 DEF JobAt
<1>18. RunsKept'
  <2>1. \A q \in Starts : starts'[q] # NoCall => starts[q].order \in Plain /\ starts[q].order \in Orders
    BY <1>2 DEF DispatchInv, RunsKept, Awaiting, Orders
  <2>2. job'.n # 0 BY <1>14
  <2>3. \A q \in Orders : Len(runs'[q]) <= MaxAttempts /\ Len(runs'[q]) <= Limit(q)
    BY <1>10 DEF DispatchInv, RunsKept
  <2>4. \A q \in Starts : starts'[q] # NoCall =>
          starts'[q].order \in Plain /\ (starts'[q].fresh => Len(runs'[starts'[q].order]) < 2)
    BY <1>2, <1>10, <2>1 DEF DispatchInv, RunsKept, Awaiting
  <2> QED BY <2>2, <2>3, <2>4 DEF RunsKept, Limit, Awaiting
<1>19. HoldInv'
  <2>1. ASSUME NEW q \in Plain, hold'[q] # NoHold
        PROVE  runs'[q] # <<>> /\ Last(q)'.state = "interrupted" /\ ~JobOn(q)'
    <3>1. q \in Orders /\ runs[q] # <<>> /\ Last(q).state = "interrupted" /\ q # o
      BY <1>2, <1>3, <2>1 DEF DispatchInv, HoldInv, Orders
    <3>2. Len(runs[q]) \in 1..Len(runs[q]) /\ runs'[q] # <<>> BY <1>3, <1>11, <3>1, Rows
    <3>3. Last(q)' = Last(q) BY <1>10, <3>1, <3>2 DEF Last
    <3> QED BY <1>15, <3>1, <3>2, <3>3
  <2>2. ASSUME NEW p \in alive', p[1] \in Plain PROVE Held(p)'
    BY <1>2, <2>2 DEF Held, DispatchInv, HoldInv, At
  <2>3. ASSUME NEW p \in alive', p[1] \in Managed PROVE p[2] = 1 BY <1>2, <2>3 DEF DispatchInv, HoldInv
  <2> QED BY <2>1, <2>2, <2>3 DEF HoldInv
<1>20. ManagedInv'
  <2> SUFFICES ASSUME NEW q \in Managed
               PROVE  (/\ order[q] = "absent" => runs[q] = <<>> /\ ~JobOn(q)
                       /\ HasRun(q) \/ JobOn(q) => authority[q] # "none"
                       /\ ~HasRun(q) => ~Answered(q) /\ ~log[q].settled
                       /\ HasRun(q) =>
                            /\ TheRun(q).kind = IF log[q].claimed THEN "claimed" ELSE "prepared"
                            /\ ~log[q].claimed => TheRun(q).recorded = {} /\ (TheRun(q).state = "planning" \/ IsTerminal(q))
                            /\ TheRun(q).recovered => log[q].claimed /\ TheRun(q).state \in {"interrupted", "cancelled"}
                            /\ log[q].settled => log[q].claimed /\ ~ActiveRun(q))'
    BY DEF ManagedInv
  <2>1. CASE q = o
    <3>1. order'[o] # "absent" /\ authority'[o] # "none" BY <1>2, <1>5
    <3>2. log'[o].claimed /\ ~log'[o].settled BY <1>5, <1>8, <1>12
    <3> QED BY <1>6, <1>13, <2>1, <3>1, <3>2
  <2>2. CASE q # o
    <3>1. ~ActiveRun(q)' /\ ~JobOn(q)' BY <1>3, <1>15, <2>2
    <3>2. order'[q] = order[q] /\ authority'[q] = authority[q] BY <1>2
    <3>3. runs[q] = <<>> => runs'[q] = <<>> BY <1>3, <1>11
    <3> QED BY <1>12, <1>13, <2>2, <3>1, <3>2, <3>3 DEF DispatchInv, ManagedInv
  <2> QED BY <2>1, <2>2
<1>21. CallInv'
  <2> SUFFICES ASSUME NEW d \in Callers, calls'[d] # NoCall PROVE Sound(calls[d])'
    BY DEF CallInv
  <2>1. calls'[d] \in Call /\ Sound(calls'[d])
    <3>1. calls'[d] = calls[d] BY <1>1 DEF DispatchInv, DispatchTypeOK
    <3> QED BY <3>1 DEF DispatchInv, DispatchTypeOK, CallInv
  <2> PICK call \in Call : call = calls'[d] BY <2>1
  <2>2. Sound(call) /\ call.order \in Managed /\ HasRun(call.order) BY <2>1 DEF Call, Sound
  <2>3. CASE call.order = o
    <3>1. ~call.ripe BY <1>5, <2>2, <2>3 DEF Sound, Over
    <3>2. Sound(call)' BY <1>13, <2>3, <3>1 DEF Sound
    <3> QED BY <3>2
  <2>4. CASE call.order # o
    <3>1. Sound(call)' BY <1>2, <1>12, <1>13, <2>2, <2>4, SoundStays
    <3> QED BY <3>1
  <2> QED BY <2>3, <2>4
<1>22. TerminalInv'
  <2> SUFFICES ASSUME NEW q \in Managed, IsTerminal(q)' PROVE Final(q)' BY DEF TerminalInv
  <2>1. IsTerminal(q) /\ Final(q) /\ q # o BY <1>5, <1>12 DEF DispatchInv, TerminalInv
  <2>2. HasRun(q)' /\ TheRun(q)' = TheRun(q) /\ authority'[q] \in {"fenced", "cancelled", "gone"}
        /\ ~ActiveRun(q) /\ ~ActiveRun(q)' /\ log'[q] = log[q]
    BY <1>2, <1>12, <1>13, <1>15, <2>1 DEF Final
  <2> QED BY <1>2, <2>1, <2>2, FinalStays
<1>23. RecordsAgree'
  <2>1. ASSUME NEW q \in Orders, runs'[q] # <<>> PROVE Agrees(runs'[q][Len(runs'[q])].state, order'[q])
    <3>1. runs[q] # <<>> /\ Len(runs[q]) \in 1..Len(runs[q]) BY <1>3, <1>11, <2>1, Rows
    <3>2. runs'[q][Len(runs'[q])].state = runs[q][Len(runs[q])].state
      <4>1. CASE q # o
        <5>1. runs'[q][Len(runs[q])] = runs[q][Len(runs[q])] /\ Len(runs'[q]) = Len(runs[q]) BY <1>10, <3>1, <4>1
        <5> QED BY <5>1
      <4>2. CASE q = o
        <5>1. Len(runs[o]) = 1 /\ Len(runs'[o]) = 1 BY <1>3, <1>10
        <5>2. runs'[o][1].state = "planning" /\ runs[o][1].state = "planning" BY <1>4, <1>5, <1>6, <1>10
        <5> QED BY <4>2, <5>1, <5>2
      <4> QED BY <4>1, <4>2
    <3> QED BY <1>2, <3>1, <3>2 DEF DispatchInv, RecordsAgree, OrderFollowsRun, Agrees
  <2>2. ASSUME NEW q \in Orders, NEW n \in 1..Len(runs[q]), runs'[q][n].result # "none"
        PROVE  runs'[q][n].result = runs'[q][n].state
    <3>1. CASE q = o
      <4>1. n \in 1..1 BY <1>3, <3>1
      <4>2. n = 1 BY <4>1
      <4> QED BY <1>6, <1>10, <2>2, <3>1, <4>2
    <3>2. CASE q # o
      <4>1. runs'[q][n] = runs[q][n] /\ n \in DOMAIN runs[q] BY <1>3, <1>10, <3>2, Rows
      <4> QED BY <2>2, <4>1 DEF DispatchInv, RecordsAgree, ResultTrue
    <3> QED BY <3>1, <3>2
  <2> QED BY <1>11, <2>1, <2>2 DEF RecordsAgree, OrderFollowsRun, ResultTrue, Agrees
<1>24. Attended'
  <2> SUFFICES ASSUME NEW q \in Orders, NEW n \in 1..Len(runs[q]), runs'[q][n].state \in Open
               PROVE  (Busy' /\ Attempt' = <<q, n>>) \/ runs'[q][n].kind = "prepared"
    BY <1>11 DEF Attended
  <2>1. CASE q = o
    <3>1. n \in 1..1 BY <1>3, <2>1
    <3>2. n = 1 BY <3>1
    <3> QED BY <1>14, <2>1, <3>2 DEF Busy, Attempt
  <2>2. CASE q # o
    <3>1. runs'[q][n] = runs[q][n] /\ n \in DOMAIN runs[q] BY <1>3, <1>10, <2>2, Rows
    <3> QED BY <1>2, <3>1 DEF DispatchInv, Attended
  <2> QED BY <2>1, <2>2
<1> QED BY <1>16, <1>17, <1>18, <1>19, <1>20, <1>21, <1>22, <1>23, <1>24 DEF DispatchInv
-----------------------------------------------------------------------------
(* The invariant *)

LEMMA DispatchStart ==
  ASSUME DispatchInit
  PROVE  DispatchInv
<1>1. /\ order = [o \in Orders |-> IF o \in Plain THEN "queued" ELSE "absent"]
      /\ runs = [o \in Orders |-> <<>>] /\ hold = [o \in Orders |-> NoHold] /\ job = NoJob
      /\ starts = [c \in Starts |-> NoCall]
      /\ paused = FALSE /\ alive = {} /\ containers = {} /\ restarts = 0 /\ late = {}
      /\ log = [o \in Managed |-> [bound |-> FALSE, claimed |-> FALSE, stopped |-> FALSE,
                                   settled |-> FALSE, terminal |-> "none"]]
      /\ authority = [o \in Managed |-> "none"] /\ calls = [c \in Callers |-> NoCall]
  BY DEF DispatchInit, Init
<1>2. <<>> \in Seq(Run) /\ Len(<<>>) = 0 /\ DOMAIN <<>> = {} /\ "queued" \in OrderState /\ "absent" \in OrderState
  BY DEF OrderState
<1>3. /\ Plain \subseteq Orders /\ Managed \subseteq Orders /\ MaxAttempts >= 0 /\ 0 \in 0..MaxRestarts
  BY Bounds DEF Orders
<1>4. DispatchTypeOK BY <1>1, <1>2, <1>3 DEF DispatchTypeOK, JobTypeOK, Log, Outcome, Authority
<1>5. JobAt /\ Attended BY <1>1, <1>2 DEF JobAt, Busy, Attended
<1>6. RunsKept
  <2>1. \A o \in Orders : 0 <= Limit(o) /\ 0 <= MaxAttempts BY Bounds DEF Limit
  <2> QED BY <1>1, <1>2, <2>1 DEF RunsKept, JobOn, Busy, Awaiting
<1>7. HoldInv BY <1>1, <1>3 DEF HoldInv
<1>8. ManagedInv BY <1>1, <1>3 DEF ManagedInv, HasRun, JobOn, Busy, Answered
<1>9. CallInv /\ TerminalInv BY <1>1 DEF CallInv, TerminalInv, IsTerminal
<1>10. RecordsAgree BY <1>1, <1>2 DEF RecordsAgree, OrderFollowsRun, ResultTrue
<1> QED BY <1>4, <1>5, <1>6, <1>7, <1>8, <1>9, <1>10 DEF DispatchInv

\* What the steps come to.
StepKinds ==
  \/ Advances \/ Finishes \/ Turns \/ AnswersOnce
  \/ Rests /\ (UNCHANGED log \/ \E o \in Managed : Stop(o))
  \/ Register /\ UNCHANGED <<log, authority, late, calls>>
  \/ \E c \in Dispatchers : Claim(c)
  \/ RestartSupervisor /\ Busy /\ job.pc \in Working

LEMMA StepsAre ==
  ASSUME DispatchInv, [DispatchNext]_dispatchVars
  PROVE  StepKinds
<1>1. CASE UNCHANGED dispatchVars
  <2>1. SameJob BY <1>1 DEF dispatchVars, SameJob
  <2>2. /\ UNCHANGED <<paused, alive, containers, restarts, late>>
        /\ alive \subseteq Process /\ containers \subseteq Orders \X (1..MaxAttempts)
    BY <1>1 DEF dispatchVars, DispatchInv, DispatchTypeOK, JobTypeOK
  <2>3. OthersTyped BY <2>2, HostSame
  <2> QED BY <1>1, <2>1, <2>3, SameParts DEF dispatchVars, Rests, StepKinds
<1>2. ASSUME JobAction PROVE StepKinds
  <2>1. UNCHANGED <<log, authority, late, calls>> BY <1>2 DEF JobAction
  <2>2. CASE ExecuteDispatched
    BY <2>1, <2>2, ExecuteSteps DEF ExecuteDispatched, StepKinds
  <2>3. CASE InitializeRun BY <2>1, <2>3, StartingTurns DEF InitializeRun, StepKinds
  <2>4. CASE Human /\ ~ \E c \in Starts : StartConfirmed(c)
    BY <2>1, <2>4, HumanRests DEF Human, StepKinds
  <2>5. CASE \E c \in Starts : StartConfirmed(c) BY <2>1, <2>5, StartTurns DEF StepKinds
  <2>6. CASE Host \/ Shutdown BY <2>1, <2>6, HumanRests DEF StepKinds
  <2> QED BY <1>2, <2>2, <2>3, <2>4, <2>5, <2>6 DEF JobAction
<1>3. ASSUME Connection PROVE StepKinds
  <2>1. CASE \E o \in Managed : Prepare(o) BY <2>1, PrepareTurns DEF Prepare, StepKinds
  <2>2. CASE \E c \in Dispatchers : Claim(c) BY <2>2 DEF StepKinds
  <2>3. CASE (\E o \in Managed : ReadNow(o)) \/ (\E c \in Readers : ReadDecide(c))
    BY <2>3, ReadsAnswer DEF StepKinds
  <2>4. CASE \/ \E o \in Managed : PrepareAgain(o) \/ Deadline(o) \/ Supersede(o) \/ Stop(o) \/ ReadTerminal(o)
             \/ \E c \in Dispatchers : DispatchRefused(c) \/ \E o \in Managed : Dispatch(c, o)
             \/ \E c \in Readers : ProbeContainers(c) \/ \E o \in Managed : ReadProbe(c, o)
    <3>1. Rests BY <2>4, ConnectionRests
    <3>2. UNCHANGED log \/ \E o \in Managed : Stop(o)
      BY <2>4 DEF PrepareAgain, Deadline, Supersede, ReadTerminal, DispatchRefused, Dispatch, ProbeContainers, ReadProbe
    <3> QED BY <3>1, <3>2 DEF StepKinds
  <2> QED BY <1>3, <2>1, <2>2, <2>3, <2>4 DEF Connection
<1>4. CASE RestartSupervisor BY <1>4, RestartTurns DEF StepKinds
<1>5. CASE Settle BY <1>5, SettleTurns DEF StepKinds
<1> QED BY <1>1, <1>2, <1>3, <1>4, <1>5 DEF DispatchNext

LEMMA DispatchSteps ==
  ASSUME DispatchInv, [DispatchNext]_dispatchVars
  PROVE  DispatchInv'
<1>1. CASE Advances \/ Finishes BY <1>1, MovesKeep, EndsKeep DEF Advances, Finishes
<1>2. CASE Turns BY <1>2, TurnsKeep
<1>3. CASE Rests BY <1>3, RestsKeep
<1>4. CASE AnswersOnce BY <1>4, AnswersKeep DEF AnswersOnce
<1>5. CASE Register /\ UNCHANGED <<log, authority, late, calls>> BY <1>5, RegisterKeeps
<1>6. CASE \E c \in Dispatchers : Claim(c) BY <1>6, ClaimKeeps
<1>7. CASE RestartSupervisor BY <1>7, RestartKeeps
<1> QED BY <1>1, <1>2, <1>3, <1>4, <1>5, <1>6, <1>7, StepsAre DEF StepKinds

\* The job, its processes and what the calls of a connection have read of them agree, in every
\* order of their steps and after any restart (jobs.ts, dispatch-control.ts).
THEOREM DispatchInvHolds == DispatchSpec => []DispatchInv
<1>1. DispatchInit => DispatchInv BY DispatchStart
<1>2. DispatchInv /\ [DispatchNext]_dispatchVars => DispatchInv' BY DispatchSteps
<1> QED BY <1>1, <1>2, PTL DEF DispatchSpec

\* What a terminal answer says is final: nothing can still be paid for, nothing it knows of still
\* runs, and the run, the order and the result stay as it tells them (dispatch-control.ts, jobs.ts).
THEOREM DispatchSoundHolds == DispatchSpec => []DispatchSound
<1>1. DispatchInv => DispatchSound
  BY DEF DispatchInv, TerminalInv, Final, DispatchSound, TerminalFenced, TerminalQuiet, TerminalTruth
<1> QED BY <1>1, DispatchInvHolds, PTL

\* An order has at most two runs, each attended to, and no process of an earlier run is left while
\* a later one is executed (jobs.ts).
THEOREM RunsBoundedHolds == DispatchSpec => []RunsBounded
<1>1. DispatchInv => RunsBounded
  <2> SUFFICES ASSUME DispatchInv PROVE RunsBounded OBVIOUS
  <2>1. ASSUME NEW o \in Orders PROVE Len(runs[o]) <= 2
    <3>1. runs \in [Orders -> Seq(Run)] /\ Len(runs[o]) \in Nat
      BY Rows DEF DispatchInv, DispatchTypeOK, JobTypeOK
    <3>2. Len(runs[o]) <= 1 \/ Len(runs[o]) <= 2 BY DEF DispatchInv, RunsKept, Limit
    <3>3. \A k \in Nat : k <= 1 => k <= 2 OBVIOUS
    <3> QED BY <3>1, <3>2, <3>3
  <2>2. ASSUME NEW p \in alive, Busy, job.order = p[1], job.n > 0 PROVE p[2] = job.n
    <3>1. job.order \in Orders /\ job.pc \notin Starting
      BY <2>2 DEF DispatchInv, DispatchTypeOK, JobTypeOK, JobAt, Busy, Job
    <3>2. CASE job.order \in Plain
      <4>1. ~Held(p) BY <2>2, <3>2 DEF DispatchInv, HoldInv, Held, JobOn
      <4>2. p = Agent("first") BY <2>2, <3>2, <4>1 DEF DispatchInv, HoldInv
      <4> QED BY <4>2 DEF Agent
    <3>3. CASE job.order \in Managed
      <4>1. p[2] = 1 BY <2>2, <3>3 DEF DispatchInv, HoldInv
      <4>2. job.n = Len(runs[job.order]) BY <2>2, <3>1 DEF DispatchInv, JobAt
      <4>3. job.n = 1 BY <2>2, <3>3, <4>2, ManagedOnce
      <4> QED BY <4>1, <4>3
    <3> QED BY <3>1, <3>2, <3>3 DEF Orders
  <2> QED BY <2>1, <2>2 DEF RunsBounded, OneWorker, DispatchInv
<1> QED BY <1>1, DispatchInvHolds, PTL
-----------------------------------------------------------------------------
(* An abort is heeded *)

ReadyUnaborted == \A o \in Orders : \A n \in DOMAIN runs[o] :
  runs'[o][n].state = "ready_for_review" /\ runs[o][n].state # "ready_for_review" => ~Aborted

LEMMA WritesHeed ==
  ASSUME DispatchInv, NEW run, NEW orderState, Writes(run, orderState), AbortedNotReady(run.state)
  PROVE  ReadyUnaborted
<1> SUFFICES ASSUME NEW o \in Orders, NEW n \in DOMAIN runs[o], runs'[o][n].state = "ready_for_review",
                    runs[o][n].state # "ready_for_review"
             PROVE  ~Aborted
  BY DEF ReadyUnaborted
<1>1. n \in 1..Len(runs[o]) BY Rows DEF DispatchInv, DispatchTypeOK, JobTypeOK
<1>2. runs'[o][n] = IF o = job.order /\ n = job.n THEN run ELSE runs[o][n] BY <1>1 DEF Writes, Wrote
<1> QED BY <1>2 DEF AbortedNotReady

LEMMA StepsHeed ==
  ASSUME DispatchInv, [DispatchNext]_dispatchVars
  PROVE  ReadyUnaborted
<1>0. /\ runs \in [Orders -> Seq(Run)]
      /\ \A o \in Orders : \A n \in DOMAIN runs[o] : n \in 1..Len(runs[o])
  BY Rows DEF DispatchInv, DispatchTypeOK, JobTypeOK
<1>1. CASE Advances
  <2>1. PICK pc \in Working, step \in {"first", "repair"}, run \in Run : Moves(pc, step, run) BY <1>1 DEF Advances
  <2>2. Writes(run, run.state) /\ AbortedNotReady(run.state)
    BY <2>1, MovesWrites DEF Moves, Open, AbortedNotReady
  <2> QED BY <2>2, WritesHeed
<1>2. CASE Finishes
  <2>1. PICK state \in Closed, orderState \in OrderState : AbortedNotReady(state) /\ Ends(state, orderState)
    BY <1>2 DEF Finishes
  <2>2. PICK run \in Run : run.state = state /\ Writes(run, orderState) BY <2>1, EndsWrites
  <2> QED BY <2>1, <2>2, WritesHeed
<1>3. CASE Turns BY <1>3 DEF Turns, ReadyUnaborted
<1>4. CASE Rests BY <1>0, <1>4 DEF Rests, SameRuns, ReadyUnaborted
<1>5. CASE AnswersOnce
  <2>1. PICK o \in Managed : \E claimed, state : Answers(o, claimed, state) /\ ~UNCHANGED <<log, runs, order>>
    BY <1>5 DEF AnswersOnce
  <2>2. PICK claimed, state : Answers(o, claimed, state) /\ ~UNCHANGED <<log, runs, order>> BY <2>1
  <2>3. PICK run \in Run : /\ Wrote(o, 1, run)
                           /\ run.state = IF Ended(TheRun(o).state) THEN TheRun(o).state ELSE "cancelled"
    BY <2>2, AnswersFirst
  <2> QED BY <1>0, <2>3 DEF Wrote, TheRun, ReadyUnaborted
<1>6. CASE Register
  <2>1. PICK o \in Orders : o = job.order BY <1>6 DEF Register, At, Busy, DispatchInv, DispatchTypeOK, JobTypeOK, Job
  <2>2. PICK run : runs' = [runs EXCEPT ![o] = Append(@, run)] BY <1>6, <2>1 DEF Register
  <2>3. \A n \in 1..Len(runs[o]) : Append(runs[o], run)[n] = runs[o][n]
    <3>1. runs[o] \in Seq(Run) BY <1>0
    <3> QED BY <3>1
  <2>4. \A q \in Orders : \A n \in 1..Len(runs[q]) : runs'[q][n] = runs[q][n] BY <1>0, <2>2, <2>3
  <2> QED BY <1>0, <2>4 DEF ReadyUnaborted
<1>7. CASE \E c \in Dispatchers : Claim(c)
  <2>1. PICK o \in Orders : runs' = [runs EXCEPT ![o][1].kind = "claimed"]
    BY <1>7 DEF Claim, Calling, DispatchInv, DispatchTypeOK, Call, Callers, Orders
  <2> SUFFICES ASSUME NEW q \in Orders, NEW n \in DOMAIN runs[q] PROVE runs'[q][n].state = runs[q][n].state
    BY DEF ReadyUnaborted
  <2>2. runs[q][n] \in Run BY <1>0
  <2> DEFINE row == [runs[o] EXCEPT ![1].kind = "claimed"]
  <2>3. runs' = [runs EXCEPT ![o] = row] BY <2>1
  <2>4. CASE q = o
    <3>1. row[n] = IF n = 1 THEN [runs[o][1] EXCEPT !.kind = "claimed"] ELSE runs[o][n] BY <2>4
    <3> HIDE DEF row
    <3> QED BY <1>0, <2>2, <2>3, <2>4, <3>1 DEF Run
  <2>5. CASE q # o BY <1>0, <2>3, <2>5
  <2> QED BY <2>4, <2>5
<1>8. CASE RestartSupervisor /\ Busy /\ job.pc \in Working
  <2>1. PICK run \in Run, orderState \in {"interrupted", "awaiting_environment"} :
             run.state = "interrupted" /\ Writes(run, orderState)
    BY <1>8, RestartWrites
  <2> QED BY <2>1, WritesHeed DEF AbortedNotReady
<1> QED BY <1>1, <1>2, <1>3, <1>4, <1>5, <1>6, <1>7, <1>8, StepsAre DEF StepKinds

\* A run that was asked to end, by its owner or by the server, never becomes ready, whatever its
\* agent and its verifier still report (jobs.ts).
THEOREM AbortWinsHolds == DispatchSpec => AbortWins
<1>1. DispatchInv /\ [DispatchNext]_dispatchVars => [ReadyUnaborted]_jobVars BY StepsHeed
<1>2. DispatchSpec => [][ReadyUnaborted]_jobVars BY <1>1, DispatchInvHolds, PTL DEF DispatchSpec
<1>3. [ReadyUnaborted]_jobVars =>
        [\A o \in Orders : \A n \in DOMAIN runs[o] :
           runs'[o][n].state = "ready_for_review" /\ runs[o][n].state # "ready_for_review" => ~Aborted]_jobVars
  BY DEF ReadyUnaborted
<1> QED BY <1>2, <1>3, PTL DEF AbortWins
-----------------------------------------------------------------------------
(* What BoundAttempt promises *)

Phase    == [o \in Managed |-> IF IsTerminal(o) THEN log[o].terminal
                               ELSE IF log[o].claimed THEN "claimed" ELSE "open"]
Stopping  == {o \in Managed : log[o].stopped}
Executing == {o \in Managed : ActiveRun(o)}

\* A step that a connection does not see, or that it sees as the end of an execution.
LEMMA UnseenSteps ==
  ASSUME \A o \in Managed : log'[o].claimed = log[o].claimed /\ log'[o].stopped = log[o].stopped
                            /\ log'[o].terminal = log[o].terminal,
         \/ \A o \in Managed : ActiveRun(o)' = ActiveRun(o)
         \/ \A o \in Managed : ~ActiveRun(o)'
  PROVE  [BA!Next]_(BA!attemptVars)
<1>1. Phase' = Phase /\ Stopping' = Stopping BY DEF Phase, Stopping, IsTerminal
<1>2. Executing' = Executing \/ Executing' = {} BY DEF Executing
<1> QED BY <1>1, <1>2 DEF BA!Next, BA!End, BA!attemptVars, Phase, Stopping, Executing

LEMMA ClaimSeen ==
  ASSUME DispatchInv, NEW c \in Dispatchers, Claim(c)
  PROVE  \E o \in Managed : BA!Claim(o)
<1>1. calls[c] \in Call BY DEF Claim, Calling, Callers, DispatchInv, DispatchTypeOK
<1> PICK o \in Managed : o = calls[c].order BY <1>1 DEF Call
<1>2. /\ ~Busy /\ ~Answered(o) /\ log' = [log EXCEPT ![o] = [@ EXCEPT !.bound = TRUE, !.claimed = TRUE]]
      /\ job' = NewJob(o, 1, FALSE, Metered, "begin") /\ job' # NoJob
  <2>1. 1 \in 0..MaxAttempts
    <3>1. Len(runs[o]) = 1 /\ Len(runs[o]) <= MaxAttempts
      BY ManagedOnce DEF Claim, Calling, Callers, DispatchInv, RunsKept, CallInv, Sound, HasRun, DispatchTypeOK, JobTypeOK
    <3>2. 1 <= MaxAttempts /\ MaxAttempts \in Nat BY <3>1, Bounds
    <3> QED BY <3>2
  <2>2. o \in Orders /\ Metered \in BOOLEAN BY Switches DEF Orders
  <2>3. NewJob(o, 1, FALSE, Metered, "begin") \in Job BY <2>1, <2>2 DEF NewJob, Job, Pcs
  <2> QED BY <2>3, Sentinels DEF Claim, Claimable
<1>3. /\ ~IsTerminal(o) /\ ~log[o].claimed /\ ~log[o].stopped /\ log \in [Managed -> Log]
  BY <1>2 DEF Answered, IsTerminal, DispatchInv, DispatchTypeOK
<1> DEFINE row == [log[o] EXCEPT !.bound = TRUE, !.claimed = TRUE]
<1>4. row.claimed /\ row.stopped = log[o].stopped /\ row.terminal = log[o].terminal BY <1>3 DEF Log
<1>5. log' = [log EXCEPT ![o] = row] BY <1>2
<1> HIDE DEF row
<1>6. /\ log'[o].claimed /\ log'[o].stopped = log[o].stopped /\ log'[o].terminal = log[o].terminal
      /\ \A q \in Managed : q # o => log'[q] = log[q]
  BY <1>3, <1>4, <1>5
<1>7. Phase[o] = "open" /\ o \notin Stopping BY <1>3 DEF Phase, Stopping
<1>8. Phase' = [Phase EXCEPT ![o] = "claimed"]
  <2>1. \A q \in Managed : Phase'[q] = IF q = o THEN "claimed" ELSE Phase[q]
    BY <1>3, <1>6 DEF Phase, IsTerminal
  <2>2. Phase' = [q \in Managed |-> Phase'[q]] /\ Phase = [q \in Managed |-> Phase[q]] BY DEF Phase
  <2> HIDE DEF Phase
  <2> QED BY <2>1, <2>2
<1>9. Stopping' = Stopping BY <1>6 DEF Stopping
<1>10. Executing' = Executing \cup {o}
  <2>1. Executing = {} BY <1>2 DEF Executing, ActiveRun
  <2>2. \A q \in Managed : ActiveRun(q)' <=> q = o BY <1>2 DEF ActiveRun, Busy, NewJob
  <2> QED BY <2>1, <2>2 DEF Executing
<1>11. BA!Claim(o) BY <1>7, <1>8, <1>9, <1>10 DEF BA!Claim, Phase, Stopping, Executing
<1> QED BY <1>11

LEMMA StopSeen ==
  ASSUME DispatchInv, NEW o \in Managed, Stop(o), Rests
  PROVE  BA!Stop(o)
<1>1. /\ log \in [Managed -> Log] /\ log' = [log EXCEPT ![o] = [@ EXCEPT !.bound = TRUE, !.stopped = TRUE]]
  BY DEF Stop, DispatchInv, DispatchTypeOK
<1> DEFINE row == [log[o] EXCEPT !.bound = TRUE, !.stopped = TRUE]
<1>2. row.claimed = log[o].claimed /\ row.stopped /\ row.terminal = log[o].terminal BY <1>1 DEF Log
<1>3. log' = [log EXCEPT ![o] = row] BY <1>1
<1> HIDE DEF row
<1>4. /\ log'[o].claimed = log[o].claimed /\ log'[o].stopped /\ log'[o].terminal = log[o].terminal
      /\ \A q \in Managed : q # o => log'[q] = log[q]
  BY <1>1, <1>2, <1>3
<1>5. \A q \in Managed : ActiveRun(q)' = ActiveRun(q) BY SameJobFields DEF Rests
<1>6. Phase' = Phase
  <2>1. \A q \in Managed : log'[q].claimed = log[q].claimed /\ log'[q].terminal = log[q].terminal BY <1>4
  <2> QED BY <2>1 DEF Phase, IsTerminal
<1>7. Stopping' = Stopping \cup {o} BY <1>4 DEF Stopping
<1>8. Executing' = Executing BY <1>5 DEF Executing
<1> QED BY <1>6, <1>7, <1>8 DEF BA!Stop, Phase, Stopping, Executing

LEMMA AnswerSeen ==
  ASSUME DispatchInv, AnswersOnce
  PROVE  \E o \in Managed, outcome \in BA!Outcomes \cup {"NOT_DISPATCHED"} : BA!Terminate(o, outcome)
<1>1. PICK o \in Managed : \E claimed, state : Answers(o, claimed, state) /\ ~UNCHANGED <<log, runs, order>>
  BY DEF AnswersOnce
<1>2. PICK claimed, state : Answers(o, claimed, state) /\ ~UNCHANGED <<log, runs, order>> BY <1>1
<1>3. PICK row \in Log : /\ ~IsTerminal(o) /\ log' = [log EXCEPT ![o] = row]
                         /\ row.claimed = log[o].claimed /\ row.stopped = log[o].stopped
                         /\ row.terminal = TruthOf(log[o].claimed, TheRun(o).state)
  BY <1>2, AnswersFirst
<1>4. ~ActiveRun(o) /\ Over(o) /\ UNCHANGED job /\ log \in [Managed -> Log]
  BY <1>2 DEF Answers, DispatchInv, DispatchTypeOK
<1> PICK outcome : outcome = TruthOf(log[o].claimed, TheRun(o).state) OBVIOUS
<1>5. /\ log[o].claimed => outcome \in BA!Outcomes
      /\ ~log[o].claimed => outcome = "NOT_DISPATCHED" /\ log[o].stopped
      /\ outcome # "none" /\ outcome \in BA!Outcomes \cup {"NOT_DISPATCHED"}
  BY <1>4 DEF TruthOf, BA!Outcomes, Over
<1>6. /\ log'[o].stopped = log[o].stopped /\ log'[o].terminal = outcome
      /\ \A q \in Managed : q # o => log'[q] = log[q]
  BY <1>3, <1>4
<1>7. Phase[o] = (IF log[o].claimed THEN "claimed" ELSE "open") /\ (log[o].stopped => o \in Stopping)
  BY <1>3 DEF Phase, Stopping
<1>8. Phase' = [Phase EXCEPT ![o] = outcome]
  <2>1. \A q \in Managed : Phase'[q] = IF q = o THEN outcome ELSE Phase[q]
    BY <1>5, <1>6 DEF Phase, IsTerminal
  <2>2. Phase' = [q \in Managed |-> Phase'[q]] /\ Phase = [q \in Managed |-> Phase[q]] BY DEF Phase
  <2> HIDE DEF Phase
  <2> QED BY <2>1, <2>2
<1>9. Stopping' = Stopping BY <1>6 DEF Stopping
<1>10. Executing' = Executing /\ o \notin Executing BY <1>4 DEF Executing, ActiveRun, Busy
<1>11. BA!Terminate(o, outcome)
  BY <1>5, <1>7, <1>8, <1>9, <1>10 DEF BA!Terminate, Phase, Stopping, Executing
<1> QED BY <1>5, <1>11

LEMMA StepsSeen ==
  ASSUME DispatchInv, [DispatchNext]_dispatchVars
  PROVE  [BA!Next]_(BA!attemptVars)
<1>1. CASE Advances
  <2>1. PICK pc \in Working, step \in {"first", "repair"}, run \in Run : Moves(pc, step, run) BY <1>1 DEF Advances
  <2>2. Busy /\ Busy' /\ job'.order = job.order /\ job'.n = job.n /\ log' = log BY <2>1, MovesWrites DEF Moves
  <2>3. \A o \in Managed : ActiveRun(o)' = ActiveRun(o) BY <2>2 DEF ActiveRun
  <2> QED BY <2>2, <2>3, UnseenSteps
<1>2. CASE Finishes
  <2>1. PICK state \in Closed, orderState \in OrderState : Ends(state, orderState) BY <1>2 DEF Finishes
  <2>2. Busy /\ job \in Job /\ log' = log BY <2>1, JobWorks DEF Ends
  <2>3. job' = NoJob \/ job' = [job EXCEPT !.pc = "closing"] BY <2>1 DEF Ends, Conclude
  <2>4. job' = NoJob => \A o \in Managed : ~ActiveRun(o)' BY DEF ActiveRun, Busy
  <2>5. ASSUME job' = [job EXCEPT !.pc = "closing"] PROVE \A o \in Managed : ActiveRun(o)' = ActiveRun(o)
    <3>1. job' \in Job /\ job'.order = job.order /\ job'.n = job.n BY <2>2, <2>5 DEF Job, Pcs
    <3> QED BY <2>2, <3>1, Sentinels DEF ActiveRun, Busy
  <2> QED BY <2>2, <2>3, <2>4, <2>5, UnseenSteps
<1>3. CASE Turns
  <2>1. \A o \in Managed : ~ActiveRun(o)' BY <1>3 DEF Turns, ActiveRun, Busy
  <2> QED BY <1>3, <2>1, UnseenSteps DEF Turns
<1>4. CASE AnswersOnce BY <1>4, AnswerSeen DEF BA!Next, Requests
<1>5. CASE Rests /\ \E o \in Managed : Stop(o) BY <1>5, StopSeen DEF BA!Next, Requests
<1>6. CASE Rests /\ UNCHANGED log
  <2>1. \A o \in Managed : ActiveRun(o)' = ActiveRun(o) BY <1>6, SameJobFields DEF Rests
  <2> QED BY <1>6, <2>1, UnseenSteps
<1>7. CASE Register /\ UNCHANGED <<log, authority, late, calls>>
  <2>1. job' = NoJob \/ job.order \notin Managed
    BY <1>7 DEF Register, DispatchInv, JobAt, At, Starting
  <2>2. job' = NoJob \/ job'.order = job.order
    BY <1>7 DEF Register, At, Busy, DispatchInv, DispatchTypeOK, JobTypeOK, Job
  <2>3. \A o \in Managed : ~ActiveRun(o)' BY <2>1, <2>2 DEF ActiveRun, Busy
  <2> QED BY <1>7, <2>3, UnseenSteps
<1>8. CASE \E c \in Dispatchers : Claim(c) BY <1>8, ClaimSeen DEF BA!Next, Requests
<1>9. CASE RestartSupervisor
  <2>1. log' = log /\ job' = NoJob BY <1>9 DEF RestartSupervisor, Restart
  <2>2. \A o \in Managed : ~ActiveRun(o)' BY <2>1 DEF ActiveRun, Busy
  <2> QED BY <2>1, <2>2, UnseenSteps
<1> QED BY <1>1, <1>2, <1>3, <1>4, <1>5, <1>6, <1>7, <1>8, <1>9, StepsAre DEF StepKinds

\* Every connection gets what BoundAttempt promises: an attempt is executed at most once however
\* often its dispatch is repeated, a stop before the claim keeps it from being executed, and a
\* terminal answer is final and given only when the execution has ended (dispatch-control.ts).
THEOREM BoundAttemptImplemented == DispatchSpec => ImplementsBoundAttempt
<1>1. DispatchInit => BA!Init
  <2> SUFFICES ASSUME DispatchInit PROVE BA!Init OBVIOUS
  <2>1. /\ job = NoJob /\ log = [o \in Managed |-> [bound |-> FALSE, claimed |-> FALSE, stopped |-> FALSE,
                                                   settled |-> FALSE, terminal |-> "none"]]
    BY DEF DispatchInit, Init
  <2>2. Phase = [o \in Managed |-> "open"] /\ Stopping = {} /\ Executing = {}
    BY <2>1 DEF Phase, Stopping, Executing, IsTerminal, ActiveRun, Busy
  <2> QED BY <2>2 DEF BA!Init, Phase, Stopping, Executing, Requests
<1>2. DispatchInv /\ [DispatchNext]_dispatchVars => [BA!Next]_(BA!attemptVars) BY StepsSeen
<1> QED BY <1>1, <1>2, DispatchInvHolds, PTL DEF DispatchSpec, ImplementsBoundAttempt, BA!Spec
=============================================================================
