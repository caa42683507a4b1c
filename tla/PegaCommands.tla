---------------------------- MODULE PegaCommands ----------------------------
(***************************************************************************)
(* The two command paths of pega_misc, composed with its scheduler.  The   *)
(* diag listener (pega_misc_diag.c) and the debug listener (pega_debug.c)  *)
(* each receive messages, write them field by field into one global        *)
(* command structure and push its event; the schedule thread runs the      *)
(* event's handler, which reads the structure.  No lock guards the         *)
(* structures.  The diag path counts its outstanding commands in wCmdCnt.  *)
(*                                                                         *)
(* A command is an id and a value, standing for the structure's other      *)
(* fields.  Messages that change neither a structure nor the buffer (a     *)
(* debug message switch, an unknown id) are left out.                      *)
(***************************************************************************)
EXTENDS PegaSchedule, FiniteSets

CONSTANTS
  Diag, Debug,   \* the listeners
  Commands,      \* per listener, the <<id, value>> pairs a message may carry
  MaxReceived    \* bound: the messages each listener receives

schEVT_System_diag_Cmd_Execution == 200
schEVT_System_debug_info_Execution == 201

Listeners == {Diag, Debug}
EventOf(l) == IF l = Diag THEN schEVT_System_diag_Cmd_Execution
                          ELSE schEVT_System_debug_info_Execution

\* What a debug message makes its listener push directly is in Calls; so is what
\* main pushes.
ASSUME CommandsAssumption ==
  /\ Listeners \subseteq Pushers /\ Diag # Debug /\ Main \notin Listeners
  /\ \A l \in Listeners : <<EventOf(l), 1>> \in Calls[l]
  /\ Calls[Diag] = {<<EventOf(Diag), 1>>}
  /\ Commands \in [Listeners -> SUBSET (Nat \X Nat)]
  /\ MaxReceived \in [Listeners -> Nat]

\* The buffer has a slot for every event that is ever pushed, so that no push is
\* refused.  The program itself uses three; only debug messages that schedule
\* events by number can fill the other slots.
ASSUME EnoughSlots == IsFiniteSet(Codes) /\ Cardinality(Codes) < SCH_BUFF_MAX

ZeroCommand == <<0, 0>>

VARIABLES
  box,        \* m_stDiagCmd and m_eDebugCmd
  wCmdCnt,    \* the diag commands counted as outstanding
  lpc, msg, lcnt, received,   \* per listener: point, message, loaded count, bound
  epc, eid, ecnt,             \* handler: point, loaded id, loaded count
  done        \* per listener: the command last executed

listenVars == <<lpc, msg, lcnt, received>>
execVars == <<epc, eid, ecnt, done>>
commandVars == <<box, wCmdCnt, listenVars, execVars>>
allVars == <<vars, commandVars>>

CommandInit ==
  /\ Init
  /\ box = [l \in Listeners |-> ZeroCommand]
  /\ wCmdCnt = 0
  /\ lpc = [l \in Listeners |-> "wait"]
  /\ msg = [l \in Listeners |-> ZeroCommand]
  /\ lcnt = 0
  /\ received = [l \in Listeners |-> 0]
  /\ epc = "id" /\ eid = 0 /\ ecnt = 0
  /\ done = [l \in Listeners |-> ZeroCommand]

-----------------------------------------------------------------------------
(* Pega_diag_commands_processer and Pega_debug_commands_processer.         *)

ListenGoto(l, from, to) == lpc[l] = from /\ lpc' = [lpc EXCEPT ![l] = to]

Receive(l) ==
  /\ received[l] < MaxReceived[l]
  /\ ListenGoto(l, "wait", IF l = Diag THEN "check" ELSE "id")
  /\ \E c \in Commands[l] : msg' = [msg EXCEPT ![l] = c]
  /\ received' = [received EXCEPT ![l] = @ + 1]
  /\ UNCHANGED <<vars, box, wCmdCnt, lcnt, execVars>>

\* "Diag cmd is not processing finished!"
Warn ==
  /\ wCmdCnt > 0
  /\ ListenGoto(Diag, "check", "warned")
  /\ UNCHANGED <<vars, box, wCmdCnt, msg, lcnt, received, execVars>>

NoWarning ==
  /\ wCmdCnt <= 0
  /\ ListenGoto(Diag, "check", "id")
  /\ UNCHANGED <<vars, box, wCmdCnt, msg, lcnt, received, execVars>>

WriteId(l) ==
  /\ lpc[l] \in {"warned", "id"} /\ lpc' = [lpc EXCEPT ![l] = "value"]
  /\ box' = [box EXCEPT ![l] = <<msg[l][1], @[2]>>]
  /\ UNCHANGED <<vars, wCmdCnt, msg, lcnt, received, execVars>>

WriteValue(l) ==
  /\ ListenGoto(l, "value", IF l = Diag THEN "load" ELSE "push")
  /\ box' = [box EXCEPT ![l] = <<@[1], msg[l][2]>>]
  /\ UNCHANGED <<vars, wCmdCnt, msg, lcnt, received, execVars>>

\* wCmdCnt++: a load and a store, against the handler's.
CountLoad ==
  /\ ListenGoto(Diag, "load", "store")
  /\ lcnt' = wCmdCnt
  /\ UNCHANGED <<vars, box, wCmdCnt, msg, received, execVars>>

CountStore ==
  /\ ListenGoto(Diag, "store", "push")
  /\ wCmdCnt' = lcnt + 1 /\ lcnt' = 0
  /\ UNCHANGED <<vars, box, msg, received, execVars>>

\* Slip: a counted command is taken for a sign that the event is armed.
PushCommandUnlessCounted(l) ==
  /\ ListenGoto(l, "push", "pushing")
  /\ IF l = Diag /\ wCmdCnt > 1 THEN UNCHANGED vars ELSE Push(l, EventOf(l), 1)
  /\ UNCHANGED <<box, wCmdCnt, msg, lcnt, received, execVars>>

PushCommand(l) ==
  /\ ListenGoto(l, "push", "pushing")
  /\ Push(l, EventOf(l), 1)
  /\ UNCHANGED <<box, wCmdCnt, msg, lcnt, received, execVars>>

\* push has returned; its result is not looked at.
Pushed(l) ==
  /\ ppc[l] = "idle"
  /\ ListenGoto(l, "pushing", "wait")
  /\ UNCHANGED <<vars, box, wCmdCnt, msg, lcnt, received, execVars>>

\* Debug_CmdId_Schedule_Event: any event, without a command.
PushEventOnly(c) ==
  /\ received[Debug] < MaxReceived[Debug]
  /\ ListenGoto(Debug, "wait", "pushing")
  /\ received' = [received EXCEPT ![Debug] = @ + 1]
  /\ Push(Debug, c[1], c[2])
  /\ UNCHANGED <<box, wCmdCnt, msg, lcnt, execVars>>

Listen ==
  \/ \E l \in Listeners : WriteId(l) \/ WriteValue(l) \/ PushCommand(l) \/ Pushed(l)
  \/ Warn \/ NoWarning \/ CountLoad \/ CountStore

-----------------------------------------------------------------------------
(* Pega_diag_msgq_Cmd_Execution and Pega_debug_schedule_command.           *)

Executing(l) == tpc = "run" /\ tmsg = EventOf(l)
ExecGoto(from, to) == epc = from /\ epc' = to

ExecId(l) ==
  /\ Executing(l) /\ ExecGoto("id", "value")
  /\ eid' = box[l][1]
  /\ UNCHANGED <<vars, box, wCmdCnt, listenVars, ecnt, done>>

\* The value is read when the branch of the id has been entered.
ExecValue(l) ==
  /\ Executing(l) /\ ExecGoto("value", IF l = Diag THEN "count" ELSE "end")
  /\ done' = [done EXCEPT ![l] = <<eid, box[l][2]>>]
  /\ eid' = 0
  /\ UNCHANGED <<vars, box, wCmdCnt, listenVars, ecnt>>

ExecCounted ==
  /\ wCmdCnt <= 0
  /\ Executing(Diag) /\ ExecGoto("count", "end")
  /\ UNCHANGED <<vars, box, wCmdCnt, listenVars, eid, ecnt, done>>

\* Slip: the count is decremented without the test.
ExecLoadUntested ==
  /\ Executing(Diag) /\ ExecGoto("count", "store")
  /\ ecnt' = wCmdCnt
  /\ UNCHANGED <<vars, box, wCmdCnt, listenVars, eid, done>>

ExecLoad ==
  /\ wCmdCnt > 0
  /\ Executing(Diag) /\ ExecGoto("count", "store")
  /\ ecnt' = wCmdCnt
  /\ UNCHANGED <<vars, box, wCmdCnt, listenVars, eid, done>>

ExecStore ==
  /\ Executing(Diag) /\ ExecGoto("store", "end")
  /\ wCmdCnt' = ecnt - 1 /\ ecnt' = 0
  /\ UNCHANGED <<vars, box, listenVars, eid, done>>

\* The handler returns to the schedule thread; the other events' handlers do
\* nothing here.
ExecReturn ==
  /\ epc = IF tmsg \in {EventOf(l) : l \in Listeners} THEN "end" ELSE "id"
  /\ epc' = "id"
  /\ TickReturn
  /\ UNCHANGED <<box, wCmdCnt, listenVars, eid, ecnt, done>>

Exec ==
  \/ \E l \in Listeners : ExecId(l) \/ ExecValue(l)
  \/ ExecCounted \/ ExecLoad \/ ExecStore \/ ExecReturn

-----------------------------------------------------------------------------
Scheduling ==
  /\ \/ \E p \in Pushers \ Listeners, c \in UNION {Calls[q] : q \in Pushers} :
          c \in Calls[p] /\ Push(p, c[1], c[2])
     \/ \E p \in Pushers : PushStep(p)
     \/ TickStep
  /\ UNCHANGED commandVars

CommandNext ==
  \/ \E l \in Listeners : Receive(l)
  \/ \E c \in Calls[Debug] : PushEventOnly(c)
  \/ Listen \/ Exec \/ Scheduling

CommandSpec == CommandInit /\ [][CommandNext]_allVars

\* As in PegaSchedule: every thread runs on, waiting only for the mutex, which
\* is not withheld from one of them forever.  Nobody need send a message.
CommandFairness ==
  /\ \A l \in Listeners :
       WF_allVars(WriteId(l) \/ WriteValue(l) \/ PushCommand(l) \/ Pushed(l))
  /\ WF_allVars(Warn \/ NoWarning \/ CountLoad \/ CountStore)
  /\ WF_allVars(Exec)
  /\ \A p \in Pushers :
       /\ WF_allVars(PushStep(p) /\ UNCHANGED commandVars)
       /\ SF_allVars(PushLock(p) /\ UNCHANGED commandVars)
  /\ WF_allVars(TickStep /\ UNCHANGED commandVars)
  /\ SF_allVars(TickLock /\ UNCHANGED commandVars)

CommandFairSpec == CommandSpec /\ CommandFairness

-----------------------------------------------------------------------------
CommandTypeOK ==
  /\ TypeOK
  /\ box \in [Listeners -> Nat \X Nat] /\ done \in [Listeners -> Nat \X Nat]
  /\ msg \in [Listeners -> Nat \X Nat]
  /\ lpc \in [Listeners -> {"wait", "check", "warned", "id", "value", "load", "store",
                            "push", "pushing"}]
  /\ received \in [Listeners -> Nat]
  /\ \A l \in Listeners : received[l] <= MaxReceived[l]
  /\ epc \in {"id", "value", "count", "store", "end"}
  /\ eid \in Nat
  /\ wCmdCnt \in 0..MaxReceived[Diag] /\ lcnt \in Nat /\ ecnt \in Nat

\* An execution that will see the whole of the present structure.
Due(l) ==
  \/ EventOf(l) \in Armed
  \/ Running = EventOf(l) /\ (epc = "id" \/ (epc = "value" /\ eid = box[l][1]))

\* The structures are overwritten while they may be read, and a push of an
\* event that is being taken from the buffer arms nothing; yet once a listener
\* waits for its next message, its last command was executed as it was sent, or
\* an execution that reads it is still to come.
NoLostCommand ==
  \A l \in Listeners : lpc[l] = "wait" => done[l] = box[l] \/ Due(l)

\* The last command of each listener is executed, whole, in the end.
LastCommandRuns ==
  \A l \in Listeners : <>[](lpc[l] = "wait" /\ done[l] = box[l] /\ ~Due(l))

\* pega_misc_diag.c:54 reports that the previous command "is not processing
\* finished": so its execution is armed, or running.
WarningIsTrue ==
  [][Warn => EventOf(Diag) \in Armed \/ Running = EventOf(Diag)]_allVars
=============================================================================
