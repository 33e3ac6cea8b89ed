------------------------------ MODULE Console ------------------------------
(***************************************************************************)
(* Input and output of the demo application, across its tasks: the shell   *)
(* (appl/shell/src/mshell.c), the network with a telnet server             *)
(* (prot/net/lwip/apps/test/src/lwip_test.c) and the system log            *)
(* (appl/xslog/src/xslog.c) share one pool of messages, from which         *)
(* std/src/io.c takes those for output and the server those for input.     *)
(*                                                                         *)
(* A task that prints puts its text in pieces, each in a message.  Queues  *)
(* and pools are those of BmosMessages, here with a whole call as a step.  *)
(***************************************************************************)
EXTENDS Naturals, Sequences, SequencesExt

CONSTANTS
  Count,      \* SYSPOOL_COUNT
  LogCount,   \* messages for log entries
  NULL,
  InputLen,   \* bytes of a message of input
  MaxPieces,  \* bound: pieces of a text
  MaxInput,   \* bound: messages of input, for each source
  MaxLog,     \* bound: log entries
  MaxConn     \* bound: connections

ASSUME ConsoleAssumption ==
  /\ Count \in Nat \ {0} /\ LogCount \in Nat \ {0}
  /\ InputLen \in Nat \ {0}
  /\ {MaxPieces, MaxInput, MaxLog, MaxConn} \subseteq Nat

Source == {"uart", "net"}
Printer == {"shell", "slog"}

VARIABLES
  pool,      \* free messages of syspool
  rxq,       \* shell_info.rxq: messages with source and length
  m, pos,    \* _xgetc: the message it reads, and how far
  outq,      \* io.c: where output goes, also shell_info.dest
  txq,       \* messages the UART has to send
  left,      \* for each printing task the pieces of its text to put
  oq,        \* _xputs: where the text goes
  held,      \* has it a message in its hands?
  reading,   \* "shell": the shell waits; "command": a command does, for a time
  net,       \* telnet_recv: bytes of a segment to put, and a message in hand
  pcb,       \* telnet_pcb: none, open, or freed by lwIP after a reset
  slogp, slogq, entry,  \* free log messages, those queued, the task has one
  missed,    \* missed_count
  halted,    \* lwIP was called without a connection
  inputs, logs, conns   \* history: how many there were

printing == <<left, oq, held>>
input == <<rxq, m, pos, outq, reading>>
network == <<net, pcb, conns>>
log == <<slogp, slogq, entry, missed, logs>>
vars == <<pool, input, txq, printing, network, log, halted, inputs>>

Init ==
  /\ pool = Count
  /\ rxq = <<>> /\ m = NULL /\ pos = 0 /\ outq = "uart" /\ reading = "shell"
  /\ txq = 0
  /\ left = [t \in Printer |-> 0] /\ oq = [t \in Printer |-> "uart"]
  /\ held = [t \in Printer |-> FALSE]
  /\ net = [left |-> 0, held |-> FALSE] /\ pcb = "none" /\ conns = 0
  /\ slogp = LogCount /\ slogq = 0 /\ entry = FALSE /\ missed = 0 /\ logs = 0
  /\ halted = FALSE
  /\ inputs = [s \in Source |-> 0]

-----------------------------------------------------------------------------
(* Output.                                                                 *)

(* The queue is looked up once for a text.                                 *)
xputs(t, n) ==
  /\ left' = [left EXCEPT ![t] = n]
  /\ oq' = [oq EXCEPT ![t] = outq']

TakeForOutput(t) ==
  /\ left[t] > 0 /\ ~held[t]
  /\ pool > 0
  /\ pool' = pool - 1
  /\ held' = [held EXCEPT ![t] = TRUE]
  /\ UNCHANGED <<input, txq, left, oq, network, log, halted, inputs>>

(* Mistake: without a connection the message is not returned.              *)
telnetPutLeaks ==
  /\ pool' = IF pcb = "open" THEN pool + 1 ELSE pool
  /\ UNCHANGED <<txq, halted>>

(* telnet_shell_put, called by the put itself: the message goes back to    *)
(* the pool, and lwIP is told to send, connection or not.                  *)
telnet_shell_put ==
  /\ pool' = pool + 1
  /\ halted' = (pcb # "open")
  /\ UNCHANGED txq

PutOutput(t) ==
  /\ held[t]
  /\ IF oq[t] = "net" THEN telnet_shell_put
     ELSE txq' = txq + 1 /\ UNCHANGED <<pool, halted>>
  /\ held' = [held EXCEPT ![t] = FALSE]
  /\ left' = [left EXCEPT ![t] = @ - 1]
  /\ UNCHANGED <<input, oq, network, log, inputs>>

UartSends ==
  /\ txq > 0
  /\ txq' = txq - 1
  /\ pool' = pool + 1
  /\ UNCHANGED <<input, printing, network, log, halted, inputs>>

-----------------------------------------------------------------------------
(* Input.                                                                  *)

Queue(s) == rxq' = Append(rxq, [op |-> s, len |-> InputLen])

(* The driver has messages of its own.                                     *)
UartReceives ==
  /\ inputs["uart"] < MaxInput
  /\ inputs' = [inputs EXCEPT !["uart"] = @ + 1]
  /\ Queue("uart")
  /\ UNCHANGED <<pool, m, pos, outq, reading, txq, printing, network, log, halted>>

(* A byte; a new message first turns all output to where it came from.     *)
_xgetc ==
  /\ m # NULL \/ rxq # <<>>
  /\ LET msg == IF m = NULL THEN Head(rxq) ELSE m
     IN  /\ outq' = msg.op
         /\ rxq' = IF m = NULL THEN Tail(rxq) ELSE rxq
         /\ IF pos + 1 >= msg.len
              THEN /\ m' = NULL /\ pos' = 0
                   /\ pool' = IF msg.op = "net" THEN pool + 1 ELSE pool
              ELSE m' = msg /\ pos' = pos + 1 /\ UNCHANGED pool

(* shell_input, in the shell's loop or in a command that looks for a key:  *)
(* something is printed or not, a command goes on or not.                  *)
ShellReads ==
  /\ left["shell"] = 0
  /\ _xgetc
  /\ \E n \in 0..MaxPieces : xputs("shell", n)
  /\ reading' \in {"shell", "command"}
  /\ UNCHANGED <<held, txq, network, log, halted, inputs>>

(* A command waits for a key for a time only, and prints again.            *)
CommandGoesOn ==
  /\ left["shell"] = 0
  /\ reading = "command" /\ m = NULL /\ rxq = <<>>
  /\ UNCHANGED <<rxq, m, pos, outq>>
  /\ \E n \in 1..MaxPieces : xputs("shell", n)
  /\ reading' \in {"shell", "command"}
  /\ UNCHANGED <<pool, held, txq, network, log, halted, inputs>>

-----------------------------------------------------------------------------
(* The network task.                                                       *)

telnet_accept ==
  /\ net.left = 0
  /\ pcb = "none" /\ conns < MaxConn
  /\ pcb' = "open" /\ conns' = conns + 1
  /\ UNCHANGED <<pool, input, txq, printing, net, log, halted, inputs>>

(* The peer closes, or resets: of a reset the server is not told.          *)
Disconnect ==
  /\ net.left = 0
  /\ pcb = "open"
  /\ pcb' \in {"none", "freed"}
  /\ UNCHANGED <<pool, input, txq, printing, net, conns, log, halted, inputs>>

(* telnet_recv of a segment, which fills one message or more.              *)
telnet_recv ==
  /\ net.left = 0
  /\ pcb = "open" /\ inputs["net"] < MaxInput
  /\ \E n \in 1..MaxPieces :
       /\ inputs["net"] + n <= MaxInput
       /\ inputs' = [inputs EXCEPT !["net"] = @ + n]
       /\ net' = [left |-> n, held |-> FALSE]
  /\ UNCHANGED <<pool, input, txq, printing, pcb, conns, log, halted>>

TakeForInput ==
  /\ net.left > 0 /\ ~net.held
  /\ pool > 0
  /\ pool' = pool - 1
  /\ net' = [net EXCEPT !.held = TRUE]
  /\ UNCHANGED <<input, txq, printing, pcb, conns, log, halted, inputs>>

PutInput ==
  /\ net.held
  /\ Queue("net")
  /\ net' = [left |-> net.left - 1, held |-> FALSE]
  /\ UNCHANGED <<pool, m, pos, outq, reading, txq, printing, pcb, conns, log,
                 halted, inputs>>

-----------------------------------------------------------------------------
(* The system log.                                                         *)

xvslog ==
  /\ logs < MaxLog
  /\ logs' = logs + 1
  /\ IF slogp = 0 THEN missed' = missed + 1 /\ UNCHANGED <<slogp, slogq>>
     ELSE slogp' = slogp - 1 /\ slogq' = slogq + 1 /\ UNCHANGED missed
  /\ UNCHANGED <<pool, input, txq, printing, network, entry, halted, inputs>>

(* slog_task prints an entry or not, by its priority.                      *)
SlogTakes ==
  /\ ~entry /\ slogq > 0
  /\ slogq' = slogq - 1 /\ entry' = TRUE
  /\ UNCHANGED outq
  /\ \E n \in 0..MaxPieces : xputs("slog", n)
  /\ UNCHANGED <<pool, rxq, m, pos, reading, held, txq, network, slogp, missed,
                 logs, halted, inputs>>

SlogReturns ==
  /\ entry /\ left["slog"] = 0
  /\ slogp' = slogp + 1 /\ entry' = FALSE
  /\ UNCHANGED <<pool, input, txq, printing, network, slogq, missed, logs,
                 halted, inputs>>

-----------------------------------------------------------------------------
World == UartReceives \/ telnet_accept \/ Disconnect \/ telnet_recv \/ xvslog

Next ==
  /\ ~halted
  /\ \/ World \/ UartSends \/ ShellReads \/ CommandGoesOn
     \/ \E t \in Printer : TakeForOutput(t) \/ PutOutput(t)
     \/ TakeForInput \/ PutInput \/ SlogTakes \/ SlogReturns

Spec == Init /\ [][Next]_vars

(* The UART sends, and every task gets the processor.  A pool wakes those  *)
(* who wait for its messages, so none waits while they come and go.        *)
FairSpec ==
  /\ Spec
  /\ WF_vars(~halted /\ UartSends) /\ WF_vars(~halted /\ ShellReads)
  /\ WF_vars(~halted /\ PutInput) /\ SF_vars(~halted /\ TakeForInput)
  /\ WF_vars(~halted /\ SlogTakes) /\ WF_vars(~halted /\ SlogReturns)
  /\ \A t \in Printer : /\ SF_vars(~halted /\ TakeForOutput(t))
                        /\ WF_vars(~halted /\ PutOutput(t))

-----------------------------------------------------------------------------
(* Properties.                                                             *)

(* Every message of the pool is input that the shell has not read to its   *)
(* end.                                                                    *)
AllUnread ==
  Count = Len(SelectSeq(rxq, LAMBDA msg : msg.op = "net"))
            + (IF m # NULL /\ m.op = "net" THEN 1 ELSE 0)

(* A text is printed to its end, whatever the other tasks do, unless the   *)
(* telnet client's input takes all messages while the shell prints, or     *)
(* output goes to a telnet client that is gone: without a network neither  *)
(* can happen (io.c:58-95, lwip_test.c:33-61 and 104-123).                 *)
OutputGoesOn ==
  \A t \in Printer : left[t] > 0 ~> left[t] = 0 \/ AllUnread \/ halted
=============================================================================
