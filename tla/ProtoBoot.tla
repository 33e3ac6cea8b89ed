----------------------------- MODULE ProtoBoot -----------------------------
(***************************************************************************)
(* A boot loader that loads images by XMODEM, over a line that loses and   *)
(* garbles bytes: appl/prod/proto-boot/src/main.c, with a shell whose user *)
(* starts transfers, and main_small.c, which loads and boots in turn.      *)
(*                                                                         *)
(* The sender is any program that follows the protocol: it sends a packet  *)
(* again when asked to, or when nothing comes for longer than the second   *)
(* after which the receiver asks, and it stops when it is told so.         *)
(***************************************************************************)
EXTENDS Xmodem

CONSTANTS
  Image,       \* the images, sequences of blocks
  MaxStarts,   \* bound: transfers the receiver starts
  MaxSends,    \* bound: transfers the sender starts
  MaxFaults    \* bound: bytes lost or garbled, stalls, and late answers

(* The first block of an image holds its entry address.                    *)
ASSUME ProtoBootAssumption ==
  /\ 1 \in DOMAIN Image
  /\ \A i \in DOMAIN Image : Len(Image[i]) \in 1..Blocks /\ Image[i][1] # Erased

VARIABLES
  loop,     \* where the loader is: "shell", "transfer", "booted"
  down,     \* bytes on their way to the receiver
  snd,      \* the sender: its image, the packet it sent last, what it does
  starts, sends, faults,  \* history: how many there were
  mistaken  \* history: a byte inside a packet was taken for the end

vars == <<receiver, loop, down, snd, starts, sends, faults, mistaken>>

sender == <<down, snd, sends>>

PInit ==
  /\ Init
  /\ loop = "shell"
  /\ down = <<>>
  /\ snd = [img |-> 1, next |-> 1, num |-> 1, size |-> 0, phase |-> "off"]
  /\ starts = 0 /\ sends = 0 /\ faults = 0 /\ mistaken = FALSE

-----------------------------------------------------------------------------
(* The loader.                                                             *)

(* app_entry_valid: the first block holds the entry address.               *)
bootable(f) == f[1] # Erased

(* cmd_xmodem, for the large loader, or at once the next turn of           *)
(* xmodem_dl.  The command comes over the same line, behind all that was   *)
(* sent before, and is followed by two seconds of waiting (main.c:283): a  *)
(* sender that is waiting for C sends nothing, so the line is quiet.       *)
Start ==
  /\ loop = "shell"
  /\ ~small => down = <<>> /\ up = <<>>
  /\ starts < MaxStarts
  /\ xmodem_start
  /\ bd' = 0
  /\ loop' = "transfer"
  /\ starts' = starts + 1
  /\ UNCHANGED <<small, flash, sender, faults, mistaken>>

(* The end of the loop over xmodem_data.  main.c boots after success only, *)
(* main_small.c after any end.                                             *)
outcome ==
  loop' = IF err' > 0 THEN "transfer"
          ELSE IF (small \/ err' = 0) /\ bootable(flash') THEN "booted" ELSE "shell"

Receive ==
  /\ loop = "transfer"
  /\ down # <<>>
  /\ xmodem_byte(Head(down))
  /\ outcome
  /\ down' = Tail(down)
  /\ mistaken' = (mistaken \/ (err' = 0 /\ Head(down) # EOT))
  /\ UNCHANGED <<small, snd, starts, sends, faults>>

(* A second without a byte: the sender waits too, or it is late.           *)
Silence ==
  /\ loop = "transfer"
  /\ down = <<>>
  /\ up # <<>> => faults < MaxFaults
  /\ faults' = IF up # <<>> THEN faults + 1 ELSE faults
  /\ xmodem_silence
  /\ outcome
  /\ UNCHANGED <<small, sender, starts, mistaken>>

(* A second in the middle of a packet: the sender, or what carries its     *)
(* bytes, has stopped, and goes on later with the rest.                    *)
Stall ==
  /\ loop = "transfer"
  /\ down # <<>>
  /\ faults < MaxFaults
  /\ faults' = faults + 1
  /\ xmodem_silence
  /\ outcome
  /\ UNCHANGED <<small, sender, starts, mistaken>>

(* Bytes that come between transfers are input of the shell.               *)
ShellInput ==
  /\ loop # "transfer"
  /\ down # <<>>
  /\ down' = Tail(down)
  /\ UNCHANGED <<receiver, loop, snd, starts, sends, faults, mistaken>>

-----------------------------------------------------------------------------
(* The sender.                                                             *)

blocks == Image[snd.img]

packet(num, bytes) ==
  <<IF Len(bytes) = 1 THEN SOH ELSE STX, Num(num), Num(Mod - 1 - (num % Mod))>>
    \o bytes \o <<crc(bytes)>>

(* One block or two, or after the last one the end of the transfer.        *)
send(next, num) ==
  IF next > Len(blocks)
    THEN /\ down' = down \o <<EOT>>
         /\ snd' = [snd EXCEPT !.next = next, !.size = 0, !.phase = "waits"]
    ELSE \E size \in {1, 2} :
           /\ next + size - 1 <= Len(blocks)
           /\ down' = down \o packet(num, [i \in 1..size |-> Data(blocks[next + i - 1])])
           /\ snd' = [snd EXCEPT !.next = next, !.num = num, !.size = size,
                                 !.phase = "waits"]

unsent == UNCHANGED down

SendImage ==
  /\ snd.phase \in {"off", "done", "stopped"}
  /\ sends < MaxSends
  /\ sends' = sends + 1
  /\ \E i \in DOMAIN Image : 
       snd' = [img |-> i, next |-> 1, num |-> 1, size |-> 0, phase |-> "starts"]
  /\ unsent
  /\ UNCHANGED <<receiver, loop, starts, faults, mistaken>>

Reply(c) ==
  CASE c = C /\ snd.phase = "starts" -> send(1, 1)
    [] c = ACK /\ snd.phase = "waits" ->
         IF snd.next > Len(blocks) THEN snd' = [snd EXCEPT !.phase = "done"] /\ unsent
         ELSE send(snd.next + snd.size, snd.num + 1)
    [] c = NAK /\ snd.phase = "waits" -> send(snd.next, snd.num)
    [] c = CAN -> snd' = [snd EXCEPT !.phase = "stopped"] /\ unsent
    [] OTHER -> unsent /\ UNCHANGED snd

SenderReads ==
  /\ up # <<>>
  /\ up' = Tail(up)
  /\ IF snd.phase \in {"starts", "waits"} THEN Reply(Head(up)) ELSE unsent /\ UNCHANGED snd
  /\ UNCHANGED <<small, d, err, bd, flash, loop, starts, sends, faults, mistaken>>

SenderResends ==
  /\ snd.phase = "waits"
  /\ up = <<>> /\ down = <<>>
  /\ loop = "transfer" => ~small /\ d.timeout = 0
  /\ send(snd.next, snd.num)
  /\ UNCHANGED <<receiver, loop, starts, sends, faults, mistaken>>

-----------------------------------------------------------------------------
(* The line.                                                               *)

(* The checksum of a packet may be among them, or the beginning of one.     *)
LoseByte ==
  /\ faults < MaxFaults
  /\ faults' = faults + 1
  /\ down # <<>>
  /\ down' = Tail(down)
  /\ UNCHANGED <<receiver, loop, snd, starts, sends, mistaken>>

(* The end of a transfer is told eight times, and one of them arrives.     *)
LoseAnswer ==
  /\ faults < MaxFaults
  /\ faults' = faults + 1
  /\ up # <<>> /\ Head(up) # CAN
  /\ up' = Tail(up)
  /\ UNCHANGED <<small, d, err, bd, flash, loop, down, snd, starts, sends, mistaken>>

(* A garbled byte is none that the protocol has.                           *)
garbled == <<"garbled", <<>>>>

GarbleByte ==
  /\ faults < MaxFaults
  /\ faults' = faults + 1
  /\ down # <<>>
  /\ down' = <<garbled>> \o Tail(down)
  /\ UNCHANGED <<receiver, loop, snd, starts, sends, mistaken>>

Loader == Start \/ Receive \/ Silence \/ ShellInput
Sender == SenderReads \/ SenderResends

PNext == Loader \/ Sender \/ SendImage \/ Stall \/ LoseByte \/ LoseAnswer \/ GarbleByte

PSpec == PInit /\ [][PNext]_vars

(* The loader and the line never stop; the sender answers, and times out.  *)
FairSpec ==
  /\ PSpec
  /\ WF_vars(Receive) /\ WF_vars(Silence) /\ WF_vars(ShellInput)
  /\ WF_vars(SenderReads) /\ WF_vars(SenderResends)

-----------------------------------------------------------------------------
(* Properties.                                                             *)

Holds(f, i, n) ==
  \A b \in 1..Blocks : f[b] = IF b <= n THEN Image[i][b] ELSE Erased

Whole(f) == \E i \in DOMAIN Image : Holds(f, i, Len(Image[i]))

(* The flash holds the beginning of one image and nothing else, whatever   *)
(* came before: transfers cut short, packets sent twice, another image     *)
(* (main.c:167-183, xmodem.c:117-170).                                     *)
OneImage ==
  \E i \in DOMAIN Image : \E n \in 0..Len(Image[i]) : Holds(flash, i, n)

(* A transfer ends well only when the flash holds a whole image, with      *)
(* three exceptions, all of a byte read where a packet should start        *)
(* (xmodem.c:96-111).  It can be a byte of data or of a checksum, after a  *)
(* second of silence within a packet, after lost bytes, or for a small     *)
(* loader that gave up within a packet and starts anew.  It can be the     *)
(* number, or its complement, of a packet whose first byte was lost, the   *)
(* next one or the last sent again.  And it can be the end that the sender *)
(* of a small loader sends for a transfer in which nothing was loaded,     *)
(* because a byte of data had been acknowledged as the end before.         *)
EndsAtEnd ==
  [][loop = "transfer" /\ err' = 0 =>
       \/ Whole(flash')
       \/ Head(down)[1] # "num"
       \/ /\ faults > 0
          /\ \E n \in {d.pktnum, d.pktnum - 1} : EOT \in {Num(n), Num(Mod - 1 - n)}
       \/ small /\ mistaken /\ bd = 0
    ]_vars

(* A sender that saw its image acknowledged to the end: the flash holds    *)
(* that image, the whole of it, however many transfers came before         *)
(* (xmodem.c:144-170, main.c:167-183).  Except with a small loader that    *)
(* took a byte of data for the end: its ACK stands for a packet it never   *)
(* programmed.                                                             *)
DoneIsWhole ==
  snd.phase = "done" /\ ~(small /\ mistaken) => Holds(flash, snd.img, Len(blocks))

(* A transfer whose sender stays ends, however the line fails: one side    *)
(* asks again until it gets on, or one gives up.  Without a sender the     *)
(* receiver would wait for good once it has asked again (xmodem.c:61-86),  *)
(* and with an ACK too many, from a small loader that took a byte of data  *)
(* for the end, a sender can be done when its last byte is lost.           *)
TransferEnds ==
  loop = "transfer" ~>
    \/ loop # "transfer"
    \/ snd.phase \in {"starts", "stopped"}
    \/ small /\ mistaken
=============================================================================
