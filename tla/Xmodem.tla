------------------------------- MODULE Xmodem -------------------------------
(***************************************************************************)
(* The receiver of a boot loader: the XMODEM state machines                *)
(* appl/xmodem/src/xmodem.c and xmodem_small.c, and their callback, which  *)
(* erases the application's flash and programs it (appl/prod/proto-boot,   *)
(* main.c and main_small.c).                                               *)
(*                                                                         *)
(* A byte is a pair of its kind and its value: a number below Mod, 256 in  *)
(* the code; a block of an image; the checksum of blocks, which is two     *)
(* bytes in the code; or garbled.                                          *)
(***************************************************************************)
EXTENDS Integers, Sequences, SequencesExt

CONSTANTS
  Mod,       \* packet numbers are modulo this
  Retries,   \* XMODEM_RETRIES
  Blocks,    \* bound: blocks of the application's flash
  Erased,    \* a block of flash after erasure
  NAK, CAN, C, ACK

ASSUME XmodemAssumption ==
  /\ Mod \in Nat /\ Mod > 6
  /\ Retries \in Nat \ {0}
  /\ Blocks \in Nat
  /\ NAK # CAN /\ NAK # C /\ NAK # ACK /\ CAN # C /\ CAN # ACK /\ C # ACK

Num(n) == <<"num", n % Mod>>
Data(b) == <<"data", b>>
crc(bytes) == <<"crc", bytes>>

SOH == Num(1)
STX == Num(2)
EOT == Num(4)

XMODEM_INIT_TIMEOUT == 2
XMODEM_TIMEOUT == 1

VARIABLES
  small,   \* xmodem_small.c is built, not xmodem.c
  d,       \* xmodem_data_t
  err,     \* what xmodem_data returned last: more than 0 while it goes on
  bd,      \* xmodem_bd_t: the blocks programmed in this transfer
  flash,   \* the application
  up       \* bytes put, on their way to the sender

receiver == <<small, d, err, bd, flash, up>>

Init ==
  /\ small \in BOOLEAN
  /\ d = [state |-> "INIT", timeout |-> 0, retries |-> 0, pktnum |-> 1,
          pktlen |-> 0, data |-> <<>>]
  /\ err = -1
  /\ bd = 0
  /\ flash = [b \in 1..Blocks |-> Erased]
  /\ up = <<>>

putc(bytes) == up' = up \o bytes

xmodem_start ==
  /\ d' = [state |-> "INIT", data |-> <<>>, pktnum |-> 1, pktlen |-> d.pktlen,
           timeout |-> IF small THEN 0 ELSE XMODEM_INIT_TIMEOUT,
           retries |-> IF small THEN 0 ELSE Retries]
  /\ err' = 1
  /\ putc(<<C>>)

goOn(next) == d' = next /\ err' = 1

(* Only the large version tells the sender.                                *)
abort(e, bytes) ==
  /\ err' = IF small THEN -1 ELSE e
  /\ putc(IF small THEN bytes ELSE Append(bytes, CAN))
  /\ UNCHANGED d

-----------------------------------------------------------------------------
(* xmodem_data without data: a second of silence.                          *)

askAgain ==
  /\ goOn([d EXCEPT !.state = "START", !.data = <<>>, !.timeout = 0,
                    !.retries = IF small THEN 0 ELSE @ - 1])
  /\ putc(<<NAK>>)

(* Mistake: it asks for ever.                                              *)
silenceAsks ==
  /\ d.state = "INIT"
  /\ goOn([d EXCEPT !.timeout = XMODEM_INIT_TIMEOUT])
  /\ putc(<<C>>)

silenceInit ==
  /\ d.state = "INIT"
  /\ IF small \/ d.retries = 1
       THEN abort(-2, IF small THEN <<>> ELSE <<C>>)
       ELSE /\ goOn([d EXCEPT !.timeout = XMODEM_INIT_TIMEOUT, !.retries = @ - 1])
            /\ putc(<<C>>)

(* xmodem.c: once it has asked again, it waits in silence for good.        *)
xmodem_silence ==
  /\ CASE ~small /\ d.timeout = 0 -> goOn(d) /\ UNCHANGED up
       [] ~small /\ d.timeout > 1 ->
            goOn([d EXCEPT !.timeout = @ - 1]) /\ UNCHANGED up
       [] OTHER ->
            \/ silenceInit
            \/ /\ d.state # "INIT"
               /\ IF ~small /\ d.retries = 1 THEN abort(-6, <<>>) ELSE askAgain
  /\ UNCHANGED <<bd, flash>>

-----------------------------------------------------------------------------
(* xmodem_data with a byte.                                                *)

(* Mistake: the area is erased before the very first block only.           *)
blockNoErase(bytes) ==
  /\ flash' = [b \in 1..Blocks |->
                 IF b - bd \in 1..Len(bytes)
                   THEN bytes[b - bd][2] ELSE flash[b]]
  /\ bd' = bd + Len(bytes)

(* The callback: the first block of a transfer erases the whole area.      *)
xmodem_block(bytes) ==
  LET area == IF bd = 0 THEN [b \in 1..Blocks |-> Erased] ELSE flash
  IN  /\ flash' = [b \in 1..Blocks |->
                     IF b - bd \in 1..Len(bytes)
                       THEN bytes[b - bd][2] ELSE area[b]]
      /\ bd' = bd + Len(bytes)

fresh == [d EXCEPT !.timeout = IF small THEN 0 ELSE XMODEM_TIMEOUT,
                   !.retries = IF small THEN 0 ELSE Retries]

(* A byte of data, or of a checksum, that is read where a packet should    *)
(* start can be anything, by its value.  What is behind it is then taken   *)
(* for a packet of a wrong number; had it the right one the checksum would *)
(* be wrong.                                                               *)
looksLike(c) == IF c[1] \in {"data", "crc"} THEN {c, EOT, SOH, STX} ELSE {c}

start(c) ==
  /\ d.state \in {"INIT", "START"}
  /\ \E b \in looksLike(c) :
       CASE b = EOT -> err' = 0 /\ putc(<<ACK>>) /\ UNCHANGED d
         [] b \in {SOH, STX} ->
              /\ goOn([fresh EXCEPT !.state = "PKTNUM_1",
                                    !.pktlen = IF b = SOH THEN 1 ELSE 2])
              /\ UNCHANGED up
         [] OTHER -> abort(-3, <<>>)
  /\ UNCHANGED <<bd, flash>>

(* Mistake: any packet number will do.                                     *)
pktnumAny(c) ==
  /\ d.state \in {"PKTNUM_1", "PKTNUM_2"}
  /\ goOn([fresh EXCEPT !.state = IF @ = "PKTNUM_1" THEN "PKTNUM_2" ELSE "DATA",
                        !.data = <<>>])
  /\ UNCHANGED <<up, bd, flash>>

(* The packet number and its complement.                                   *)
pktnum(c) ==
  /\ d.state \in {"PKTNUM_1", "PKTNUM_2"}
  /\ IF d.state = "PKTNUM_1"
       THEN IF c # Num(d.pktnum) THEN abort(-4, <<>>)
            ELSE goOn([fresh EXCEPT !.state = "PKTNUM_2"]) /\ UNCHANGED up
       ELSE IF c # Num(Mod - 1 - d.pktnum) THEN abort(-4, <<>>)
            ELSE /\ goOn([fresh EXCEPT !.state = "DATA", !.data = <<>>])
                 /\ UNCHANGED up
  /\ UNCHANGED <<bd, flash>>

(* Mistake: the checksum is not compared.                                  *)
dataUnchecked(c) ==
  /\ d.state = "DATA"
  /\ LET all == Append(d.data, c)
     IN  IF Len(all) <= d.pktlen
           THEN goOn([fresh EXCEPT !.data = all]) /\ UNCHANGED <<up, bd, flash>>
           ELSE /\ xmodem_block(Front(all))
                /\ goOn([fresh EXCEPT !.state = "START", !.data = <<>>,
                                      !.pktnum = (@ + 1) % Mod])
                /\ putc(<<ACK>>)

data(c) ==
  /\ d.state = "DATA"
  /\ LET all == Append(d.data, c)
     IN  CASE Len(all) <= d.pktlen ->
                goOn([fresh EXCEPT !.data = all]) /\ UNCHANGED <<up, bd, flash>>
           [] c = crc(Front(all)) ->
                /\ xmodem_block(Front(all))
                /\ goOn([fresh EXCEPT !.state = "START", !.data = <<>>,
                                      !.pktnum = (@ + 1) % Mod])
                /\ putc(<<ACK>>)
           [] OTHER -> abort(-5, <<>>) /\ UNCHANGED <<bd, flash>>

xmodem_byte(c) == start(c) \/ pktnum(c) \/ data(c)
=============================================================================
