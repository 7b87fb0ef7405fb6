------------------------------- MODULE Startup -------------------------------
(***************************************************************************)
(* The machine from _start on together with its serial port: the port is   *)
(* initialised in boot_tty_init, and what startup64, mm_init, main and the *)
(* handlers print waits for it, a character for each message.  A handler   *)
(* prints in the middle of what the interrupted code was printing.         *)
(***************************************************************************)
EXTENDS KernelMain

CONSTANTS Bytes, MaxPolls     \* see SerialPort

ASSUME PortAssumption == Bytes \subseteq 0 .. 255 /\ MaxPolls \in Nat

VARIABLES
  there, regs, port_pc, exists, ch, polls, sent,   \* those of SerialPort
  said      \* the message of this step is out

Port == INSTANCE SerialPort WITH pc <- port_pc

port == <<there, regs, port_pc, exists, ch, polls, sent>>
all == <<vars, port, said>>

Printing == {"checks", "mm_init", "loop"} \cup Handlers

StartupInit == InitMain /\ Port!Init /\ said = FALSE

PortInit == /\ pc = "boot_tty_init"
            /\ Port!Outb \/ Port!Probe
            /\ UNCHANGED <<vars, said>>

Put == /\ pc \in Printing /\ ~said
       /\ \/ (\E c \in Bytes : Port!putchar(c)) /\ UNCHANGED said
          \/ Port!Wait /\ UNCHANGED said
          \/ Port!Send /\ said' = TRUE
       /\ UNCHANGED vars

GoOn == /\ pc = "boot_tty_init" => Port!Initialised
        /\ pc \in Printing => said
        /\ Work
        /\ said' = FALSE
        /\ UNCHANGED port

(* What was being printed is never finished.                                *)
Strike(v) == /\ Exception(v)
             /\ port_pc' = IF Port!Initialised THEN "idle" ELSE port_pc
             /\ said' = FALSE
             /\ UNCHANGED <<there, regs, exists, ch, polls, sent>>

Runs == PortInit \/ Put \/ GoOn

StartupNext == \/ Runs
               \/ Rest /\ UNCHANGED <<port, said>>
               \/ \E v \in Traps \cup {TRAP_NMI} : Strike(v)

(* Code that runs goes on.                                                  *)
StartupSpec == StartupInit /\ [][StartupNext]_all /\ WF_all(Runs)
-----------------------------------------------------------------------------
(* Properties.                                                              *)

(* The serial port is found if it is there, and its line is set up whatever *)
(* the firmware left, for good.                                             *)
LineSet == Port!LineSet

(* What the comments of boot_tty_serial_init and vga.h promise besides:     *)
(* "Set speed", "turn off DLAB latch", "Transmit buffer avail".             *)
SpeedSet == Port!SpeedSet
LatchOff == Port!LatchOff
SentWhenAvail == Port!SentWhenAvail
=============================================================================
