------------------------------- MODULE Motor -------------------------------
(***************************************************************************)
(* The valve motor behind its H-bridge: the two GPIO pins, written one at  *)
(* a time by set_walvola, and the stroke of the valve, which moves as long *)
(* as the pins differ.  Walvola.tla takes a movement as two steps, its     *)
(* start and its end; this module is what happens in between.              *)
(*                                                                         *)
(*   LOW-LOW    motor off                                                  *)
(*   LOW-HIGH   motor spins clockwise: the valve opens                     *)
(*   HIGH-LOW   motor spins counter clockwise: the valve closes            *)
(*   HIGH-HIGH  not allowed                                                *)
(*                                                                         *)
(* `program' is what is left to execute of set_walvola or GPIO_init: pin   *)
(* writes and delays, as the functions issue them.                         *)
(***************************************************************************)
EXTENDS Naturals, Sequences

CONSTANTS
    Stroke,            \* ticks the motor needs from one end to the other
    WALVOLA_DELAY_ON,  \* ticks it is driven to open
    WALVOLA_DELAY_OFF  \* ticks it is driven to close

ASSUME MotorAssumption ==
    /\ Stroke \in Nat \ {0}
    /\ WALVOLA_DELAY_ON \in Nat /\ WALVOLA_DELAY_ON >= Stroke
    /\ WALVOLA_DELAY_OFF \in Nat /\ WALVOLA_DELAY_OFF >= Stroke

VARIABLES
    pin,       \* level of the pins GPIO_MOTOR_LEFT and GPIO_MOTOR_RIGHT
    program,   \* instructions left
    target,    \* the state being set ("NONE" when idle)
    position   \* of the valve: 0 closed, Stroke open

vars == <<pin, program, target, position>>

Write(p, level) == [op |-> "write", pin |-> p, level |-> level, ticks |-> 0]
Delay(n) == [op |-> "delay", pin |-> "", level |-> "LOW", ticks |-> n]

(* Mutant: compiled without WALVOLA_ROLE, nothing is written. *)
motor_off_Empty == <<>>

(* Every one of them pauses for delay(200), one tick here.                 *)
motor_off   == <<Write("left", "LOW"), Write("right", "LOW"), Delay(1)>>
motor_right == <<Write("left", "LOW"), Write("right", "HIGH"), Delay(1)>>
motor_left  == <<Write("left", "HIGH"), Write("right", "LOW"), Delay(1)>>
GPIO_init   == <<Write("right", "LOW"), Write("left", "LOW"), Delay(1)>>

(* Mutant: the motor is not stopped at the end. *)
set_walvola_KeepsOn(state) ==
    IF state = "ON"
    THEN motor_off \o motor_right \o <<Delay(WALVOLA_DELAY_ON)>>
    ELSE motor_off \o motor_left \o <<Delay(WALVOLA_DELAY_OFF)>>

(* Mutant: the motor is driven half the time to close. *)
set_walvola_HalfClose(state) ==
    IF state = "ON"
    THEN motor_off \o motor_right \o <<Delay(WALVOLA_DELAY_ON)>> \o motor_off
    ELSE motor_off \o motor_left \o <<Delay(WALVOLA_DELAY_OFF \div 2)>> \o motor_off

set_walvola(state) ==
    IF state = "ON"
    THEN motor_off \o motor_right \o <<Delay(WALVOLA_DELAY_ON)>> \o motor_off
    ELSE motor_off \o motor_left \o <<Delay(WALVOLA_DELAY_OFF)>> \o motor_off

Init ==
    /\ pin = [p \in {"left", "right"} |-> "LOW"]
    /\ program = GPIO_init
    /\ target = "NONE"
    /\ position \in 0 .. Stroke

-----------------------------------------------------------------------------
Idle == program = <<>>

Command ==
    /\ Idle
    /\ \E state \in {"ON", "OFF"} :
          target' = state /\ program' = set_walvola(state)
    /\ UNCHANGED <<pin, position>>

WritePin ==
    /\ ~Idle /\ Head(program).op = "write"
    /\ pin' = [pin EXCEPT ![Head(program).pin] = Head(program).level]
    /\ program' = Tail(program)
    /\ UNCHANGED <<target, position>>

(* Mutant: there is no end stop. *)
Moved_NoEndStop ==
    CASE pin["right"] = "HIGH" /\ pin["left"] = "LOW" -> position + 1
      [] pin["left"] = "HIGH" /\ pin["right"] = "LOW" /\ position > 0 -> position - 1
      [] OTHER -> position

(***************************************************************************)
(* The valve during one tick: the motor pushes until the end stop.         *)
(***************************************************************************)
Moved ==
    CASE pin["right"] = "HIGH" /\ pin["left"] = "LOW" ->
            IF position < Stroke THEN position + 1 ELSE position
      [] pin["left"] = "HIGH" /\ pin["right"] = "LOW" ->
            IF position > 0 THEN position - 1 ELSE position
      [] OTHER -> position

Tick ==
    /\ ~Idle /\ Head(program).op = "delay"
    /\ position' = Moved
    /\ program' = IF Head(program).ticks > 1
                  THEN <<Delay(Head(program).ticks - 1)>> \o Tail(program)
                  ELSE Tail(program)
    /\ UNCHANGED <<pin, target>>

(***************************************************************************)
(* Power fails and comes back: the pins are low, the valve stays where it  *)
(* is and setup() runs GPIO_init.                                          *)
(***************************************************************************)
Restart ==
    /\ pin' = [p \in {"left", "right"} |-> "LOW"]
    /\ program' = GPIO_init
    /\ target' = "NONE"
    /\ UNCHANGED position

Next == Command \/ WritePin \/ Tick \/ Restart

Spec == Init /\ [][Next]_vars
FairSpec == Spec /\ WF_vars(WritePin \/ Tick)
-----------------------------------------------------------------------------
Instruction == [op : {"write", "delay"}, pin : {"left", "right", ""},
                level : {"LOW", "HIGH"}, ticks : Nat]

TypeOK ==
    /\ pin \in [{"left", "right"} -> {"LOW", "HIGH"}]
    /\ program \in Seq(Instruction)
    /\ target \in {"ON", "OFF", "NONE"}
    /\ position \in 0 .. Stroke

(***************************************************************************)
(* "HIGH-HIGH: not allowed" (misc.cpp:86), not even between the two writes *)
(* of a change of direction.                                               *)
(***************************************************************************)
NeverBothHigh == ~(pin["left"] = "HIGH" /\ pin["right"] = "HIGH")

(***************************************************************************)
(* When set_walvola returns, the motor is off and the valve is at the end  *)
(* it was sent to, wherever an interrupted movement had left it.           *)
(***************************************************************************)
MovementCompletes ==
    Idle /\ target # "NONE" =>
        /\ pin["left"] = "LOW" /\ pin["right"] = "LOW"
        /\ position = IF target = "ON" THEN Stroke ELSE 0

(***************************************************************************)
(* The motor is never left running: it drains the batteries.               *)
(***************************************************************************)
MotorStops ==
    pin["left"] # pin["right"] ~> pin["left"] = "LOW" /\ pin["right"] = "LOW"
=============================================================================
