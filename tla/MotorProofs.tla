---------------------------- MODULE MotorProofs ----------------------------
(***************************************************************************)
(* Proofs about Motor.tla, for every stroke and for every pair of times    *)
(* that are long enough for it.                                            *)
(***************************************************************************)
EXTENDS Motor, SequenceTheorems, TLAPS

USE MotorAssumption DEF MotorAssumption

-----------------------------------------------------------------------------
(* The programs *)

(***************************************************************************)
(* The program of a target, instruction by instruction: set_walvola, or    *)
(* GPIO_init before the first command.                                     *)
(***************************************************************************)
Size(state) == IF state = "NONE" THEN 3 ELSE 10

Instr(state, i) ==
    IF state = "NONE"
    THEN IF i = 1 THEN Write("right", "LOW")
         ELSE IF i = 2 THEN Write("left", "LOW") ELSE Delay(1)
    ELSE IF i \in {1, 8} THEN Write("left", "LOW")
    ELSE IF i \in {2, 9} THEN Write("right", "LOW")
    ELSE IF i = 4 THEN Write("left", IF state = "ON" THEN "LOW" ELSE "HIGH")
    ELSE IF i = 5 THEN Write("right", IF state = "ON" THEN "HIGH" ELSE "LOW")
    ELSE IF i = 7
    THEN Delay(IF state = "ON" THEN WALVOLA_DELAY_ON ELSE WALVOLA_DELAY_OFF)
    ELSE Delay(1)

Executed == Size(target) - Len(program)

(***************************************************************************)
(* What is left is the end of the program; its first delay may have begun. *)
(***************************************************************************)
OnProgram ==
    /\ Executed \in Nat
    /\ \A i \in 1 .. Len(program) :
          LET w == Instr(target, Executed + i)
          IN  /\ program[i].op = w.op
              /\ program[i].pin = w.pin
              /\ program[i].level = w.level
              /\ i > 1 => program[i].ticks = w.ticks
              /\ program[i].ticks <= w.ticks
              /\ w.op = "delay" => program[i].ticks >= 1

(***************************************************************************)
(* Which pin is high when.                                                 *)
(***************************************************************************)
PinsOnProgram ==
    /\ pin["right"] = "HIGH" <=> target = "ON" /\ Executed \in 5 .. 8
    /\ pin["left"] = "HIGH" <=> target = "OFF" /\ Executed \in 4 .. 7

(***************************************************************************)
(* While the motor travels the time left is enough for the way left; then  *)
(* the valve is at its end.                                                *)
(***************************************************************************)
OnItsWay ==
    /\ target = "ON" =>
          /\ Executed = 6 => position + program[1].ticks >= Stroke
          /\ Executed >= 7 => position = Stroke
    /\ target = "OFF" =>
          /\ Executed = 6 => position <= program[1].ticks
          /\ Executed >= 7 => position = 0

MotorInv == TypeOK /\ OnProgram /\ PinsOnProgram /\ OnItsWay
-----------------------------------------------------------------------------
LEMMA InstructionTypes ==
    /\ \A p \in {"left", "right"}, level \in {"LOW", "HIGH"} :
          Write(p, level) \in Instruction
    /\ \A n \in Nat : Delay(n) \in Instruction
BY DEF Write, Delay, Instruction

LEMMA Pulse ==
    ASSUME NEW a \in Instruction, NEW b \in Instruction, NEW c \in Instruction
    PROVE  /\ <<a, b, c>> \in Seq(Instruction)
           /\ Len(<<a, b, c>>) = 3
           /\ <<a, b, c>>[1] = a /\ <<a, b, c>>[2] = b /\ <<a, b, c>>[3] = c
OBVIOUS

(***************************************************************************)
(* GPIO_init and set_walvola issue the instructions of Instr.              *)
(***************************************************************************)
LEMMA InitProgram ==
    /\ GPIO_init \in Seq(Instruction)
    /\ Len(GPIO_init) = Size("NONE")
    /\ \A i \in 1 .. 3 : GPIO_init[i] = Instr("NONE", i)
<1>1. /\ Write("right", "LOW") \in Instruction
      /\ Write("left", "LOW") \in Instruction
      /\ Delay(1) \in Instruction
  BY InstructionTypes
<1>2. /\ Instr("NONE", 1) = Write("right", "LOW")
      /\ Instr("NONE", 2) = Write("left", "LOW")
      /\ Instr("NONE", 3) = Delay(1)
  BY DEF Instr
<1>3. \A i \in 1 .. 3 : i = 1 \/ i = 2 \/ i = 3
  OBVIOUS
<1>. QED BY <1>1, <1>2, <1>3, Pulse DEF GPIO_init, Size

LEMMA MovementProgram ==
    ASSUME NEW state \in {"ON", "OFF"}
    PROVE  /\ set_walvola(state) \in Seq(Instruction)
           /\ Len(set_walvola(state)) = Size(state)
           /\ \A i \in 1 .. 10 : set_walvola(state)[i] = Instr(state, i)
<1> DEFINE on == state = "ON"
           pulse == IF on THEN motor_right ELSE motor_left
           travel == Delay(IF on THEN WALVOLA_DELAY_ON ELSE WALVOLA_DELAY_OFF)
           p6 == motor_off \o pulse
           p7 == p6 \o <<travel>>
           whole == p7 \o motor_off
<1>1. set_walvola(state) = whole
  BY DEF set_walvola
<1>2. /\ motor_off \in Seq(Instruction) /\ Len(motor_off) = 3
      /\ motor_off[1] = Write("left", "LOW")
      /\ motor_off[2] = Write("right", "LOW")
      /\ motor_off[3] = Delay(1)
  BY InstructionTypes, Pulse DEF motor_off
<1>3. /\ pulse \in Seq(Instruction) /\ Len(pulse) = 3
      /\ pulse[1] = Write("left", IF on THEN "LOW" ELSE "HIGH")
      /\ pulse[2] = Write("right", IF on THEN "HIGH" ELSE "LOW")
      /\ pulse[3] = Delay(1)
  BY InstructionTypes, Pulse DEF motor_right, motor_left
<1>4. /\ <<travel>> \in Seq(Instruction) /\ Len(<<travel>>) = 1
      /\ <<travel>>[1] = travel
  <2>1. travel \in Instruction
    BY InstructionTypes
  <2>. HIDE DEF travel
  <2>. QED BY <2>1
<1>. HIDE DEF pulse, travel
<1>5. /\ p6 \in Seq(Instruction) /\ Len(p6) = 6
      /\ \A i \in 1 .. 6 : p6[i] = IF i <= 3 THEN motor_off[i] ELSE pulse[i - 3]
  <2>1. /\ motor_off \o pulse \in Seq(Instruction)
        /\ Len(motor_off \o pulse) = Len(motor_off) + Len(pulse)
        /\ \A i \in 1 .. Len(motor_off) + Len(pulse) :
              (motor_off \o pulse)[i] = IF i <= Len(motor_off) THEN motor_off[i]
                                       ELSE pulse[i - Len(motor_off)]
    BY <1>2, <1>3, ConcatProperties
  <2>2. Len(motor_off) + Len(pulse) = 6
    BY <1>2, <1>3
  <2>. QED BY <1>2, <1>3, <2>1, <2>2
<1>. HIDE DEF p6
<1>6. /\ p7 \in Seq(Instruction) /\ Len(p7) = 7
      /\ \A i \in 1 .. 7 : p7[i] = IF i <= 6 THEN p6[i] ELSE <<travel>>[i - 6]
  <2>1. /\ p6 \o <<travel>> \in Seq(Instruction)
        /\ Len(p6 \o <<travel>>) = Len(p6) + Len(<<travel>>)
        /\ \A i \in 1 .. Len(p6) + Len(<<travel>>) :
              (p6 \o <<travel>>)[i] = IF i <= Len(p6) THEN p6[i]
                                       ELSE <<travel>>[i - Len(p6)]
    BY <1>4, <1>5, ConcatProperties
  <2>2. Len(p6) + Len(<<travel>>) = 7
    BY <1>4, <1>5
  <2>. QED BY <1>4, <1>5, <2>1, <2>2
<1>. HIDE DEF p7
<1>7. /\ whole \in Seq(Instruction) /\ Len(whole) = 10
      /\ \A i \in 1 .. 10 : whole[i] = IF i <= 7 THEN p7[i] ELSE motor_off[i - 7]
  <2>1. /\ p7 \o motor_off \in Seq(Instruction)
        /\ Len(p7 \o motor_off) = Len(p7) + Len(motor_off)
        /\ \A i \in 1 .. Len(p7) + Len(motor_off) :
              (p7 \o motor_off)[i] = IF i <= Len(p7) THEN p7[i]
                                       ELSE motor_off[i - Len(p7)]
    BY <1>2, <1>6, ConcatProperties
  <2>2. Len(p7) + Len(motor_off) = 10
    BY <1>2, <1>6
  <2>. QED BY <1>2, <1>6, <2>1, <2>2
<1>. HIDE DEF whole
<1>8. /\ whole[1] = Write("left", "LOW") /\ whole[2] = Write("right", "LOW")
      /\ whole[3] = Delay(1)
      /\ whole[4] = Write("left", IF on THEN "LOW" ELSE "HIGH")
      /\ whole[5] = Write("right", IF on THEN "HIGH" ELSE "LOW")
      /\ whole[6] = Delay(1) /\ whole[7] = travel
      /\ whole[8] = Write("left", "LOW") /\ whole[9] = Write("right", "LOW")
      /\ whole[10] = Delay(1)
  BY <1>2, <1>3, <1>4, <1>5, <1>6, <1>7
<1>9. /\ Instr(state, 1) = Write("left", "LOW")
      /\ Instr(state, 2) = Write("right", "LOW")
      /\ Instr(state, 3) = Delay(1)
      /\ Instr(state, 4) = Write("left", IF on THEN "LOW" ELSE "HIGH")
      /\ Instr(state, 5) = Write("right", IF on THEN "HIGH" ELSE "LOW")
      /\ Instr(state, 6) = Delay(1) /\ Instr(state, 7) = travel
      /\ Instr(state, 8) = Write("left", "LOW")
      /\ Instr(state, 9) = Write("right", "LOW")
      /\ Instr(state, 10) = Delay(1)
  BY DEF Instr, travel
<1>10. \A i \in 1 .. 10 : whole[i] = Instr(state, i)
  <2>1. \A i \in 1 .. 10 : \/ i = 1 \/ i = 2 \/ i = 3 \/ i = 4 \/ i = 5
                          \/ i = 6 \/ i = 7 \/ i = 8 \/ i = 9 \/ i = 10
    OBVIOUS
  <2>. HIDE DEF on
  <2>. QED BY <1>8, <1>9, <2>1
<1>. QED BY <1>1, <1>7, <1>10 DEF Size

(***************************************************************************)
(* Which instruction writes what, and which are delays.                    *)
(***************************************************************************)
LEMMA Writes ==
    ASSUME NEW state \in {"ON", "OFF", "NONE"}, NEW i \in 1 .. Size(state),
           Instr(state, i).op = "write"
    PROVE  LET w == Instr(state, i) IN
           /\ w.pin \in {"left", "right"} /\ w.level \in {"LOW", "HIGH"}
           /\ w.level = "HIGH"
                 <=> (state = "ON" /\ i = 5) \/ (state = "OFF" /\ i = 4)
           /\ state # "NONE" => (w.pin = "left" <=> i \in {1, 4, 8})
           /\ state # "NONE" => (w.pin = "right" <=> i \in {2, 5, 9})
BY DEF Size, Instr, Write, Delay

LEMMA Delays ==
    ASSUME NEW state \in {"ON", "OFF", "NONE"}, NEW i \in 1 .. Size(state),
           Instr(state, i).op = "delay"
    PROVE  /\ Instr(state, i).ticks \in Nat \ {0}
           /\ state # "NONE" => i \in {3, 6, 7, 10}
           /\ state = "ON" /\ i = 7 => Instr(state, i).ticks >= Stroke
           /\ state = "OFF" /\ i = 7 => Instr(state, i).ticks >= Stroke
           /\ ~(state # "NONE" /\ i = 7) => Instr(state, i).ticks = 1
BY DEF Size, Instr, Write, Delay

-----------------------------------------------------------------------------
(* Every step keeps the invariant *)

(***************************************************************************)
(* A program that begins, with the motor off.                              *)
(***************************************************************************)
LEMMA Begins ==
    ASSUME NEW state \in {"ON", "OFF", "NONE"},
           NEW p \in Seq(Instruction), Len(p) = Size(state),
           \A i \in 1 .. Size(state) : p[i] = Instr(state, i),
           target' = state, program' = p,
           pin' = [x \in {"left", "right"} |-> "LOW"],
           position' \in 0 .. Stroke
    PROVE  MotorInv'
<1>1. TypeOK'
  BY DEF TypeOK
<1>2. Executed' = 0
  BY DEF Executed, Size
<1>3. OnProgram'
  <2>1. ASSUME NEW i \in 1 .. Size(state)
        PROVE  /\ p[i].ticks <= Instr(state, i).ticks
               /\ Instr(state, i).op = "delay" => p[i].ticks >= 1
    <3>1. p[i] \in Instruction /\ i \in 1 .. Len(p)
      BY ElementOfSeq
    <3>2. p[i] = Instr(state, i) /\ p[i].ticks \in Nat
      BY <3>1 DEF Instruction
    <3>. QED BY <3>2, Delays
  <2>2. \A i \in 1 .. Size(state) : (Executed + i)' = i
    BY <1>2 DEF Size
  <2>. QED BY <1>2, <2>1, <2>2 DEF OnProgram
<1>4. PinsOnProgram'
  BY <1>2 DEF PinsOnProgram
<1>5. OnItsWay'
  BY <1>2 DEF OnItsWay
<1>. QED BY <1>1, <1>3, <1>4, <1>5 DEF MotorInv

LEMMA MotorInit == Init => MotorInv
<1> SUFFICES ASSUME Init PROVE MotorInv
  OBVIOUS
<1>1. program \in Seq(Instruction) /\ Len(program) = 3
  BY InitProgram DEF Init, Size
<1>2. TypeOK
  BY <1>1 DEF Init, TypeOK
<1>3. Executed = 0
  BY <1>1 DEF Init, Executed, Size
<1>4. OnProgram
  <2>1. \A i \in 1 .. 3 : program[i] = Instr("NONE", i)
    BY InitProgram DEF Init
  <2>2. ASSUME NEW i \in 1 .. 3
        PROVE  /\ program[i].ticks <= Instr("NONE", i).ticks
               /\ Instr("NONE", i).op = "delay" => program[i].ticks >= 1
    <3>1. program[i] \in Instruction /\ i \in 1 .. Size("NONE")
      BY <1>1, ElementOfSeq DEF Size
    <3>2. program[i] = Instr("NONE", i) /\ program[i].ticks \in Nat
      BY <2>1, <3>1 DEF Instruction
    <3>. QED BY <3>1, <3>2, Delays
  <2>3. \A i \in 1 .. 3 : Executed + i = i
    BY <1>3
  <2>. QED BY <1>1, <1>3, <2>1, <2>2, <2>3 DEF OnProgram, Init
<1>5. PinsOnProgram
  BY <1>3 DEF PinsOnProgram, Init
<1>6. OnItsWay
  BY <1>3 DEF OnItsWay, Init
<1>. QED BY <1>2, <1>4, <1>5, <1>6 DEF MotorInv

(***************************************************************************)
(* When nothing is left to execute, both pins are low.                     *)
(***************************************************************************)
LEMMA IdleIsOff ==
    ASSUME MotorInv, Idle
    PROVE  pin = [x \in {"left", "right"} |-> "LOW"]
<1>1. Len(program) = 0
  BY EmptySeq DEF Idle
<1>2. Executed \in {3, 10}
  BY <1>1 DEF Executed, Size
<1>3. pin["left"] # "HIGH" /\ pin["right"] # "HIGH"
  BY <1>1, <1>2 DEF MotorInv, PinsOnProgram, Executed, Size
<1>. QED BY <1>3 DEF MotorInv, TypeOK

LEMMA CommandStep == MotorInv /\ Command => MotorInv'
<1> SUFFICES ASSUME MotorInv, NEW state \in {"ON", "OFF"}, Idle,
                    target' = state, program' = set_walvola(state),
                    UNCHANGED <<pin, position>>
             PROVE  MotorInv'
  BY DEF Command
<1>1. /\ set_walvola(state) \in Seq(Instruction)
      /\ Len(set_walvola(state)) = Size(state)
      /\ \A i \in 1 .. Size(state) : set_walvola(state)[i] = Instr(state, i)
  BY MovementProgram DEF Size
<1>2. pin' = [x \in {"left", "right"} |-> "LOW"] /\ position' \in 0 .. Stroke
  BY IdleIsOff DEF MotorInv, TypeOK
<1>. QED BY <1>1, <1>2, Begins

(***************************************************************************)
(* One instruction is taken off; a write is done at once.                  *)
(***************************************************************************)
LEMMA Advances ==
    ASSUME MotorInv, ~Idle, target' = target, program' = Tail(program)
    PROVE  /\ program' \in Seq(Instruction)
           /\ Executed + 1 \in 1 .. Size(target)
           /\ Executed' = Executed + 1
           /\ OnProgram'
<1>1. /\ Tail(program) \in Seq(Instruction)
      /\ Len(Tail(program)) = Len(program) - 1
      /\ \A i \in 1 .. Len(Tail(program)) : Tail(program)[i] = program[i + 1]
      /\ Len(program) \in Nat \ {0}
  BY HeadTailProperties, EmptySeq DEF MotorInv, TypeOK, Idle
<1>2. /\ Executed \in Nat /\ Executed' = Executed + 1
      /\ Executed + 1 \in 1 .. Size(target)
  BY <1>1 DEF Executed, Size, MotorInv, OnProgram
<1>3. ASSUME NEW i \in 1 .. Len(program')
      PROVE  /\ program'[i] = program[i + 1]
             /\ i + 1 \in 1 .. Len(program) /\ i + 1 > 1
             /\ Executed' + i = Executed + (i + 1)
  BY <1>1, <1>2
<1>. QED BY <1>1, <1>2, <1>3 DEF OnProgram, MotorInv

LEMMA WriteStep == MotorInv /\ WritePin => MotorInv'
<1> SUFFICES ASSUME MotorInv, WritePin PROVE MotorInv'
  OBVIOUS
<1> DEFINE w == Instr(target, Executed + 1)
<1>1. /\ program' \in Seq(Instruction)
      /\ Executed \in Nat
      /\ Executed + 1 \in 1 .. Size(target)
      /\ Executed' = Executed + 1
      /\ OnProgram'
  BY Advances DEF WritePin, MotorInv, OnProgram
<1>2. Len(program) \in Nat \ {0} /\ Head(program) = program[1]
  BY EmptySeq DEF MotorInv, TypeOK, WritePin, Idle
<1>3. /\ Head(program).op = w.op /\ Head(program).pin = w.pin
      /\ Head(program).level = w.level
  BY <1>2 DEF MotorInv, OnProgram
<1>4. /\ w.op = "write"
      /\ pin' = [pin EXCEPT ![w.pin] = w.level]
      /\ target' = target /\ position' = position
  BY <1>3 DEF WritePin
<1>5. /\ w.pin \in {"left", "right"} /\ w.level \in {"LOW", "HIGH"}
      /\ w.level = "HIGH"
            <=> (target = "ON" /\ Executed = 4) \/ (target = "OFF" /\ Executed = 3)
      /\ target # "NONE" => (w.pin = "left" <=> Executed \in {0, 3, 7})
      /\ target # "NONE" => (w.pin = "right" <=> Executed \in {1, 4, 8})
  BY <1>1, <1>4, Writes DEF MotorInv, TypeOK
<1>. HIDE DEF w
<1>6. TypeOK'
  BY <1>1, <1>4, <1>5 DEF MotorInv, TypeOK
<1>7. PinsOnProgram'
  <2>1. /\ pin'["right"] = IF w.pin = "right" THEN w.level ELSE pin["right"]
        /\ pin'["left"] = IF w.pin = "left" THEN w.level ELSE pin["left"]
    BY <1>4, <1>5 DEF MotorInv, TypeOK
  <2>2. CASE target = "NONE"
    BY <1>1, <1>4, <1>5, <2>1, <2>2 DEF MotorInv, PinsOnProgram
  <2>3. CASE target = "ON"
    BY <1>1, <1>4, <1>5, <2>1, <2>3 DEF MotorInv, PinsOnProgram
  <2>4. CASE target = "OFF"
    BY <1>1, <1>4, <1>5, <2>1, <2>4 DEF MotorInv, PinsOnProgram
  <2>. QED BY <2>2, <2>3, <2>4 DEF MotorInv, TypeOK
<1>8. OnItsWay'
  <2>1. target # "NONE" => Executed \in {0, 1, 3, 4, 7, 8}
    BY <1>5
  <2>2. target # "NONE" => Executed' # 6
    BY <1>1, <2>1
  <2>. QED BY <1>1, <1>4, <2>1, <2>2 DEF MotorInv, OnItsWay
<1>. QED BY <1>1, <1>6, <1>7, <1>8 DEF MotorInv

(***************************************************************************)
(* A tick of a delay that goes on.                                         *)
(***************************************************************************)
LEMMA GoesOn ==
    ASSUME MotorInv, ~Idle, target' = target,
           Head(program).op = "delay", Head(program).ticks > 1,
           program' = <<Delay(Head(program).ticks - 1)>> \o Tail(program)
    PROVE  /\ program' \in Seq(Instruction)
           /\ Executed' = Executed
           /\ program'[1].ticks = program[1].ticks - 1
           /\ OnProgram'
<1> DEFINE d == Delay(Head(program).ticks - 1)
<1>1. /\ Tail(program) \in Seq(Instruction)
      /\ Len(Tail(program)) = Len(program) - 1
      /\ \A i \in 1 .. Len(Tail(program)) : Tail(program)[i] = program[i + 1]
      /\ Len(program) \in Nat \ {0}
      /\ Head(program) = program[1] /\ Head(program) \in Instruction
  BY HeadTailProperties, EmptySeq DEF MotorInv, TypeOK, Idle
<1>2. /\ program[1].ticks \in Nat /\ d \in Instruction
      /\ d.op = "delay" /\ d.pin = "" /\ d.level = "LOW"
      /\ d.ticks = program[1].ticks - 1 /\ d.ticks >= 1
  <2>1. program[1].ticks \in Nat
    BY <1>1 DEF Instruction
  <2>2. program[1].ticks - 1 \in Nat /\ program[1].ticks - 1 >= 1
    BY <1>1, <2>1
  <2>3. d = Delay(program[1].ticks - 1)
    BY <1>1
  <2>4. d \in Instruction
    BY <2>2, <2>3, InstructionTypes
  <2>5. /\ d.op = "delay" /\ d.pin = "" /\ d.level = "LOW"
        /\ d.ticks = program[1].ticks - 1
    BY <2>3 DEF Delay
  <2>. QED BY <2>1, <2>2, <2>4, <2>5
<1>. HIDE DEF d
<1>3. /\ <<d>> \in Seq(Instruction) /\ Len(<<d>>) = 1 /\ <<d>>[1] = d
  <2>1. d \in Instruction
    BY <1>2
  <2>. QED BY <2>1
<1>4. /\ program' \in Seq(Instruction)
      /\ Len(program') = Len(<<d>>) + Len(Tail(program))
      /\ \A i \in 1 .. Len(<<d>>) + Len(Tail(program)) :
            program'[i] = IF i <= Len(<<d>>) THEN <<d>>[i]
                          ELSE Tail(program)[i - Len(<<d>>)]
  BY <1>1, <1>3, ConcatProperties DEF d
<1>5. Len(program') = Len(program)
  BY <1>1, <1>3, <1>4
<1>6. /\ program'[1] = d
      /\ \A i \in 2 .. Len(program) : program'[i] = program[i]
  <2>1. Len(<<d>>) + Len(Tail(program)) = Len(program)
    BY <1>1, <1>3
  <2>2. program'[1] = d
    BY <1>1, <1>3, <1>4, <2>1
  <2>3. ASSUME NEW i \in 2 .. Len(program)
        PROVE  program'[i] = program[i]
    <3>1. i - 1 \in 1 .. Len(Tail(program)) /\ (i - 1) + 1 = i
      BY <1>1
    <3>2. program'[i] = Tail(program)[i - 1]
      BY <1>1, <1>3, <1>4, <2>1
    <3>. QED BY <1>1, <3>1, <3>2
  <2>. QED BY <2>2, <2>3
<1>7. Executed' = Executed
  BY <1>5 DEF Executed
<1>8. OnProgram'
  <2>1. LET w == Instr(target, Executed + 1)
        IN  /\ w.op = "delay" /\ w.pin = program[1].pin
            /\ w.level = program[1].level /\ program[1].ticks <= w.ticks
            /\ w.ticks \in Nat
    <3>1. Executed + 1 \in 1 .. Size(target)
      BY <1>1 DEF Executed, Size, MotorInv, OnProgram
    <3>. QED BY <1>1, <3>1, Delays DEF MotorInv, TypeOK, OnProgram
  <2>2. Instr(target, Executed + 1).pin = "" /\ Instr(target, Executed + 1).level = "LOW"
    BY <2>1 DEF Instr, Write, Delay
  <2>3. program[1].ticks - 1 <= Instr(target, Executed + 1).ticks
    <3>1. \A a, b \in Nat : a <= b => a - 1 <= b
      OBVIOUS
    <3>. QED BY <1>2, <2>1, <3>1
  <2>4. Executed \in Nat
    BY DEF MotorInv, OnProgram
  <2>5. ASSUME NEW i \in 1 .. Len(program)
        PROVE  LET w == Instr(target, Executed + i)
               IN  /\ program'[i].op = w.op
                   /\ program'[i].pin = w.pin
                   /\ program'[i].level = w.level
                   /\ i > 1 => program'[i].ticks = w.ticks
                   /\ program'[i].ticks <= w.ticks
                   /\ w.op = "delay" => program'[i].ticks >= 1
    <3>1. CASE i = 1
      <4>1. ~(i > 1) /\ program'[i] = d
        BY <1>6, <3>1
      <4>. QED BY <1>2, <2>1, <2>2, <2>3, <3>1, <4>1
    <3>2. CASE i # 1
      <4>1. program'[i] = program[i]
        BY <1>1, <1>6, <3>2
      <4>. QED BY <4>1 DEF MotorInv, OnProgram
    <3>. QED BY <3>1, <3>2
  <2>. QED BY <1>5, <1>7, <2>4, <2>5 DEF OnProgram
<1>. QED BY <1>1, <1>2, <1>4, <1>6, <1>7, <1>8

LEMMA TickStep == MotorInv /\ Tick => MotorInv'
<1> SUFFICES ASSUME MotorInv, Tick PROVE MotorInv'
  OBVIOUS
<1> DEFINE t == Head(program).ticks
           w == Instr(target, Executed + 1)
<1>1. /\ Len(program) \in Nat \ {0} /\ Head(program) = program[1]
      /\ program[1] \in Instruction /\ t \in Nat /\ Executed \in Nat
      /\ Executed + 1 \in 1 .. Size(target)
      /\ target' = target /\ pin' = pin /\ position' = Moved
      /\ target \in {"ON", "OFF", "NONE"} /\ position \in 0 .. Stroke
  <2>1. /\ Len(program) \in Nat \ {0} /\ Head(program) = program[1]
        /\ program[1] \in Instruction
    BY EmptySeq, ElementOfSeq DEF MotorInv, TypeOK, Tick, Idle
  <2>2. t \in Nat
    BY <2>1 DEF Instruction
  <2>3. Executed \in Nat /\ Executed + 1 \in 1 .. Size(target)
    BY <2>1 DEF Executed, Size, MotorInv, OnProgram
  <2>4. /\ target' = target /\ pin' = pin /\ position' = Moved
        /\ target \in {"ON", "OFF", "NONE"} /\ position \in 0 .. Stroke
    BY DEF MotorInv, TypeOK, Tick
  <2>. QED BY <2>1, <2>2, <2>3, <2>4
<1>2. /\ program' \in Seq(Instruction) /\ OnProgram'
      /\ t > 1 => Executed' = Executed /\ program'[1].ticks = t - 1
      /\ ~(t > 1) => Executed' = Executed + 1
  <2>1. CASE t > 1
    BY <1>1, <2>1, GoesOn DEF Tick
  <2>2. CASE ~(t > 1)
    BY <1>1, <2>2, Advances DEF Tick
  <2>. QED BY <2>1, <2>2
<1>3. /\ w.op = "delay" /\ t <= w.ticks /\ t >= 1
      /\ target # "NONE" => Executed \in {2, 5, 6, 9}
      /\ target # "NONE" /\ Executed # 6 => ~(t > 1)
  <2>1. w.op = "delay" /\ t <= w.ticks /\ t >= 1
    BY <1>1 DEF MotorInv, OnProgram, Tick
  <2>2. /\ target # "NONE" => Executed + 1 \in {3, 6, 7, 10}
        /\ ~(target # "NONE" /\ Executed + 1 = 7) => w.ticks = 1
    BY <1>1, <2>1, Delays
  <2>. QED BY <1>1, <2>1, <2>2
<1>4. Moved \in 0 .. Stroke
  BY <1>1 DEF Moved
<1>5. TypeOK'
  BY <1>1, <1>2, <1>4 DEF MotorInv, TypeOK
<1>6. PinsOnProgram'
  <2>1. CASE target = "NONE"
    BY <1>1, <2>1 DEF MotorInv, PinsOnProgram
  <2>2. CASE target # "NONE"
    <3>1. Executed' \in 5 .. 8 <=> Executed \in 5 .. 8
      BY <1>2, <1>3, <2>2, <1>1
    <3>2. Executed' \in 4 .. 7 <=> Executed \in 4 .. 7
      BY <1>2, <1>3, <2>2, <1>1
    <3>. QED BY <1>1, <3>1, <3>2 DEF MotorInv, PinsOnProgram
  <2>. QED BY <2>1, <2>2
<1>7. OnItsWay'
  <2>1. CASE target = "NONE"
    BY <1>1, <2>1 DEF OnItsWay
  <2>2. CASE target = "ON" /\ Executed = 6
    <3>1. position + t >= Stroke /\ pin["right"] = "HIGH" /\ pin["left"] = "LOW"
      BY <1>1, <2>2 DEF MotorInv, OnItsWay, PinsOnProgram, TypeOK
    <3>2. Moved = IF position < Stroke THEN position + 1 ELSE position
      BY <3>1 DEF Moved
    <3>. QED BY <1>1, <1>2, <1>3, <2>2, <3>1, <3>2 DEF OnItsWay
  <2>3. CASE target = "OFF" /\ Executed = 6
    <3>1. position <= t /\ pin["left"] = "HIGH" /\ pin["right"] = "LOW"
      BY <1>1, <2>3 DEF MotorInv, OnItsWay, PinsOnProgram, TypeOK
    <3>2. Moved = IF position > 0 THEN position - 1 ELSE position
      BY <3>1 DEF Moved
    <3>. QED BY <1>1, <1>2, <1>3, <2>3, <3>1, <3>2 DEF OnItsWay
  <2>4. CASE target # "NONE" /\ Executed = 5
    <3>1. ~(t > 1) /\ Executed' = 6
      BY <1>1, <1>2, <1>3, <2>4
    <3>2. program'[1].ticks = Instr(target, 7).ticks
      <4>1. program' = Tail(program)
        BY <3>1 DEF Tick
      <4>2. Len(program) = 5 /\ Executed + 2 = 7
        <5>1. Executed = 10 - Len(program) /\ Executed = 5
          BY <2>4 DEF Executed, Size
        <5>2. \A n \in Nat : 10 - n = 5 => n = 5
          OBVIOUS
        <5>3. Len(program) \in Nat
          BY <1>1
        <5>4. Len(program) = 5
          BY <5>1, <5>2, <5>3
        <5>. QED BY <5>1, <5>4
      <4>3. program'[1] = program[2]
        <5>1. program \in Seq(Instruction) /\ program # <<>>
          BY DEF MotorInv, TypeOK, Tick, Idle
        <5>2. /\ Len(Tail(program)) = Len(program) - 1
              /\ \A i \in 1 .. Len(Tail(program)) : Tail(program)[i] = program[i + 1]
          BY <5>1, HeadTailProperties
        <5>3. Len(Tail(program)) = 4 /\ 1 \in 1 .. 4 /\ 1 + 1 = 2
          BY <4>2, <5>2
        <5>4. Tail(program)[1] = program[1 + 1]
          BY <5>2, <5>3
        <5>. QED BY <4>1, <5>3, <5>4
      <4>4. 2 \in 1 .. Len(program) /\ 2 > 1
        BY <4>2
      <4>5. program[2].ticks = Instr(target, Executed + 2).ticks
        BY <4>4 DEF MotorInv, OnProgram
      <4>. QED BY <4>2, <4>3, <4>5
    <3>3. Instr(target, 7).ticks \in Nat /\ Instr(target, 7).ticks >= Stroke
      <4>1. Instr(target, 7).op = "delay" /\ 7 \in 1 .. Size(target)
        BY <2>4 DEF Instr, Size, Delay
      <4>. QED BY <1>1, <2>4, <4>1, Delays
    <3>. QED BY <1>1, <1>4, <3>1, <3>2, <3>3 DEF OnItsWay
  <2>5. CASE target # "NONE" /\ Executed \in {2, 9}
    <3>1. Moved = position
      BY <1>1, <2>5 DEF MotorInv, PinsOnProgram, Moved
    <3>2. Executed' = Executed + 1
      BY <1>1, <1>2, <1>3, <2>5
    <3>. QED BY <1>1, <2>5, <3>1, <3>2 DEF MotorInv, OnItsWay
  <2>. QED BY <1>1, <1>3, <2>1, <2>2, <2>3, <2>4, <2>5
<1>. QED BY <1>2, <1>5, <1>6, <1>7 DEF MotorInv

LEMMA RestartStep == MotorInv /\ Restart => MotorInv'
<1> SUFFICES ASSUME MotorInv, Restart PROVE MotorInv'
  OBVIOUS
<1>1. /\ GPIO_init \in Seq(Instruction) /\ Len(GPIO_init) = Size("NONE")
      /\ \A i \in 1 .. Size("NONE") : GPIO_init[i] = Instr("NONE", i)
  BY InitProgram DEF Size
<1>2. position' \in 0 .. Stroke
  BY DEF MotorInv, TypeOK, Restart
<1>. QED BY <1>1, <1>2, Begins DEF Restart
-----------------------------------------------------------------------------
(* The theorems *)

LEMMA MotorNext == MotorInv /\ [Next]_vars => MotorInv'
<1> SUFFICES ASSUME MotorInv, [Next]_vars PROVE MotorInv'
  OBVIOUS
<1>1. CASE Command
  BY <1>1, CommandStep
<1>2. CASE WritePin
  BY <1>2, WriteStep
<1>3. CASE Tick
  BY <1>3, TickStep
<1>4. CASE Restart
  BY <1>4, RestartStep
<1>5. CASE UNCHANGED vars
  BY <1>5 DEF MotorInv, TypeOK, OnProgram, PinsOnProgram, OnItsWay, Executed, vars
<1>. QED BY <1>1, <1>2, <1>3, <1>4, <1>5 DEF Next

(***************************************************************************)
(* The inductive invariant holds in every reachable state.                 *)
(***************************************************************************)
THEOREM MotorInvariant == Spec => []MotorInv
<1>1. Init => MotorInv
  BY MotorInit
<1>2. MotorInv /\ [Next]_vars => MotorInv'
  BY MotorNext
<1>. QED BY <1>1, <1>2, PTL DEF Spec

(***************************************************************************)
(* The pins hold levels, the program instructions, and the valve does not  *)
(* leave its stroke (set_walvola and the motor functions, misc.cpp).       *)
(***************************************************************************)
THEOREM MotorTypeCorrect == Spec => []TypeOK
<1>1. MotorInv => TypeOK
  BY DEF MotorInv
<1>. QED BY <1>1, MotorInvariant, PTL

(***************************************************************************)
(* HIGH-HIGH, which misc.cpp:86 forbids, never reaches the H-bridge: in no *)
(* movement, whatever stood on the pins before it and wherever power was   *)
(* cut in the last one.                                                    *)
(***************************************************************************)
THEOREM NeverShorts == Spec => []NeverBothHigh
<1>1. MotorInv => NeverBothHigh
  BY DEF MotorInv, PinsOnProgram, NeverBothHigh
<1>. QED BY <1>1, MotorInvariant, PTL

(***************************************************************************)
(* When set_walvola is done the motor is off and the valve at the end it   *)
(* was sent to, for every stroke that WALVOLA_DELAY_ON and _OFF are long   *)
(* enough for, from wherever the valve stood.                              *)
(***************************************************************************)
THEOREM MovementIsComplete == Spec => []MovementCompletes
<1>1. MotorInv => MovementCompletes
  <2> SUFFICES ASSUME MotorInv, Idle, target # "NONE"
               PROVE  /\ pin["left"] = "LOW" /\ pin["right"] = "LOW"
                      /\ position = IF target = "ON" THEN Stroke ELSE 0
    BY DEF MovementCompletes
  <2>1. Len(program) = 0
    BY EmptySeq DEF Idle
  <2>2. Executed = 10
    BY <2>1 DEF Executed, Size
  <2>3. position = IF target = "ON" THEN Stroke ELSE 0
    BY <2>2 DEF MotorInv, TypeOK, OnItsWay
  <2>. QED BY <2>3, IdleIsOff
<1>. QED BY <1>1, MotorInvariant, PTL
=============================================================================
