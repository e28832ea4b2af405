------------------------------ MODULE MCMachine ------------------------------
(* The interpreted machine, one part at a time: arithmetic, the string      *)
(* instructions, calls and the stack, floating point and its registers,     *)
(* and the native routines.  A behaviour is about one part, and the others  *)
(* keep a state in which they have not begun.                               *)
EXTENDS Instructions, SoftFloat, Fpu, Natives

VARIABLE part

Parts == {"alu", "strings", "stack", "floats", "fpu", "math", "natives"}
machineVars == <<aluVars, strVars, stackVars, floatVars, fpuVars, mathvars, natvars>>

---------------------------------------------------------------------------
(* Sizes and inputs *)

MCBytes == {0, 1}
MCPrefixes == {<<>>, <<"repe">>, <<"es", "repne">>, <<"ds", "es", "repe">>}
MCRegisters ==
    [si : {0, 1, 3}, di : {0, 2}, cx : {0, 1, 3}, ax : {<<0, 1>>},
     df : BOOLEAN, zf : {FALSE}, cf : {FALSE}, override : {"no", "es"}]
MCMemories == {[ds |-> [o \in 0 .. SEG |-> o % 2], es |-> e] : e \in [0 .. SEG -> Bytes]}

MCPlaces == {[cs |-> 0, ip |-> 0], [cs |-> 1, ip |-> 1]}
MCStart == [x \in {"ax", "cx", "dx", "bx", "sp", "bp", "si", "di"} |->
               CASE x = "sp" -> 7 [] x = "bp" -> 3 [] x = "ax" -> 5 [] OTHER -> 6]

MCMem == [p |-> 2, reg |-> FALSE, emin |-> 0, emax |-> 1]

MCGen1 == [m |-> 31, a |-> 5, q |-> 6]
MCGen2 == [m |-> 29, a |-> 5, q |-> 5]
MCRolls == {-2, 0, 1, 3, 7}
MCLevels == {-1, 0, 1}
MCAxes == [value : {0}, centre : {0}, low : {-1}, high : {-1}]
          \union [value : 0 .. 4, centre : {2}, low : {0}, high : {3}]
          \union [value : {1, 3, 4}, centre : {3}, low : {1}, high : {3}]
          \union [value : 0 .. 6, centre : {3}, low : {0}, high : {6}]

MCAddrs == NatSels \X {"head", "accessor"}
MCSlotFns == {[a \in MCAddrs |-> 2], [a \in MCAddrs |-> IF a[2] = "head" THEN 1 ELSE 2]}
MCPoints == {<< <<0, 1>> >>, << <<1, 2>>, <<2, 0>>, <<3, 2>> >>,
             << <<0, 0>>, <<3, 1>>, <<-4, 2>> >>, << <<-4, 0>>, <<1, 0>>, <<3, 1>>, <<2, 3>> >>}
MCScenes == [pts : MCPoints, x0 : {0, 3}, y0 : {1}]

---------------------------------------------------------------------------
AluIdle == before = 0 /\ ins = [op |-> "none"] /\ after = {}
StrIdle == c = 0 /\ bytes = 0 /\ str = [running |-> FALSE, op |-> "none"] /\ was = 0 /\ executed = 0
StackIdle == /\ r = 0 /\ at = 0 /\ flags = 0 /\ stack = 0 /\ frames = << >>
             /\ steps = 0 /\ back = [is |-> 0, was |-> 0]
FloatIdle == fop = [op |-> "none"] /\ fres = "none"
MathIdle == asked = [what |-> "none"] /\ seeds = << >> /\ answer = Nothing
NativesIdle == /\ natcpu = 0 /\ natplain = 0 /\ natstate = "idle" /\ natmap = 0 /\ sites = 0
               /\ replay = NotReplaying /\ setting = [routine |-> "right"]

MCInit ==
    /\ part \in Parts
    /\ IF part = "alu" THEN AluInit ELSE AluIdle
    /\ IF part = "strings" THEN StrInit(MCRegisters, MCMemories) ELSE StrIdle
    /\ IF part = "stack" THEN StackInit({MCStart}) ELSE StackIdle
    /\ IF part = "floats" THEN FloatInit ELSE FloatIdle
    /\ FpuInit
    /\ IF part = "math" THEN MathInit ELSE MathIdle
    /\ IF part = "natives" THEN NativesInit ELSE NativesIdle

Others(p) ==
    /\ part = p /\ UNCHANGED part
    /\ p # "alu" => UNCHANGED aluVars
    /\ p # "strings" => UNCHANGED strVars
    /\ p # "stack" => UNCHANGED stackVars
    /\ p # "floats" => UNCHANGED floatVars
    /\ p # "fpu" => UNCHANGED fpuVars
    /\ p # "math" => UNCHANGED mathvars
    /\ p # "natives" => UNCHANGED natvars

MCNext ==
    \/ Others("alu") /\ (Execute \/ Decimal)
    \/ Others("strings") /\ (Begin \/ Repeat)
    \/ Others("stack") /\ StackNext
    \/ Others("floats") /\ FloatStep
    \/ Others("fpu") /\ FpuNext
    \/ Others("math") /\ MathNext
    \/ Others("natives") /\ NativesNext

MCSpec == MCInit /\ [][MCNext]_<<part, machineVars>>

=============================================================================
