------------------------------ MODULE MCModbus ------------------------------
(* Both masters of a Modbus line for the model checker, the newer one by what *)
(* it sends and by what it reads: master says which is looked at.             *)
EXTENDS ModbusBuffer, ILCRequests

VARIABLE master

MCCommand(address, func) == [address |-> address, func |-> func]

MCCalls == { MCCommand(1, 17), MCCommand(2, 18), MCCommand(250, 18) }
MCErrorFunc == 145 :> 17 @@ 146 :> 18
MCStrays == { MCCommand(3, 18), MCCommand(1, 5) }
MCData == {<< 0, 0 >>, << 0, 1 >>}
MCSubclasses ==
    { [reports |-> TRUE, watched |-> {}, most |-> 3],
      [reports |-> FALSE, watched |-> {17}, most |-> 2] }

\* Each action alone, and some of them before and after some others
MCILCLists ==
    { << MCCommand(1, func) >> : func \in {17, 18, 66, 72, 74, 81, 88, 119} } \cup
    { << MCCommand(a, f), MCCommand(2, g) >> :
          a \in 1 .. 2, f \in {65, 75, 84, 107}, g \in {65, 75, 17} }

Request(method, address, args) == [method |-> method, address |-> address, args |-> args]
Alone(method, address, args) == << Request(method, address, args) >>

\* Each method, with arguments of both signs and at the ends of their types, a
\* demand that does not go into 24 bits, and lists with a broadcast
MCRequestLists ==
    << Alone("reportServerID", 1, << >>),
       Alone("resetServer", 2, << >>),
       Alone("reportReHeaterGains", 1, << >>),
       Alone("changeILCMode", 1, << 0 >>),
       Alone("changeILCMode", 1, << 3 >>),
       Alone("setTempILCAddress", 255, << 247 >>),
       Alone("setStepperSteps", 2, << -128 >>),
       Alone("setStepperSteps", 2, << -1 >>),
       Alone("setStepperSteps", 2, << 127 >>),
       Alone("setDCAGain", 1, << -1082130432, 1065353216 >>),
       Alone("setSAAForceOffset", 3, << TRUE, -8388608 >>),
       Alone("setSAAForceOffset", 3, << TRUE, 8388607 >>),
       Alone("setSAAForceOffset", 3, << TRUE, 8388608 >>),
       Alone("setDAAForceOffset", 4, << FALSE, 65536, -1 >>),
       Alone("setOffsetAndSensitivity", 2, << 4, 1, -2147483647 >>),
       Alone("setThermalDemand", 1, << 255, 0 >>),
       Alone("setReHeaterGains", 2, << 2147483647, 128 >>),
       Alone("freezeSensor", 248, << 15 >>) \o Alone("reportForceActuatorForceStatus", 1, << >>),
       Alone("broadcastStepperSteps", 248, << 1, << -3, 0, 3 >> >>)
         \o Alone("reportStepperForceStatus", 3, << >>),
       Alone("broadcastThermalDemand", 250, << << 1, 255 >>, << 128, 0 >> >>)
         \o Alone("reportThermalStatus", 2, << >>)
         \o Alone("broadcastThermalDemand", 250, << << 0, 2 >>, << 3, 4 >> >>) >>

MCInit ==
    /\ master \in {"ModbusBuffer", "replies", "requests"}
    /\ ModbusBufferInit
    /\ ILCRepliesInit
    /\ ILCRequestsInit
    /\ master # "ModbusBuffer" => subclass = CHOOSE any \in Subclasses : TRUE
    /\ master # "replies" => tail = CHOOSE any \in Tails : TRUE
    /\ master # "requests" => trigger = 0 /\ caller = 1

MCNext ==
    /\ UNCHANGED master
    /\ \/ master = "ModbusBuffer" /\ ModbusBufferNext /\ UNCHANGED << ilcReplies, ilcRequests >>
       \/ master = "replies" /\ ILCRepliesNext /\ UNCHANGED << modbusBuffer, ilcRequests >>
       \/ master = "requests" /\ ILCRequestsNext /\ UNCHANGED << modbusBuffer, ilcReplies >>

MCSpec == MCInit /\ [][MCNext]_<< modbusBuffer, ilcReplies, ilcRequests, master >>
=============================================================================
