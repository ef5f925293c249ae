---------------------------- MODULE GraphicsDevice ----------------------------
(***************************************************************************)
(* The device and what is drawn with it.  Pipelines knows of the context   *)
(* only whether there is one; in a process that is looked at for its       *)
(* device, DeviceContext says how that comes about.                        *)
(***************************************************************************)
EXTENDS Pipelines, DeviceContext

VARIABLE focus  \* what a process is looked at for: "draws" or "device"

graphicsVars == <<vars, contextVars, focus>>

GraphicsInit ==
  /\ focus \in {"draws", "device"}
  /\ Init
  /\ focus # "draws" => \A a, b \in Addrs : code[a] = code[b]
  /\ IF focus = "device" THEN DeviceInit
     ELSE /\ host = CHOOSE h \in DOMAIN Offers : TRUE
          /\ stage = "elsewhere"
          /\ chosen = [gpu |-> 0] /\ alive = {} /\ job = NoJob
          /\ tasks = [t \in Tasks |-> "none"]
          /\ guest = [task |-> "none", input |-> << >>, size |-> 0, bytes |-> Old]
          /\ jobs = 0 /\ faults = 0

Drawing == focus = "draws" /\ Next /\ UNCHANGED <<contextVars, focus>>

OnDevice == focus = "device" /\ DeviceNext /\ UNCHANGED <<vars, focus>>

GraphicsNext == Drawing \/ OnDevice

GraphicsSpec == GraphicsInit /\ [][GraphicsNext]_graphicsVars
===============================================================================
